------------------------------- MODULE Pools -------------------------------
(***************************************************************************)
(* automatic_free_pool, arena and dynamic_object_pool (include/wjr/memory, *)
(* src/memory/arena.cpp) over intrusive lists, and the lists of a user.    *)
(*                                                                         *)
(* A pool holds a ring of chunks of the heap.  An arena takes chunks from  *)
(* its pool and hands out one piece of the last one after the other.  An   *)
(* object pool keeps the objects it is given back in a list for each size  *)
(* class, threaded through the objects, and takes others from its arena.   *)
(* The header that holds a chunk's hook is left out: offsets begin behind  *)
(* it.                                                                     *)
(***************************************************************************)
EXTENDS IntrusiveList

CONSTANTS
  Lists,         \* rings of elements
  Forwards,      \* forward lists of elements
  FreePools,     \* automatic_free_pool
  Arenas,        \* dynamic_object_pool, each with its arena
  Chunks,        \* the blocks of the heap
  Temp,          \* the temporary hook of swap_with
  Classes,       \* the sizes of objects that have a free list
  Cache,         \* the first block size of an arena
  Rules,         \* Arena::Rule
  Wrap,          \* block sizes are computed modulo this
  MaxObjects     \* bound: objects of all pools, in use or free

Align == 16      \* mem::default_new_alignment
Hook == 8        \* sizeof(hlist_node)
AddressSpace == 2 ^ 30

(* An object is large enough for the hook that links it when it is free. *)
ASSUME ClassAssumption == IsFiniteSet(Classes) /\ \A n \in Classes : n \in Nat /\ n >= Hook

(* There are finitely many heads, no hook is of two kinds, and the null link*)
(* is the address of nothing. *)
ASSUME HookAssumption ==
  /\ IsFiniteSet(Lists) /\ IsFiniteSet(Forwards) /\ IsFiniteSet(FreePools) /\ IsFiniteSet(Arenas)
  /\ Lists \cap (FreePools \cup Arenas) = {} /\ FreePools \cap Arenas = {}
  /\ (Lists \cup FreePools \cup Arenas) \cap (Nodes \cup Chunks) = {}
  /\ Forwards \cap Nodes = {} /\ Nodes \cap Chunks = {}
  /\ NULL \notin Nodes \cup Chunks \cup (Chunks \X Nat)
  /\ Temp \notin Lists \cup FreePools \cup Arenas \cup Nodes \cup Chunks

ASSUME SizeAssumption ==
  Wrap \in Nat \ {0} /\ Cache \in 0 .. Wrap - 1 /\ Rules \subseteq {"Constant", "Factor1_5", "Factor2"}

VARIABLES
  hook,      \* the hooks of the rings
  list,      \* the sequence that each ring stands for
  link,      \* the links of the forward lists
  forward,   \* the sequence that each forward list stands for
  heap,      \* the size of every allocated chunk
  arena,     \* the other state of each arena
  freed,     \* the links of the free lists
  objects    \* what the object pools have handed out, in use or free

rings == <<hook, list>>
chains == <<link, forward>>
vars == <<rings, chains, heap, arena, freed, objects>>

Pools == FreePools \cup Arenas
Heads == Lists \cup Pools

NewArena(cache, rule) == [block |-> NULL, start |-> 0, end |-> 0, cache |-> cache, rule |-> rule]

Init ==
  /\ hook = [next |-> [p \in Heads |-> p], prev |-> [p \in Heads |-> p]]
  /\ list = [p \in Heads |-> <<>>]
  /\ link = [l \in Forwards |-> NULL]
  /\ forward = [l \in Forwards |-> <<>>]
  /\ heap = [c \in {} |-> 0]
  /\ arena \in [Arenas -> {NewArena(Cache, rule) : rule \in Rules}]
  /\ freed = [p \in Arenas \X Classes |-> NULL]
  /\ objects = {}

-----------------------------------------------------------------------------
(* The lists of a user. *)

Linked == UNION {ToSet(list[l]) : l \in Lists}
Becomes(l, s) == list' = [list EXCEPT ![l] = s]

(* A node of the ring of l: an element, or the head behind the last one. *)
At(l, i) == IF i > Len(list[l]) THEN l ELSE list[l][i]
Until(s, i) == SubSeq(s, 1, i - 1)
From(s, i) == SubSeq(s, i, Len(s))

(* What remove_if and unique leave of a sequence. *)
Purged(s, bad) == Left(s, {i \in DOMAIN s : Kind[s[i]] # bad})
Deduped(s) == Left(s, {i \in DOMAIN s : i = 1 \/ Kind[s[i]] # Kind[s[i - 1]]})

Pushes(l, n) ==
  /\ n \in Nodes \ Linked
  /\ \/ hook' = LinkBack(hook, l, n) /\ Becomes(l, Append(list[l], n))
     \/ hook' = LinkFront(hook, l, n) /\ Becomes(l, <<n>> \o list[l])
     \/ \E i \in DOMAIN list[l] :
          /\ hook' = LinkBack(hook, At(l, i), n)
          /\ Becomes(l, InsertAt(list[l], i, n))

Removes(l, i) ==
  /\ hook' = Unlink(hook, list[l][i])
  /\ Becomes(l, RemoveAt(list[l], i))

(* The range from i to before j of l goes before place k of m, a place that *)
(* is not behind the first of the range and before its end. *)
Splices(l, i, j, m, k) ==
  LET s     == list[l]
      range == SubSeq(s, i, j - 1)
      rest  == Until(s, i) \o From(s, j)
  IN  /\ l = m => k <= i \/ j <= k
      /\ hook' = SpliceBefore(hook, At(m, k), At(l, i), At(l, j))
      /\ list' =
           IF l = m
             THEN LET to == IF k <= i THEN k ELSE k - (j - i)
                  IN  [list EXCEPT ![l] = Until(rest, to) \o range \o From(rest, to)]
             ELSE [list EXCEPT ![l] = rest, ![m] = Until(@, k) \o range \o From(@, k)]

SplicesAll(l, m, k) ==
  /\ l # m \/ k > Len(list[l])
  /\ hook' = SpliceBefore(hook, At(m, k), hook.next[l], l)
  /\ list' = IF l = m THEN list
             ELSE [list EXCEPT ![l] = <<>>, ![m] = Until(@, k) \o list[l] \o From(@, k)]

(* An element takes the place of another one, or an empty head the elements *)
(* of another head. *)
Replaces(l) ==
  \/ \E i \in DOMAIN list[l] : \E n \in Nodes \ Linked :
       /\ hook' = Forget(Replace(hook, list[l][i], n), {list[l][i]})
       /\ Becomes(l, ReplaceAt(list[l], i, n))
  \/ \E m \in Lists \ {l} :
       /\ list[m] = <<>>
       /\ hook' = InitSelf(Replace(hook, l, m), l)
       /\ list' = [list EXCEPT ![l] = <<>>, ![m] = list[l]]

(* Neither ring may be empty. *)
Swaps(l, m) ==
  /\ list[l] # <<>> /\ list[m] # <<>>
  /\ hook' = SwapRings(hook, l, m, Temp)
  /\ list' = [list EXCEPT ![l] = list[m], ![m] = list[l]]

RemovesIf(l, bad) ==
  /\ hook' = RemoveAll(hook, l, {n \in Nodes : Kind[n] = bad})
  /\ Becomes(l, Purged(list[l], bad))

Uniques(l) ==
  /\ hook' = UniqueRing(hook, l)
  /\ Becomes(l, Deduped(list[l]))

Clears(l) ==
  /\ hook' = ClearRing(hook, l).h
  /\ Becomes(l, <<>>)

OfList(l) ==
  \/ \E n \in Nodes : Pushes(l, n)
  \/ \E i \in DOMAIN list[l] : Removes(l, i)
  \/ \E m \in Lists : \E k \in 1 .. Len(list[m]) + 1 :
       \/ \E i, j \in 1 .. Len(list[l]) + 1 : i <= j /\ Splices(l, i, j, m, k)
       \/ SplicesAll(l, m, k)
  \/ \E m \in Lists : Swaps(l, m)
  \/ \E bad \in {Kind[n] : n \in Nodes} : RemovesIf(l, bad)
  \/ Replaces(l) \/ Uniques(l) \/ Clears(l)

-----------------------------------------------------------------------------
(* The forward lists of a user. *)

Chained == UNION {ToSet(forward[l]) : l \in Forwards}
Behind(l, i) == IF i = 0 THEN l ELSE forward[l][i]
Holds(l, s) == forward' = [forward EXCEPT ![l] = s]

PushesAfter(l, i, n) ==
  /\ n \in Nodes \ Chained
  /\ link' = PushAfter(link, Behind(l, i), n, n)
  /\ Holds(l, InsertAt(forward[l], i + 1, n))

(* All of m goes behind element i of l as a chain. *)
PushesChain(l, i, m) ==
  LET s == forward[m] IN
  /\ l # m /\ s # <<>>
  /\ link' = With(PushAfter(link, Behind(l, i), link[m], Last(s)), m, NULL)
  /\ forward' = [forward EXCEPT ![m] = <<>>,
                                ![l] = Until(@, i + 1) \o s \o From(@, i + 1)]

RemovesAfter(l, i) ==
  /\ link' = UnlinkAfter(link, Behind(l, i))
  /\ Holds(l, RemoveAt(forward[l], i + 1))

MovesChain(l, m) ==
  /\ l # m /\ forward[m] = <<>>
  /\ link' = MoveChain(link, l, m)
  /\ forward' = [forward EXCEPT ![l] = <<>>, ![m] = forward[l]]

Bulk(l) ==
  \/ \E bad \in {Kind[n] : n \in Nodes} :
       /\ link' = RemoveAllAfter(link, l, {n \in Nodes : Kind[n] = bad})
       /\ Holds(l, Purged(forward[l], bad))
  \/ link' = UniqueAfter(link, l) /\ Holds(l, Deduped(forward[l]))
  \/ link' = ClearChain(link, l) /\ Holds(l, <<>>)

OfForward(l) ==
  \/ \E i \in 0 .. Len(forward[l]) :
       \/ \E n \in Nodes : PushesAfter(l, i, n)
       \/ \E m \in Forwards : PushesChain(l, i, m)
       \/ i < Len(forward[l]) /\ RemovesAfter(l, i)
  \/ \E m \in Forwards : MovesChain(l, m)
  \/ Bulk(l)

-----------------------------------------------------------------------------
(* automatic_free_pool. *)

(* allocate of chunk c of n bytes. *)
TakesChunk(p, c, n) ==
  /\ c \in Chunks \ DOMAIN heap
  /\ heap' = With(heap, c, n)
  /\ hook' = LinkBack(hook, p, c)
  /\ list' = [list EXCEPT ![p] = Append(@, c)]

Without(chunks) == [c \in DOMAIN heap \ chunks |-> heap[c]]

(* deallocate, which is not told the pool. *)
Deallocates(c) ==
  \E p \in FreePools : \E i \in DOMAIN list[p] :
    /\ list[p][i] = c
    /\ hook' = Unlink(hook, c)
    /\ heap' = Without({c})
    /\ list' = [list EXCEPT ![p] = RemoveAt(@, i)]

(* clear; the destructor, with a new pool in its place. *)
ClearsPool(p) ==
  LET cleared == ClearRing(hook, p)
  IN  /\ hook' = cleared.h
      /\ heap' = Without(ToSet(cleared.disposed))
      /\ list' = [list EXCEPT ![p] = <<>>]

(* Mutant: the chunks the pool had are not freed. *)
MovesPoolOnly(p, q) ==
  LET gone == ToSet(Walked(hook, p))
  IN  /\ hook' = InitSelf(Replace(Forget(hook, gone), q, p), q)
      /\ heap' = heap
      /\ list' = [list EXCEPT ![p] = list[q], ![q] = <<>>]

(* Move assignment of another pool: dispose_nodes, then replace.  A move *)
(* construction is one to an empty pool. *)
MovesPool(p, q) ==
  LET gone == ToSet(Walked(hook, p))
  IN  /\ hook' = InitSelf(Replace(Forget(hook, gone), q, p), q)
      /\ heap' = Without(gone)
      /\ list' = [list EXCEPT ![p] = list[q], ![q] = <<>>]

OfFreePool(p) ==
  \/ \E c \in Chunks : TakesChunk(p, c, 0) \/ Deallocates(c)
  \/ ClearsPool(p)
  \/ \E q \in FreePools \ {p} : MovesPool(p, q)

-----------------------------------------------------------------------------
(* Arenas and object pools. *)

AlignDown(n) == n - (n % Align)
AlignUp(n) == AlignDown(n + Align - 1)

(* Mutant: the room is not rounded. *)
RoomExact(r) == (r.end - r.start) % AddressSpace
Room(r) == AlignDown((r.end - r.start) % AddressSpace)

Fits(r, n) == r.block # NULL /\ n <= Room(r)

(* m_cache after one more block. *)
Expanded(cache, rule) ==
  CASE rule = "Constant"  -> cache
    [] rule = "Factor1_5" -> (cache + cache \div 2) % Wrap
    [] rule = "Factor2"   -> (cache + cache) % Wrap

NewObject(a, n, at) == [pool |-> a, class |-> n, at |-> at, free |-> FALSE]

(* The first object of the free list is handed out again. *)
Reuses(a, n) ==
  LET first == freed[<<a, n>>]
  IN  /\ first # NULL
      /\ freed' = UnlinkAfter(freed, <<a, n>>)
      /\ objects' = {IF o.at = first /\ o.free THEN NewObject(a, n, first) ELSE o : o \in objects}
      /\ UNCHANGED <<hook, list, heap, arena>>

Bumps(a, n) ==
  LET r == arena[a] IN
  /\ freed[<<a, n>>] = NULL /\ Fits(r, n) /\ Cardinality(objects) < MaxObjects
  /\ arena' = [arena EXCEPT ![a].start = @ + AlignUp(n)]
  /\ objects' = objects \cup {NewObject(a, n, <<r.block, r.start>>)}
  /\ UNCHANGED <<hook, list, heap, freed>>

(* Mutant: the request is compared with the block size before it grows. *)
RefillsEarly(a, n, c) ==
  LET r     == arena[a]
      cache == Expanded(r.cache, r.rule)
      large == n > r.cache \div 4
  IN  /\ freed[<<a, n>>] = NULL /\ ~Fits(r, n) /\ Cardinality(objects) < MaxObjects
      /\ TakesChunk(a, c, IF large THEN n ELSE cache)
      /\ arena' = [arena EXCEPT ![a] =
                     IF large THEN [r EXCEPT !.cache = cache]
                     ELSE [r EXCEPT !.cache = cache, !.block = c,
                                    !.start = AlignUp(n), !.end = cache]]
      /\ objects' = objects \cup {NewObject(a, n, <<c, 0>>)}
      /\ UNCHANGED freed

(* _allocate_large: the block size grows first.  An object of more than a *)
(* quarter of it has a chunk of its own. *)
Refills(a, n, c) ==
  LET r     == arena[a]
      cache == Expanded(r.cache, r.rule)
      large == n > cache \div 4
  IN  /\ freed[<<a, n>>] = NULL /\ ~Fits(r, n) /\ Cardinality(objects) < MaxObjects
      /\ TakesChunk(a, c, IF large THEN n ELSE cache)
      /\ arena' = [arena EXCEPT ![a] =
                     IF large THEN [r EXCEPT !.cache = cache]
                     ELSE [r EXCEPT !.cache = cache, !.block = c,
                                    !.start = AlignUp(n), !.end = cache]]
      /\ objects' = objects \cup {NewObject(a, n, <<c, 0>>)}
      /\ UNCHANGED freed

Returns(o) ==
  /\ ~o.free
  /\ freed' = PushAfter(freed, <<o.pool, o.class>>, o.at, o.at)
  /\ objects' = (objects \ {o}) \cup {[o EXCEPT !.free = TRUE]}
  /\ UNCHANGED <<hook, list, heap, arena>>

(* The links that are left when chunks are freed. *)
LinksWithout(chunks) ==
  [x \in {x \in DOMAIN freed : x[1] \notin chunks} |-> freed[x]]

(* Mutant: the source keeps its free lists. *)
MovesArenaHalf(a, b) ==
  /\ MovesPool(a, b)
  /\ arena' = [arena EXCEPT ![a] = arena[b], ![b] = NewArena(arena[b].cache, arena[b].rule)]
  /\ freed' = LET left == LinksWithout(ToSet(list[a]))
              IN  [x \in DOMAIN left |-> IF x[1] = a THEN freed[<<b, x[2]>>] ELSE left[x]]
  /\ objects' = {[o EXCEPT !.pool = IF @ = b THEN a ELSE @] : o \in {o \in objects : o.pool # a}}

(* Move assignment: the pool's chunks, the arena's cursor, the free list of *)
(* every class. *)
MovesArena(a, b) ==
  /\ MovesPool(a, b)
  /\ arena' = [arena EXCEPT ![a] = arena[b], ![b] = NewArena(arena[b].cache, arena[b].rule)]
  /\ freed' = LET left == LinksWithout(ToSet(list[a]))
              IN  [x \in DOMAIN left |->
                     IF x[1] = a THEN freed[<<b, x[2]>>] ELSE IF x[1] = b THEN NULL ELSE left[x]]
  /\ objects' = {[o EXCEPT !.pool = IF @ = b THEN a ELSE @] : o \in {o \in objects : o.pool # a}}

(* The destructor, and a new pool in its place. *)
DestroysArena(a) ==
  /\ ClearsPool(a)
  /\ \E rule \in Rules : arena' = [arena EXCEPT ![a] = NewArena(Cache, rule)]
  /\ freed' = LET left == LinksWithout(ToSet(list[a]))
              IN  [x \in DOMAIN left |-> IF x[1] = a THEN NULL ELSE left[x]]
  /\ objects' = {o \in objects : o.pool # a}

OfArena(a) ==
  \/ \E n \in Classes : Reuses(a, n) \/ Bumps(a, n) \/ \E c \in Chunks : Refills(a, n, c)
  \/ \E o \in objects : o.pool = a /\ Returns(o)
  \/ \E b \in Arenas \ {a} : MovesArena(a, b)
  \/ DestroysArena(a)

ListNext ==
  /\ \/ \E l \in Lists : OfList(l) /\ UNCHANGED chains
     \/ \E l \in Forwards : OfForward(l) /\ UNCHANGED rings
  /\ UNCHANGED <<heap, arena, freed, objects>>

PoolNext ==
  /\ \/ \E p \in FreePools : OfFreePool(p) /\ UNCHANGED <<arena, freed, objects>>
     \/ \E a \in Arenas : OfArena(a)
  /\ UNCHANGED chains

Next == ListNext \/ PoolNext

Spec == Init /\ [][Next]_vars

-----------------------------------------------------------------------------
(* Properties. *)

(* Type correctness: exactly the heads and the elements of lists have links.*)
TypeOK ==
  LET linked == Heads \cup UNION {ToSet(list[p]) : p \in Heads}
  IN  /\ list \in [Heads -> Seq(Nodes \cup Chunks)]
      /\ DOMAIN hook.next = linked /\ DOMAIN hook.prev = linked
      /\ forward \in [Forwards -> Seq(Nodes)]
      /\ DOMAIN link = Forwards \cup Chained
      /\ DOMAIN heap \subseteq Chunks
      /\ \A a \in Arenas :
           arena[a] \in [block : Chunks \cup {NULL}, start : Nat, end : Nat,
                         cache : 0 .. Wrap - 1, rule : Rules]
      /\ \A o \in objects : o.pool \in Arenas /\ o.class \in Classes /\ o.at \in Chunks \X Nat

(* Every ring, walked forth and back, and every forward list is the sequence*)
(* that the operations on it promise, after splices within one ring and *)
(* between two, swaps, moves of empty and non-empty heads, and removals in *)
(* the middle of a walk. *)
RingsExact ==
  /\ \A p \in Heads :
       /\ Walk(hook.next, hook.next[p], p) = list[p]
       /\ Walk(hook.prev, hook.prev[p], p) = Reverse(list[p])
  /\ \A l \in Forwards : Chain(link, l) = forward[l]

(* Every allocated chunk is in the ring of exactly one pool, which will free*)
(* it, and a ring holds no freed chunk. *)
ChunksOwned ==
  /\ DOMAIN heap = UNION {ToSet(Walked(hook, p)) : p \in Pools}
  /\ \A p, q \in Pools : p # q => ToSet(Walked(hook, p)) \cap ToSet(Walked(hook, q)) = {}

(* The bytes of a chunk that an object has, and those still to be handed out.*)
BytesOf(o) == o.at[2] .. o.at[2] + o.class - 1
Unused(r) == r.start .. r.end - 1

(* Objects lie in chunks of their own pool, aligned, apart from each other *)
(* and from what their arena is still to hand out, also when block sizes *)
(* wrap around and when a pool has been moved. *)
ObjectsApart ==
  /\ \A o \in objects :
       /\ o.at[1] \in ToSet(list[o.pool]) /\ o.at[2] % Align = 0
       /\ o.at[2] + o.class <= heap[o.at[1]]
       /\ \A u \in objects : o # u /\ o.at[1] = u.at[1] => BytesOf(o) \cap BytesOf(u) = {}
       /\ \A a \in Arenas : arena[a].block = o.at[1] => BytesOf(o) \cap Unused(arena[a]) = {}
  /\ \A a \in Arenas : arena[a].block # NULL =>
       arena[a].block \in ToSet(list[a]) /\ arena[a].end <= heap[arena[a].block]

(* The free list of a class holds each object that was given back to the *)
(* pool, or to one that was moved to it, once, and nothing else. *)
FreeListsExact ==
  /\ \A a \in Arenas, n \in Classes :
       LET held == Chain(freed, <<a, n>>)
       IN  /\ IsInjective(held)
           /\ ToSet(held) = {o.at : o \in {o \in objects : o.pool = a /\ o.class = n /\ o.free}}
=============================================================================
