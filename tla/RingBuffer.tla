---------------------------- MODULE RingBuffer -----------------------------
(***************************************************************************)
(* basic_ring_buffer with the default storage                              *)
(* (include/wjr/container/ring_buffer.hpp): a double-ended queue in one    *)
(* array whose elements wrap around its end.                               *)
(*                                                                         *)
(* An array is a block of the heap, each of its cells raw or a live element.*)
(* Pointers into it are offsets.  head = tail stands for the empty and for *)
(* the full buffer; size tells them apart.  Beside each buffer goes the    *)
(* sequence it stands for, changed by the operation of Queues that the call *)
(* promises.                                                               *)
(*                                                                         *)
(* Moving an element does not throw; copying one may, in assign.  Loops    *)
(* that call other operations element by element are not actions:          *)
(* append_range is Reserve and EmplaceBack, a constructor from an input    *)
(* range is EmplaceBack, an assignment from a longer input range           *)
(* AssignPrefix and EmplaceBack.                                           *)
(***************************************************************************)
EXTENDS Queues, FiniteSets

CONSTANTS
  Blocks,        \* the blocks of the heap
  NULL, RAW,     \* no block; the cell that holds no element
  MaxCapacity    \* bound: the cells of a buffer

ASSUME RawAssumption ==
  RAW \notin Elems /\ NULL \notin Blocks /\ NULL \notin Nat /\ MaxCapacity \in Nat

VARIABLES
  heap,      \* the cells of the allocated blocks
  ring,      \* Storage::Data of each buffer
  ok         \* no raw cell was read, assigned to or destroyed, no live one constructed

vars == <<heap, ring, ok, queue>>

Cells(n) == [0 .. n - 1 -> Elems \cup {RAW}]
AllRaw(n) == [i \in 0 .. n - 1 |-> RAW]

(* Storage::Data: data, head, tail, size, and buf_end as an offset. *)
NoStorage == [data |-> NULL, head |-> 0, tail |-> 0, size |-> 0, cap |-> 0]

(* Mutant: tail is not wrapped in a full array. *)
StorageUnwrapped(b, size, cap) ==
  [data |-> b, head |-> 0, tail |-> size, size |-> size, cap |-> cap]

(* uninitialized_construct of the storage. *)
Storage(b, size, cap) ==
  [data |-> b, head |-> 0, tail |-> IF size = cap THEN 0 ELSE size, size |-> size, cap |-> cap]

Init ==
  /\ heap = [b \in {} |-> <<>>]
  /\ ring = [r \in Rings |-> NoStorage]
  /\ ok = TRUE
  /\ queue = Empty

-----------------------------------------------------------------------------
(* Memory: m is the cells of a block and whether the lifetimes of the *)
(* elements in them were respected. *)

Construct(m, at, s) ==
  [cell |-> [i \in DOMAIN m.cell |-> IF i \in at .. at + Len(s) - 1 THEN s[i - at + 1] ELSE m.cell[i]],
   ok   |-> m.ok /\ \A i \in at .. at + Len(s) - 1 : i \in DOMAIN m.cell /\ m.cell[i] = RAW]

Assign(m, at, s) ==
  [cell |-> [i \in DOMAIN m.cell |-> IF i \in at .. at + Len(s) - 1 THEN s[i - at + 1] ELSE m.cell[i]],
   ok   |-> m.ok /\ \A i \in at .. at + Len(s) - 1 : i \in DOMAIN m.cell /\ m.cell[i] # RAW]

Destroy(m, from, to) ==
  [cell |-> [i \in DOMAIN m.cell |-> IF i \in from .. to - 1 THEN RAW ELSE m.cell[i]],
   ok   |-> m.ok /\ \A i \in from .. to - 1 : i \in DOMAIN m.cell /\ m.cell[i] # RAW]

(* The elements from one pointer up to another. *)
Span(cell, from, to) == [i \in 1 .. to - from |-> cell[from + i - 1]]

(* A fresh array. *)
Fresh(n) == [cell |-> AllRaw(n), ok |-> TRUE]

-----------------------------------------------------------------------------
(* Pointers into a buffer q. *)

(* Mutant: a step back to the first cell goes around the array. *)
BackAround(q, p, n) == IF n < p THEN p - n ELSE q.cap - (n - p)

Increment(q, p) == IF p + 1 # q.cap THEN p + 1 ELSE 0
Decrement(q, p) == (IF p = 0 THEN q.cap ELSE p) - 1
Forth(q, p, n) == IF n < q.cap - p THEN p + n ELSE n - (q.cap - p)
Back(q, p, n) == IF n <= p THEN p - n ELSE q.cap - (n - p)

Full(q) == q.size = q.cap
Grown(cap, n) == IF cap * 2 > n THEN cap * 2 ELSE n

(* The elements in the order in which a move to another array takes them. *)
Linear(q, cell) ==
  IF q.head < q.tail THEN Span(cell, q.head, q.tail)
  ELSE IF q.size = 0 THEN <<>>
  ELSE Span(cell, q.head, q.cap) \o Span(cell, 0, q.tail)

(* Mutants: head = tail is taken for empty; the second segment is forgotten.*)
DestroyedEmpty(q, m) ==
  IF q.head <= q.tail THEN Destroy(m, q.head, q.tail)
  ELSE Destroy(Destroy(m, q.head, q.cap), 0, q.tail)
DestroyedOne(q, m) ==
  IF q.head < q.tail THEN Destroy(m, q.head, q.tail)
  ELSE IF q.head = q.tail THEN Destroy(m, 0, q.size)
  ELSE Destroy(m, q.head, q.cap)

(* _destroy. *)
Destroyed(q, m) ==
  IF q.head < q.tail THEN Destroy(m, q.head, q.tail)
  ELSE IF q.head = q.tail THEN Destroy(m, 0, q.size)
  ELSE Destroy(Destroy(m, q.head, q.cap), 0, q.tail)

-----------------------------------------------------------------------------
(* How a call leaves buffer r: with storage q in the block it had, or in *)
(* another one with the old one released, or with none. *)

Memory(q) == [cell |-> IF q.data = NULL THEN AllRaw(0) ELSE heap[q.data], ok |-> TRUE]

Stays(r, q, m) ==
  /\ ring' = [ring EXCEPT ![r] = q]
  /\ heap' = IF q.data = NULL THEN heap ELSE [heap EXCEPT ![q.data] = m.cell]
  /\ ok' = (ok /\ m.ok)

(* left is the memory of the old block when it is released. *)
Moves(r, q, m, left) ==
  /\ q.data \in Blocks \ DOMAIN heap
  /\ ring' = [ring EXCEPT ![r] = q]
  /\ heap' = [b \in (DOMAIN heap \ {ring[r].data}) \cup {q.data} |->
                IF b = q.data THEN m.cell ELSE heap[b]]
  /\ ok' = (ok /\ m.ok /\ left.ok /\ \A i \in DOMAIN left.cell : left.cell[i] = RAW)

(* ~basic_ring_buffer, and what is left of r. *)
Releases(r, left) ==
  /\ heap' = [b \in DOMAIN heap \ {ring[r].data} |-> heap[b]]
  /\ ok' = (ok /\ left.ok /\ \A i \in DOMAIN left.cell : left.cell[i] = RAW)

(* All elements of r have been moved out of its block. *)
MovedOut(r) == Destroyed(ring[r], Memory(ring[r]))

(* The elements are moved to a block of capacity n that is to hold more. *)
MovesTo(r, b, cap, more) ==
  LET q == ring[r]
      s == Linear(q, Memory(q).cell)
  IN  Moves(r, Storage(b, q.size + Len(more), cap),
            Construct(Construct(Fresh(cap), q.size, more), 0, s), MovedOut(r))

-----------------------------------------------------------------------------
(* Construction and destruction: a default-constructed buffer is replaced. *)

ConstructRange(r, b, s) ==
  /\ ring[r].data = NULL /\ s # <<>> /\ Len(s) <= MaxCapacity
  /\ Moves(r, Storage(b, Len(s), Len(s)), Construct(Fresh(Len(s)), 0, s), Memory(ring[r]))
  /\ Becomes(r, s)

ConstructReserve(r, b, n) ==
  /\ ring[r].data = NULL /\ n # 0
  /\ Moves(r, Storage(b, 0, n), Fresh(n), Memory(ring[r]))
  /\ UNCHANGED queue

CopyConstruct(r, b, t) ==
  /\ ring[r].data = NULL /\ ring[t].size # 0
  /\ LET s == Linear(ring[t], Memory(ring[t]).cell)
     IN  Moves(r, Storage(b, ring[t].size, ring[t].size), Construct(Fresh(ring[t].size), 0, s),
               Memory(ring[r]))
  /\ Copy(r, t)

Destruct(r) ==
  /\ Releases(r, Destroyed(ring[r], Memory(ring[r])))
  /\ ring' = [ring EXCEPT ![r] = NoStorage]
  /\ Becomes(r, <<>>)

(* Mutant: the other buffer keeps its storage. *)
MoveAssignKeeps(r, t) ==
  /\ r # t
  /\ Releases(r, Destroyed(ring[r], Memory(ring[r])))
  /\ ring' = [ring EXCEPT ![r] = ring[t]]
  /\ Take(r, t)

(* The other buffer is left without storage. *)
MoveAssign(r, t) ==
  /\ r # t
  /\ Releases(r, Destroyed(ring[r], Memory(ring[r])))
  /\ ring' = [ring EXCEPT ![r] = ring[t], ![t] = NoStorage]
  /\ Take(r, t)

SwapWith(r, t) ==
  /\ ring' = [ring EXCEPT ![r] = ring[t], ![t] = ring[r]]
  /\ UNCHANGED <<heap, ok>>
  /\ Swap(r, t)

-----------------------------------------------------------------------------
(* Single elements. *)

EmplaceBack(r, v) ==
  LET q == ring[r] IN
  /\ ~Full(q)
  /\ Stays(r, [q EXCEPT !.tail = Increment(q, @), !.size = @ + 1],
           Construct(Memory(q), q.tail, <<v>>))
  /\ PushBack(r, v)

(* _realloc_insert_at_end: the new element is constructed before the others *)
(* are moved. *)
EmplaceGrow(r, b, v) ==
  LET q == ring[r] IN
  /\ Full(q) /\ Grown(q.size, q.size + 1) <= MaxCapacity
  /\ MovesTo(r, b, Grown(q.size, q.size + 1), <<v>>)
  /\ PushBack(r, v)

PopsFront(r) ==
  LET q == ring[r] IN
  /\ q.size # 0
  /\ Stays(r, [q EXCEPT !.head = Increment(q, @), !.size = @ - 1],
           Destroy(Memory(q), q.head, q.head + 1))
  /\ PopFront(r)

PopsBack(r) ==
  LET q    == ring[r]
      last == Decrement(q, q.tail) IN
  /\ q.size # 0
  /\ Stays(r, [q EXCEPT !.tail = last, !.size = @ - 1], Destroy(Memory(q), last, last + 1))
  /\ PopBack(r)

-----------------------------------------------------------------------------
(* Capacity. *)

Clear(r) ==
  LET q == ring[r] IN
  /\ Stays(r, [q EXCEPT !.tail = q.head, !.size = 0], Destroyed(q, Memory(q)))
  /\ Becomes(r, <<>>)

Reserve(r, b, n) ==
  LET q == ring[r] IN
  /\ q.cap < n /\ Grown(q.cap, n) <= MaxCapacity
  /\ MovesTo(r, b, Grown(q.cap, n), <<>>)
  /\ UNCHANGED queue

ShrinkEmpty(r) ==
  /\ ring[r].size = 0
  /\ Releases(r, Memory(ring[r]))
  /\ ring' = [ring EXCEPT ![r] = NoStorage]
  /\ UNCHANGED queue

ShrinkToFit(r, b) ==
  LET q == ring[r] IN
  /\ 0 < q.size /\ q.size < q.cap
  /\ MovesTo(r, b, q.size, <<>>)
  /\ UNCHANGED queue

(* clear_if_reserved: the old elements go, the new storage has their number.*)
ClearIfReserved(r, b, n) ==
  LET q == ring[r] IN
  /\ q.cap < n /\ Grown(q.cap, n) <= MaxCapacity
  /\ Moves(r, Storage(b, q.size, Grown(q.cap, n)), Fresh(Grown(q.cap, n)),
           Destroyed(q, Memory(q)))
  /\ Becomes(r, <<>>)

-----------------------------------------------------------------------------
(* Assignment from a range s. *)

(* The room from the first element to the end of the array. *)
One(q) == q.cap - q.head

(* The first elements are assigned to. *)
Overwritten(q, m, s) ==
  IF Len(s) <= One(q) THEN Assign(m, q.head, s)
  ELSE Assign(Assign(m, q.head, SubSeq(s, 1, One(q))), 0, SubSeq(s, One(q) + 1, Len(s)))

(* One past the last of n elements. *)
TailAt(q, n) ==
  IF n > One(q) THEN n - One(q) ELSE IF n = One(q) THEN 0 ELSE q.head + n

(* A forward range of no more elements than there are. *)
Shortened(q, m, s) ==
  LET n  == Len(s)
      n1 == IF n <= One(q) THEN n ELSE One(q)
      m1 == Destroy(Assign(m, q.head, SubSeq(s, 1, n1)),
                    q.head + n1, IF q.head < q.tail THEN q.tail ELSE q.cap)
  IN  IF n > One(q) THEN Destroy(Assign(m1, 0, SubSeq(s, n1 + 1, n)), n - n1, q.tail)
      ELSE IF q.tail <= q.head THEN Destroy(m1, 0, q.tail)
      ELSE m1

AssignShorter(r, s) ==
  LET q == ring[r] IN
  /\ 0 < Len(s) /\ Len(s) <= q.size
  /\ Stays(r, [q EXCEPT !.tail = TailAt(q, Len(s)), !.size = Len(s)],
           Shortened(q, Memory(q), s))
  /\ Becomes(r, s)

(* One of more elements that fit: those there are are assigned to, the *)
(* others constructed behind them, in the first segment and in the second. *)
Lengthened(q, m, s) ==
  LET m1  == Overwritten(q, m, SubSeq(s, 1, q.size))
      new == SubSeq(s, q.size + 1, Len(s))
      in1 == One(q) - q.size
  IN  IF q.size > One(q) THEN Construct(m1, q.size - One(q), new)
      ELSE IF Len(s) > One(q)
        THEN Construct(Construct(m1, q.head + q.size, SubSeq(new, 1, in1)),
                       0, SubSeq(new, in1 + 1, Len(new)))
      ELSE Construct(m1, q.head + q.size, new)

AssignLonger(r, s) ==
  LET q == ring[r] IN
  /\ q.size < Len(s) /\ Len(s) <= q.cap
  /\ Stays(r, [q EXCEPT !.tail = TailAt(q, Len(s)), !.size = Len(s)],
           Lengthened(q, Memory(q), s))
  /\ Becomes(r, s)

AssignGrow(r, b, s) ==
  LET q == ring[r]
      n == Len(s)
      c == Grown(q.cap, n)
  IN  /\ q.cap < n /\ c <= MaxCapacity
      /\ Moves(r, Storage(b, n, c), Construct(Fresh(c), 0, s), Destroyed(q, Memory(q)))
      /\ Becomes(r, s)

(* An input range that ends before the elements do. *)
CutAt(q, m, n) ==
  IF q.head < q.tail THEN Destroy(m, q.head + n, q.tail)
  ELSE IF n <= One(q) THEN Destroy(Destroy(m, q.head + n, q.cap), 0, q.tail)
  ELSE Destroy(m, n - One(q), q.tail)

AssignInput(r, s) ==
  LET q == ring[r]
      n == Len(s)
  IN  /\ 0 < n /\ n < q.size
      /\ Stays(r, [q EXCEPT !.tail = Forth(q, q.head, n), !.size = n],
               CutAt(q, Overwritten(q, Memory(q), s), n))
      /\ Becomes(r, s)

(* An input range that goes on with emplace_back, and an assignment whose *)
(* copying throws before all elements there are are assigned to. *)
AssignPrefix(r, s) ==
  LET q == ring[r] IN
  /\ s # <<>> /\ Len(s) <= q.size
  /\ Stays(r, q, Overwritten(q, Memory(q), s))
  /\ Overwrite(r, s)

(* Copying throws at element j + 1 of a longer forward range, behind those *)
(* there are: what was constructed in the segment at hand is destroyed, *)
(* what was constructed in the first one before it is not. *)
AssignThrows(r, s, j) ==
  LET q == ring[r]
      m == Overwritten(q, Memory(q), SubSeq(s, 1, q.size))
  IN  /\ q.size <= j /\ j < Len(s) /\ Len(s) <= q.cap
      /\ Stays(r, q, IF q.size < One(q) /\ One(q) <= j
                       THEN Construct(m, q.head + q.size, SubSeq(s, q.size + 1, One(q)))
                       ELSE m)
      /\ Overwrite(r, SubSeq(s, 1, q.size))

(* It throws in the array the range was to be copied to. *)
GrowThrows(r, b, s) ==
  LET c == Grown(ring[r].cap, Len(s)) IN
  /\ ring[r].cap < Len(s) /\ c <= MaxCapacity
  /\ b \in Blocks \ DOMAIN heap
  /\ heap' = [x \in DOMAIN heap \cup {b} |-> IF x = b THEN AllRaw(c) ELSE heap[x]]
  /\ UNCHANGED <<ring, ok, queue>>

-----------------------------------------------------------------------------
(* Iterators: a pointer, or NULL for end(). *)

Begin(q) == IF q.size = 0 THEN NULL ELSE q.head

EndIf(q, p) == IF p = q.tail THEN NULL ELSE p
IterNext(q, p) == EndIf(q, Increment(q, p))
IterPrev(q, p) == Decrement(q, IF p = NULL THEN q.tail ELSE p)
IterPlus(q, p, n) ==
  IF n > 0 THEN EndIf(q, Forth(q, p, n))
  ELSE IF n < 0 THEN Back(q, IF p = NULL THEN q.tail ELSE p, -n)
  ELSE p

(* linearize_pointer: the place of an iterator in the sequence. *)
PlaceOf(q, p) == IF p < q.head THEN p + (q.cap - q.head) ELSE p - q.head
Place(q, p) == IF p = NULL THEN q.size ELSE PlaceOf(q, p)

(* The iterator of the element with index i, as operator[] finds it. *)
At(q, i) == IF i = q.size THEN NULL ELSE Forth(q, q.head, i)

(* The range an assignment from another buffer copies. *)
Elements(t) ==
  LET q == ring[t]
  IN  [k \in 1 .. Place(q, NULL) - Place(q, Begin(q)) |-> heap[q.data][IterPlus(q, Begin(q), k - 1)]]

ArrayOne(q, cell) == Span(cell, q.head, IF q.tail <= q.head /\ q.size # 0 THEN q.cap ELSE q.tail)
ArrayTwo(q, cell) == Span(cell, 0, IF q.tail > q.head \/ q.size = 0 THEN 0 ELSE q.tail)

-----------------------------------------------------------------------------
Ranges == UNION {[1 .. n -> Elems] : n \in 1 .. MaxCapacity}

AssignFrom(r, s) ==
  \/ s = <<>> /\ Clear(r)
  \/ AssignShorter(r, s) \/ AssignLonger(r, s)
  \/ \E b \in Blocks : AssignGrow(r, b, s)

CopyAssign(r, t) == r # t /\ AssignFrom(r, Elements(t))

AssignRange(r) ==
  \E s \in Ranges :
    \/ AssignShorter(r, s) \/ AssignLonger(r, s) \/ AssignInput(r, s) \/ AssignPrefix(r, s)
    \/ \E b \in Blocks : ConstructRange(r, b, s) \/ AssignGrow(r, b, s)

(* An assignment that throws and leaves nothing behind. *)
AssignFails(r) ==
  \E s \in Ranges : \E j \in 0 .. Len(s) - 1 :
    (ring[r].size >= One(ring[r]) \/ j < One(ring[r])) /\ AssignThrows(r, s, j)

OfElement(r) ==
  \/ PopsFront(r) \/ PopsBack(r)
  \/ \E v \in Elems : EmplaceBack(r, v) \/ \E b \in Blocks : EmplaceGrow(r, b, v)

(* clear_if_reserved is called of a buffer without elements. *)
OfCapacity(r) ==
  \/ Clear(r) \/ ShrinkEmpty(r) \/ Destruct(r)
  \/ \E b \in Blocks :
       \/ ShrinkToFit(r, b)
       \/ \E n \in 1 .. MaxCapacity :
            \/ ConstructReserve(r, b, n) \/ Reserve(r, b, n)
            \/ ring[r].size = 0 /\ ClearIfReserved(r, b, n)

OfTwo(r, t) ==
  \/ MoveAssign(r, t) \/ SwapWith(r, t) \/ CopyAssign(r, t)
  \/ \E b \in Blocks : CopyConstruct(r, b, t)

Next ==
  \E r \in Rings :
    \/ OfElement(r) \/ OfCapacity(r) \/ AssignRange(r) \/ AssignFails(r)
    \/ \E t \in Rings : OfTwo(r, t)

Spec == Init /\ [][Next]_vars

-----------------------------------------------------------------------------
(* Properties. *)

(* The cells that hold the elements of q. *)
Occupied(q) ==
  IF q.size = 0 THEN {}
  ELSE IF q.head < q.tail THEN q.head .. q.tail - 1
  ELSE (q.head .. q.cap - 1) \cup (0 .. q.tail - 1)

(* Type correctness: head, tail and size name the same cells. *)
TypeOK ==
  /\ ok \in BOOLEAN
  /\ \A b \in DOMAIN heap : b \in Blocks /\ \E n \in 1 .. MaxCapacity : heap[b] \in Cells(n)
  /\ \A r \in Rings :
       LET q == ring[r] IN
       \/ q = NoStorage
       \/ /\ q.data \in DOMAIN heap /\ heap[q.data] \in Cells(q.cap)
          /\ q.size \in 0 .. q.cap /\ q.head \in 0 .. q.cap - 1
          /\ q.tail = Forth(q, q.head, q.size)

(* Every element a buffer claims to have is alive, and every call respects *)
(* lifetimes: none is constructed over a live one, read, assigned to or *)
(* destroyed when it is not alive, or left alive in released memory. *)
ElementsLive ==
  /\ ok
  /\ \A r \in Rings : \A i \in Occupied(ring[r]) : heap[ring[r].data][i] # RAW

(* assign_range promises that all live elements remain owned by the *)
(* container: what is alive in a block is an element of the buffer whose *)
(* storage it is, also after a copy has thrown. *)
LiveOwned ==
  \A b \in DOMAIN heap : \A i \in DOMAIN heap[b] : heap[b][i] # RAW =>
    \E r \in Rings : ring[r].data = b /\ i \in Occupied(ring[r])

(* Every block is the storage of exactly one buffer: growing, assigning, *)
(* moving and swapping neither leak storage nor share it. *)
StorageOwned ==
  /\ \A b \in DOMAIN heap : \E r \in Rings : ring[r].data = b
  /\ \A r, t \in Rings : r # t /\ ring[r].data = ring[t].data => ring[r].data = NULL

(* However a buffer is read, by index, by iterators in both directions and *)
(* across the end of the array, by its two arrays, front and back, it is *)
(* the sequence its calls have made. *)
ReadsExact ==
  \A r \in Rings :
    LET q    == ring[r]
        s    == queue[r]
        cell == Memory(q).cell
    IN  /\ q.size = Len(s)
        /\ Begin(q) = At(q, 0)
        /\ \A i \in 0 .. q.size - 1 :
             /\ cell[At(q, i)] = s[i + 1]
             /\ IterNext(q, At(q, i)) = At(q, i + 1)
             /\ IterPrev(q, At(q, i + 1)) = At(q, i)
        /\ \A i, j \in 0 .. q.size :
             IterPlus(q, At(q, i), j - i) = At(q, j) /\ Place(q, At(q, i)) = i
        /\ ArrayOne(q, cell) \o ArrayTwo(q, cell) = s
        /\ Linear(q, cell) = s
        /\ s # <<>> => cell[Decrement(q, q.tail)] = Last(s)

-----------------------------------------------------------------------------
(* Calls that the properties do not survive: clear_if_reserved of a buffer *)
(* that has elements, and assignments in which copying throws late. *)
ClearsLive ==
  \E r \in Rings, b \in Blocks, n \in 1 .. MaxCapacity : ClearIfReserved(r, b, n)
FailsLate ==
  \E r \in Rings : \E s \in Ranges :
    (\E j \in 0 .. Len(s) - 1 : AssignThrows(r, s, j)) \/ \E b \in Blocks : GrowThrows(r, b, s)

SpecClearing == Init /\ [][Next \/ ClearsLive]_vars
SpecThrowing == Init /\ [][Next \/ FailsLate]_vars
=============================================================================
