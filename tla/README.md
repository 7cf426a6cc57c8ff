# Verification of wjr

wjr is a C++ library: containers, allocators, big integers, JSON, formatting. This directory
holds TLA+ specifications of those parts of it whose correctness depends on long sequences of calls,
on state carried from one step to the next, or on data structures that are linked to
themselves; the TLC configurations that check them on small instances; and TLAPS
proofs of the results that matter most, for every value of the constants.

The modelled code is the scratch arena (`memory/stack_allocator`), the B+tree
(`container/btree.hpp`), the JSON pipeline (`json/lexer`, `reader.hpp`, `visitor.hpp`, and the
parser and builder of `document.hpp`), the ring buffer (`container/ring_buffer.hpp`), the intrusive lists
(`container/list.hpp`, `forward_list.hpp`, `intrusive_algorithms.hpp`), and the pools built on them
(`memory/automatic_free_pool.hpp`, `arena`, `object_pool.hpp`). Sources are named relative to `include/wjr/` and
`src/` of the repository; `PROJECT.json` gives the lines each definition stands for.

    tlasany M.tla                               parse a module
    tlc -workers 2 -config X.cfg M              run a configuration (table in "Runs")
    tlapm --stretch 2 M.tla                     check the proofs of a module


## 1. Inventory

### Modelled

**Scratch arena** (`memory/stack_allocator.hpp`, `src/memory/stack_allocator.cpp`).
*State*: the cursor and end of the current slab (`m_cache`), the index of the current
slab, the number of slabs, the table of slabs and its capacity, the first slab's
start; per owner, a context (cursor and index at the time it was opened, a list of large blocks); in
AddressSanitizer builds the poisoned bytes.
*Operations*: construct an owner (`unique_stack_allocator`, `make_scope`), allocate
through an owner or through a `weak_stack_allocator`, free a large weak block, destroy the youngest owner
(rewind, trim slabs, free large blocks).
*Interactions*: slabs and the table come from an `automatic_free_pool`, the pool of the
module the arena was initialized in, even when the code that grows the arena runs in
another module; the pool frees what it still holds when it is torn down. Everything
bigger than the threshold comes from the heap.
*Hard*: a context is a cursor saved before slabs were added, trimmed or the
table was moved; it may have been saved before there was any slab. Red zones change the size of a
request after the choice of path has been made.
*Correct means*: payloads in use lie in live slabs, do not overlap and survive what
younger owners do; nothing leaks and at most one spare slab is cached; the arena is a stack of regions.

**Intrusive lists** (`container/list.hpp`, `forward_list.hpp`, `intrusive_algorithms.hpp`). *State*:
rings of hooks with two links, and forward lists with one, that end in null. *Operations*: push, remove, splices of a
range or a whole ring, `replace`, `swap_with`, `remove_if`, `unique`, `clear_and_dispose`. *Hard*: every operation is a
handful of stores into links that later loads of the same operation read; a head is a hook like any other, so that an
empty ring is a hook that points to itself. *Correct means*: the links forth and back give the sequence that
the operation promises, and no link of an element that is gone is followed.

**Pools** (`automatic_free_pool.hpp`, `arena.hpp`, `arena.cpp`, `object_pool.hpp`). *State*: a ring of chunks for each pool;
the arena's current block, its cursor and end, and the next block size; a free list for each size class, threaded
through the objects given back. *Operations*: allocate, deallocate, `clear`, moves, destruction.
*Hard*: the 32-bit block size grows, wraps and is then compared with the request; objects of a moved pool are given
back to the new one, and free lists must not outlive the chunks they run through. *Correct means*: no chunk is leaked or
freed twice, objects neither overlap nor leave their chunk, free lists hold what was given back.

**Ring buffer** (`container/ring_buffer.hpp`). *State*: head, tail, number of elements and end of an array, and which of
its cells hold live elements. *Operations*: both ends, `reserve`, `resize`, shrinking, `clear`, assignment of
forward and input ranges, copies, moves and swaps, iterators, and the two contiguous arrays.
*Hard*: head and tail are equal in an empty and in a full buffer; old and new elements of an assignment each lie in up to
two segments, cut at different places; copying may throw. *Correct means*: elements
are alive where the buffer says and nowhere else, no storage is lost, and every way to read the buffer gives the sequence that its calls have made.

**B+tree** (`container/btree.hpp`). *State*: root, size, up to two elements in the
tree object, nodes with keys, sons, parent and position, the list of leaves.
*Operations*: lower and upper bound, insertion (searched, hinted, imported from
another tree), erasure of an iterator, a range, a key, `clear`; between two trees `merge`, `swap`, move and copy.
*Hard*: a split, a borrowing or a merging renumbers sons in two nodes and moves
separators between levels; a range is erased in pieces, each of which may restructure the tree under the
iterator the loop goes on with; the iterator to return is computed before the tree is rebalanced; hints and
equal keys have gaps at the boundaries of leaves; `merge` erases from one tree at the position it goes on with and inserts into another;
copy assignment reuses nodes, walking two trees and a list of leaves at once. *Correct means*: nodes are half full, parent links,
separators and the leaf list agree, searches find what a linear scan finds, the
returned iterators are right, and trees behave as sorted sequences.

**JSON lexer and reader** (`src/json/lexer.cpp`, `json/lexer-impl.hpp`, `json/reader.hpp`). *State*:
the position in the text, three words of carry (inside a string, escaped, behind white
space or structure), the buffer of token positions, the position in it. *Operations*: `lexer::read`, a
loop of blocks of 64 characters; `ondemand_reader::get` and its refill.
*Hard*: the tokens of a block are found with arithmetic on words; runs of
backslashes, strings and tokens straddle blocks; tokens are stored in groups, beyond
the number there is. *Correct means*: the tokens handed out are those a character by character reading finds,
no store leaves the buffer, and the end stays the end.

**JSON minify** (`src/json/lexer.cpp`): the same words, and a compaction in groups of four
through a table, possibly over the very text that is being read.

**JSON visitor and document parser** (`json/visitor.hpp`, `basic_document_parser` in
`json/document.hpp`, the acceptance of numbers in `json/number.hpp`). *State*: where the visitor is, its depth and a bit for
each level; the parser's stack of pointers to open containers, the current
container and element; the documents. *Operation*: `parse`, one function of labels and gotos that asks the
reader for tokens and calls the parser back. *Hard*: nesting is kept twice, with
different capacities; a scalar is visited, and a container left, only after the token
behind it has been read; duplicate keys overwrite documents; the visitor's bits start uninitialized.
*Correct means*: just the texts of the grammar within the depth limit are
accepted, the document is the one the text denotes, errors are told by the code that names them, and no callback
writes to a container that is gone.

### Not modelled, and why

- **RCReference**: intrusive handles that nothing in the repository uses or tests. Its one question, whether a
  destructor may re-enter `reset`, has no caller that asks it.
- **json/document.hpp outside the parser**: accessors, assignment, serializers: a variant of containers, plain code of many types.
- **vector**, `container_fn`, storage traits: the growing storage is plain; its difficulty is
  exception safety and aliasing of template arguments, which tests with instrumented types reach.
- **B+tree wrappers** (`btree_map`, `btree_set`, comparison): overloads over the tree.
- **experimental B+trees** (`bulk`, `join`, ...): prototypes outside the supported interface.
- **JSON formatters, in-place parser, string decoding**: layout, templates and functions of one string.
- **bitset, capture_leaf, uninitialized memory, copying, alignment**: word arithmetic and wrappers.
- **big integers, math**: arithmetic over limbs with thresholds far above what can be enumerated; the
  tests compare with GMP. `prefix_xor` and `shld` are operators of `JsonLexer`.
- **character conversion** (dragonbox, fast_float), **encodings** (Huffman, UTF-8): pure
  functions of long inputs, the former from published algorithms that come with proofs.
- **np**: index arithmetic of tensors in templates.
- **x86 kernels and SIMD**: intrinsics and generated assembly. The x86 lexer classifies with SIMD and then does
  the arithmetic that is modelled.
- **concurrency, parallel**: compiler barriers, a pause instruction and empty stubs. There is no scheduler
  in this repository, so no module has interleaved threads.
- **vocabulary types** (`expected`, `optional`, `tuple`, ...) and preprocessor and type metaprogramming; build, benchmarks, documentation.


## 2. How the parts interact

```
  weak_stack_allocator ---> unique_stack_allocator ---> stack_allocator_object ---> automatic_free_pool
        containers, big-integer scratch, parsers             (slabs, table)              (of the arena's module)

  text --> lexer::read --> ondemand_reader --> visitor_detail::parse --> basic_document_parser --> document
             (blocks)         (buffer)              (grammar, depth)          (stack, callbacks)

  btree_map, btree_set, json objects ---> basic_btree ---> ring of leaves (list.hpp)

  object_pool (free lists: forward_list.hpp) ---> arena ---> automatic_free_pool ---> ring of chunks (list.hpp)
```

The modules follow these arrows where behaviour crosses them: `StackAllocator` has the arena,
its owners, the heap and both pools in one state; `JsonPipeline` composes minify with the lexer and the
reader's buffer; `JsonVisitor` composes the visitor and the parser it calls
back; `JsonText` composes the lexer with the visitor on characters; `BTreePair` has two trees; `Pools` has lists, pools, arenas
and object pools over one heap, and uses the same list operations for chunks as for the lists of a user.


## 3. Modules

| module | models or states |
|---|---|
| `StackAllocator` | the arena, its owners, the heap, the pools; its properties and inductive invariant |
| `RegionStack` | abstract: a stack of regions of disjoint extents |
| `StackAllocator_proof` | proofs of the arena's safety properties, and that it implements `RegionStack` |
| `MCStackAllocator` | symmetry for TLC |
| `BTree` | `basic_btree`, one level of the tree per step; its properties |
| `BTreeNodes_proof` | what splits, loans, merges and unlinking do to a tree of any height, told by the sons of its nodes |
| `BTree_proof` | the inductive invariant of `BTree` and the proofs of what does not depend on the order of keys |
| `BTreeOrder_proof` | the order of the keys: separators, searches, places and returned iterators |
| `BTreePair` | two trees: `merge`, `swap`, moves, copies |
| `SortedSeq` | abstract: two sorted sequences, insertion into permitted gaps, removal of runs, transfer one by one |
| `MCBTree` | plans of calls and the size bound for TLC |
| `JsonTokens` | reference: tokens, and what minify keeps, found character by character |
| `JsonLexer` | the block step shared by `read` and `minify`, on words |
| `JsonReader` | `lexer::read` and `ondemand_reader` over its buffer |
| `JsonMinify` | `minify` |
| `JsonPipeline`, `MCJsonPipeline` | a text read as it is, or minified and then read; the texts |
| `JsonPipeline_proof` | what the arithmetic on words finds in a block, for every width; the inductive invariants of the reader, of minify and of both together |
| `Queues` | abstract: ring buffers as sequences |
| `RingBuffer`, `MCRingBuffer` | `basic_ring_buffer`, its iterators, lifetimes and storage; symmetry |
| `RingBuffer_proof` | proofs about it |
| `IntrusiveList` | the operations on hooks and links |
| `Pools`, `MCPools` | lists of a user, `automatic_free_pool`, arenas and object pools; what TLC explores together |
| `Pools_proof` | proofs about each list operation, on rings and on forward lists; the inductive invariant of `Pools` and the proofs of its safety properties |
| `JsonGrammar` | abstract: the texts of JSON and the values they denote |
| `JsonVisitor` | `visitor_detail::parse` with `basic_document_parser`; its properties and inductive invariant |
| `JsonVisitor_proof` | proofs about both: what tokens and documents tell at every label, and that accepted texts are JSON |
| `JsonText`, `MCJsonText` | lexer and visitor together, on characters |

### StackAllocator

| state | code |
|---|---|
| `cur`, `end`, `first` | `m_cache.ptr`, `m_cache.end`, `m_first` |
| `idx`, `size`, `capacity`, `table`, `slot` | `m_idx`, `m_size`, `m_capacity`, `m_ptr` and what it points to |
| `depth`, `ctx` | the live `unique_stack_allocator`s and their `stack_context`s |
| `heap`, `pool` | live blocks with their sizes; the chunks linked into each module's pool |
| `live`, `held` | payloads in slabs that users hold, large blocks of weak allocators |
| `shadow` | unpoisoned bytes under AddressSanitizer |

An address is a block and an offset; `malloc` may return any block that is not live, also one freed
before. `BumpInSlab`, `FirstSlab`, `CachedSlab` and `NewSlab` are the paths of `_allocate_impl` and
`_small_reallocate`; `Allocate`, `LargeAllocate`, `WeakAllocate`, `WeakLargeAllocate` and
`WeakDeallocate` are the entry points with their comparisons with the threshold; `Close` is the whole
destructor: poison, restore, trim, free the large blocks. `Fits` keeps the unsigned
wrap-around of the room that is left. `ForeignRefill` and `ForeignTeardown` are another module's pool
that fills and is destroyed while the arena is in use; `m` in the allocation actions is the module that runs the code.
Weak requests may be made in any depth, also with an owner older than the youngest, since all owners
share one cursor: a payload belongs to the owner that is youngest when it is made, which is what
`make_scope` says of it.

### BTree

Nodes are numbers; `vals`, `keys`, `sons`, `parent`, `pos` are functions of them, `chain` is the list of leaves.
A call is one step, followed by the steps of the loops it runs. `work` holds the locals of the
running loop: `ascend` (splitting upwards), `rebalance` (borrowing and merging upwards) and `range`
(`_erase_n`'s loop over pieces). Only the loop's next iteration is enabled until the call returns, so the states in the
middle of a call are visible to the properties that are about them. Search is a
recursive function down the tree, each level a node-local search (`FirstAfter`); the
specialised searchers for small keys and SIMD compute the same. `want`, in `work`, is not in the code: it
is the rank the returned iterator should have, fixed when the call begins from the contents alone.

`BTreePair` adds `other`, the tree that is not worked on. Both trees use the operations of `BTree`: `Exchanged` makes the
other one current, as `merge` turns from its source to its target and back. `merging` holds the locals of `merge`: its
cursor, the element and the position found in the target, which stays what it is while the source is restructured. `CopiedOver` is
`_copy_reuse_tree`, with the chain of old leaves and the cursor in it, `Cloned` the copy to new nodes that is made of inline
values; `MoveAssign` takes the storage or, from an unequal allocator, moves the elements.

### JsonTokens, JsonLexer, JsonReader, JsonMinify, JsonPipeline

A word of 64 bits is the set of its 1 bits, of width `W`. `Minus` is the subtraction
modulo 2^W on which the detection of odd runs of backslashes rests: it goes to numbers and back. `JsonTokens` says what the words
have to find, with a state of three Booleans and one character after the other; the code has nothing like it. `JsonReader` runs `lexer::read` one block per
step; `stored` remembers how far the stores in groups have gone, beyond the number of tokens. The buffer has
`Capacity` slots, the formula of `ondemand_reader`'s constructor. `JsonMinify` follows the groups of four and the
`DiffTable` write by write, with characters told apart by their original positions, so that overwriting unread text is visible.
`JsonPipeline` has the variables of both: minify runs first, or not at all, and the reader gets what it wrote.

### RingBuffer

| state | code |
|---|---|
| `heap` | allocated arrays; a cell is `RAW` or the value of a live element |
| `ring` | `Storage::Data` of each buffer, pointers as offsets |
| `ok` | no cell was read, assigned to, destroyed or constructed in the wrong state, or released alive |
| `queue` | in no code: the sequence each buffer stands for, changed by the operation of `Queues` that the call promises |

Every operation is computed by `Construct`, `Assign` and `Destroy` on runs of cells, in the code's order, with
its segments. Loops that call other operations element by element are not actions of their own (`append_range`, construction from an input
range). `AssignThrows` is an assignment whose copying throws at any element; `Next` has those that leave nothing
behind, and the run `ring_throw` the others as well.

### IntrusiveList, Pools

`hook` has the links of rings, `link` those of forward lists, `freed` those of free lists: functions of the hooks that are linked, so that
following a link of an element that is gone is an error and not a value. `IntrusiveList` has each operation as the sequence of stores
that the code makes, each reading what the ones before it have written. `list` and `forward` are the sequences that the
operations promise. `Pools` lets a user apply every operation to lists, and applies the same operators to the chunks of pools and the objects of free lists.
`arena` is `m_start`, `m_end`, the block they point into, `m_cache` and the rule it grows by; block sizes are modulo `Wrap`. A
chunk's header is left out, offsets begin behind it.

### JsonVisitor, JsonText

`parse` waits for a token at a place in the code; `at` is the label and `in` the kind of container the label belongs to. A step takes one
token, does everything `parse` and the callbacks do with it and stops at the next read. `pending` holds what the code does
only after the next token is known. `bits` starts with arbitrary Booleans (`stk` is uninitialized). The documents are
numbered in order of creation, and `heap` keeps overwritten ones, so that a stale pointer remains recognisable.
`JsonText` feeds `JsonVisitor` with what `JsonTokens` finds in a text of characters: which token starts where, and
whether a number is followed by something `parse_number` refuses.


## 4. Runs

| run | configuration | bounds | distinct states |
|---|---|---|---|
| `stack_arena` | `StackAllocator.cfg` | 5 symmetric blocks, 3 owners, 3 slabs, sizes 1, 2, 5 at threshold 4, alignment 2, red zones of 2 | 76,226 |
| `stack_asan_edge` | `StackAllocatorAsanEdge.cfg` | red zones, a size just below the threshold | (violation) |
| `stack_empty_request` | `StackAllocatorEmpty.cfg` | a size of 0 | (violation) |
| `btree` | `BTree.cfg` | a set with nodes of 4 and keys 1 to 6, a multiset of up to 5 elements, deep trees with nodes of 5, two trees of up to 18 elements each with nodes of 4 | 49,844 |
| `json_pipeline` | `JsonPipeline.cfg` | blocks of 4, texts up to 6 over five classes and up to 9 over three | 1,495,738 |
| `json_visitor` | `JsonVisitor.cfg` | depth limit 2, up to 11 tokens and the end | 813,531 |
| `json_unclosed_root` | `JsonVisitorQuote.cfg` | up to 4 tokens | (violation) |
| `json_text_behind_quote` | `JsonTextQuote.cfg` | texts of up to 4 characters | (violation) |
| `ring_buffer` | `RingBuffer.cfg` | 2 buffers of up to 4 cells, 2 values, 3 blocks | 17,578 |
| `ring_clear` | `RingBufferClear.cfg` | 2 buffers of up to 3 cells | (violation) |
| `ring_throw` | `RingBufferThrow.cfg` | 2 buffers of up to 3 cells | (violation) |
| `pools` | `Pools.cfg` | 2 rings and 2 forward lists of 4 elements; 2 pools, 2 object pools, 3 chunks, 4 objects of 8 and 40 bytes | 113,602 |

**stack_arena** checks `TypeOK`, `PayloadsInSlabs` (nothing the arena does frees or outgrows what a user
holds), `PayloadsDisjoint`, `PoolAccounted` (the pool holds the table and the reachable slabs and nothing
else), `ContextsValid` (saved positions stay usable and above what older owners hold) and `OneSpareSlab`. Three slabs make a rewind that trims possible, a table of
two slots makes it move, and three owners put a context saved before the first slab, one in a lower slab and one in the
current slab side by side. Five blocks are the table, three slabs and one block for whatever else is live, so that a freed
block is soon handed out again. The build has red zones, so that `ShadowExact` (the unpoisoned bytes are exactly the payloads in use, over
`_poison_small`'s three ranges) is checked as well. `IsRegionStack` is the refinement of `RegionStack`.

**btree** checks the structure (`TypeOK`, `HalfFull`, `LinksExact`, `ChainFollowsTree`,
`SeparatorsExact`), the answers (`SearchExact`, `CountsExact`, `ReturnExact`), that each piece of a range erasure removes just the
next elements of the range (`PiecesExact`), that the trees are the sorted sequences their callers see (`AreSortedSeqs`), and that every
call ends (`CallsReturn`). Its instances are initial states that differ in node size, kind and plan. On the small set and
multiset calls come in any number and order: six keys with nodes of four (the smallest node size allowed) make two levels with up to three leaves,
and every borrowing and merging of leaves; the multiset is about equal keys, of which a group may span leaves, and the tags make equal keys distinguishable.
The deep instance starts from trees of three levels built in ascending, descending and inward order, so that inner
nodes split, borrow and merge on both sides; ranges (the shapes of pieces over several leaves) and then every single
erasure or insertion are tried. In the instances with two trees, one is built descending and the other ascending, of 0 to 18
elements: in the object, one leaf, two and three levels, with wide and narrow nodes. Then they are merged, swapped,
copied or moved, and any one element is erased. Different shapes matter: only where a wide node is copied over a
narrow one that is not the last do new leaves go in between old ones.

**json_pipeline** checks `TokensExact`, `NposFinal` and `StoresInBuffer` of the reader, `MinifyExact` and `UnreadIntact` of minify, and
`SameTokens`: a text with tokens where JSON has them keeps them when it is minified. Nine characters are three blocks,
which a run of backslashes or a string can span whole; a threshold of two makes the buffer smaller than a text, so that it is refilled
and a refill may find only white space. The buffer's 64 extra slots, and blocks of 64, shrink together to four, one of minify's groups.

**json_visitor** compares the visitor with the grammar: `Sound` (an accepted text is JSON within the limit
and the document is its value, with the last of equal keys winning), `Complete` (no beginning of a
permitted text is refused), `ErrorsTold`, `StacksAgree` and `TargetsLive`. A depth limit of two permits three levels
of containers, the innermost empty or not, and eleven tokens are enough for an object in an object whose key occurs
again after a container.

**ring_buffer** checks `ElementsLive`, `LiveOwned`, `StorageOwned` and `ReadsExact`: reading by index, by iterators forth and back with
any distances and differences between them, and by the two arrays. Four cells have every combination of an old and a new
range cut by the end of the array, and growth from every wrapped position; two buffers and three blocks allow a copy that grows.
**ring_clear** has `clear_if_reserved` of a buffer with elements in addition, **ring_throw** the copying that throws in the second segment.

**pools** checks `RingsExact` (links forth and back, of rings and forward lists, agree with what the operations promise), `ChunksOwned`,
`ObjectsApart` and `FreeListsExact`. Four elements of two kinds are enough for a range, what is before and what is behind it, and for runs of equal
ones. A `Wrap` of 64 and first blocks of 32 make the block size wrap to zero with the first block under one rule, and to a small one with the second under the other; objects of
40 bytes are large for some blocks and not for others. `MCSpec` explores the lists of a user while no pool is used, and rings
and forward lists one at a time: they share neither state nor code that looks at the other.

Deadlock is checked where a further step is always possible (`json_pipeline`, `ring_buffer`). Elsewhere the bounds (owners, blocks, plans,
tokens) or the end of the input stop the system.

Every property of these runs was seen violated by at least one plausible bug; `PROJECT.json` lists the bug for each, and the modules hold it as a
definition marked "Mutant" in front of the one it varies.


## 5. Fairness

`BTree` and `BTreePair` state fairness: `WF_vars(Continue)` and `WF_pairVars(PairContinue)`, the thread that is inside a call keeps running it. Nothing in the library suspends a call. Callers
have no fairness: nobody has to call anything. `CallsReturn` is thus about the loops: splits that climb, rebalancing that climbs, and
a range erased in pieces, which must get smaller each time, and `merge`, which must get through its source. The other modules state no liveness property: the arena's
operations, the pools' and the ring buffer's have no loop that waits, and the readers' loops advance through a finite text in every step.


## 6. Proofs

All for any value of the constants that the modules' named assumptions allow (`ArenaAssumption`: positive alignment, threshold and table growth;
`SlabAssumption`: what the shift that scales slabs evaluates to; `RawAssumption`: a raw cell is no element, no block is null; and those of the JSON modules and `Pools` below). `tlapm` leaves no step unproved.

**The arena** (`StackAllocator_proof`). `Invariant`: `SizesFit` implies `Spec => []IInv`. `IInv` is needed because none of the
properties is inductive. That payloads stay disjoint when the cursor is rewound depends on where contexts point, which depends on
the slabs below being where they were, which depends on who owns which block. Its parts are
`ArenaShape` (cursor inside the current slab, table large enough), `SlabShape` (slabs distinct, live, of their size),
`Ownership` (each live block belongs to one of pool, owner, weak user), `ContextShape` (the open owners' positions ascend to the cursor) and `PayloadShape`
(a payload ends before the positions of all owners younger than its own). Positions are ordered lexicographically by slab and offset.
The theorems `PayloadsStayInSlabs`, `PayloadsStayDisjoint`, `PoolStaysAccounted`, `ContextsStayValid`, `SpareStaysSingle` and `TypeCorrect` follow from it.
`ShadowStaysExact` needs one more invariant, `ShadowInv`: the unpoisoned bytes are those of the payloads, and every payload begins
behind the position its owner saved (`BeginsBehind`), so that a rewind poisons all that is its own and nothing of an older owner.
The step lemmas go by action; `CloseInv` is the longest, as the rewind touches everything. Arithmetic of `AlignUp` and of
slab sizes is in lemmas of its own.

`SizesFit` is what the callers and the build must respect: requests are not empty, and a request below the threshold fits, with its red
zone, into the first slab. `OrdinaryBuild` proves that without red zones this is only the first half. The two findings on
the arena are about exactly the two ways in which it can fail.

**Refinement** (at the end of `StackAllocator_proof`): `SizesFit` implies `Spec => IsRegionStack`. Opening pushes a region, closing pops one, each
allocation adds one extent disjoint from everything in use, and everything else is a stutter.

**The visitor** (`JsonVisitor_proof`). `VisitorInvariant`: `Spec => []VInv`, for every depth limit, set of tokens and length of text.
From it `StacksStayInStep` (the parser's fixed-size stack never overflows although it is pushed without a check, and has what the visitor's bits say) and `TargetsStayLive` (a
visit writes to a container that is open and of the kind the label expects).
The argument: containers on the parser's stack are older from level to level, and a document is older than its
children, so what a visit overwrites, a child of the current container, is newer than anything on the stack. Exactly one container is on the stack without a
level of the visitor's while an empty or closed container waits for the token behind it.

`ParseSound` (what `parse` accepts is JSON nested within the limit, and the document is its value) needs to know what a half-read text means. The
invariant is `PInv` (`TextTold`): the open containers, from the root to the current one, each have a frame (`Frame`, `Levels`) of the tokens in
front of it, the list of the values already complete in it, and the key the next one goes to; the frames spell the tokens read (`Told`), a container denotes its frame's list
(`KidsOf`), and the container nested in it is the one child that the list, extended by what that child will denote, still lacks (`Slot`, `With`: under a key that occurs again it takes the old place). A step either
adds a value to the last frame, opens one or closes one, where `Extended` and `Container` of the grammar appear. It changes what one
document denotes, and nothing outside the line of open ones, since each document but the root has just one place in one container (`Tidy`).
The grammar is a recursive function over lengths; the provers know neither that it exists nor that `Denotes` does. `PhrasesIs` and `DenotesIs` build them
from their restrictions to a finite number of steps (`UptoExists`, `ValuesExist`), and `PhrasesAre` then says that each longer set of phrases is made from shorter ones.
`ErrorsAreTold` follows from `PInv` and a count, `BInv`: as many containers are open in the tokens as the parser has on its stack and at hand.
Assumptions: the depth limit is positive (`DepthAssumption`), the bound on tokens a number (`LengthAssumption`), tokens of different classes are different (`TokenAssumption`), what is accepted
is not refused and what a string holds has names of its own (`ContentAssumption`), and no key is the mark of an element without one (`KeyAssumption`).

**The lexer** (first half of `JsonPipeline_proof`). For every width that is a multiple of four (`WidthAssumption`), `BlockOfText`: given words that carry the state of a
reading one by one up to a block, the arithmetic finds the tokens of the block and what is to be kept of it, and its words carry the state behind the block. The
hard part is `calc_backslash`, a subtraction of words that stand for numbers. `WordOfNumber` shows that a word is recovered from
its number by division and remainder, `Subtraction` that a difference is what a borrow leaves that runs from bit to bit, and
`Backslashes` that the borrow runs through a series of backslashes just as `escaped` alternates along it. `PrefixIs` relates counting quotes to being in a string. No hypothesis is made about what
the text is: it need not be JSON. `RecursiveExists` shows that a function defined by recursion up to a number exists, which the provers do not know by themselves.

**Reader and minify** (second half of it). `Invariant`: `Spec => []Inv`, for every set of texts, every `Threshold` and every `Extra` of at least a block (`ReaderAssumption`). For the reader
`ReaderInv` says besides the properties that the words carry the state at the first character that has not been lexed, that while `lexer::read` runs the buffer has been
handed out, and that npos is got only when nothing is left; `TokensExact`, `NposFinal` and `StoresInBuffer` follow (`ReadsExactly`, `NposIsFinal`, `StoresStayInBuffer`).
For minify the step is a whole block of writes. `Wrote` says what has been written when the first j characters of a block have been: those to be kept stand in order behind what was written before,
and all behind the j-th is as it was, so that the next character can still be read when the text is its own target. Every write through `DiffTable` goes to the place behind those kept so far
(`DiffTableCounts`), whether or not its character is kept; that is why a write is never too far (`WriteNext`). From it `MinifyExact` and `UnreadIntact` (`MinifiesExactly`, `UnreadStaysIntact`).
`MinifyKeepsTokens` (`SameTokens`) is about two readings side by side, of the source and of what is kept of it (`FollowsAll`). They agree on strings and escapes, since what is dropped is
white space outside strings. They can differ in whether the next character is delimited: white space that delimited it in the source is gone. Where the text is separated, a
scalar that only white space delimited stands behind a structural character, which is kept and delimits it as well (`Opens`), and backslashes are in strings, where nothing is dropped. So a kept character
is a token in one reading if and only if it is in the other (`TokensFollow`), and `TokensSame` counts them. Without `Separated` it is false (`1 2` becomes `12`).

**The ring buffer** (`RingBuffer_proof`). All five properties of the run, for any number of buffers, values, blocks and any capacity. The
invariant is that the cells of a buffer are determined by where it starts and by the sequence it stands for (`Image`): the
cell whose place, counted around the array from the head, is below the size holds that element, every other one is raw.
`TypeOK` and `ElementsLive` alone are not inductive, as they do not say which element is where. A lemma per operation shows,
without reference to the state, that it turns the image of one sequence into the image of the promised one and respects
lifetimes; `ConstructIs`, `AssignIs` and `DestroyIs` are about runs of cells, the assignments combine them segment by segment. Five lemmas
about the heap (a buffer that keeps its block, moves to another one, releases it, takes another's, exchanges) carry that over to all
buffers, so that each action takes a few lines. Reading goes the other way: places of pointers, then steps and jumps of iterators, then the sequence.

**Lists** (first half of `Pools_proof`). A ring is related to the sequence it stands for by its links alone: each stop of the
walk (`Stop`: the head, the elements in order, the head again) links to the next one (`Path`) and back (`Back`). No walk is needed to say it, so
a store changes one conjunct. One lemma for each operation, about any set of heads with disjoint sequences (`Rings`, `Chains`), shows that its stores, in the
code's order, turn the links of one sequence into those of the promised one and touch no other ring: `RingInsert`, `RingUnlink`, the
splices within a ring and between two, `RingReplace`, `RingSwap`, `RingClear`, and for the bulk operations, which remove what a saved
walk has passed, `RingRemoveAll` and `RingUnique`. Only then come walks: `RingWalked` and `ChainWalked` show that a walk over such links, forth or back, sees
exactly the sequence. Recursive functions are unfolded with `NatInduct`, an induction over a set of numbers derived from the well-foundedness of `<`.

**Pools** (second half of it). `Invariant`: `Spec => []Inv`, for any number of lists, pools, arenas, chunks, elements and size classes, any
`Wrap` and every growth rule. From it all five properties of the run: `TypeCorrect`, `RingsStayExact`, `ChunksStayOwned`, `ObjectsStayApart` and
`FreeListsStayExact`. `Inv` says what the memory is where the properties say what a walk sees. `RingInv` and `ForwardInv` are `Rings` and `Chains` of the heads
there are; `HeapInv` says that the allocated chunks are those in the sequences of pools; `ArenaInv` that an arena's cursor is aligned and its end inside a chunk
of its own; `ObjectInv` that objects are inside chunks of their pool, one ends before the other begins, and every object in an arena's current block ends before its
cursor (`Below`), which is why the next one overlaps none; `FreeInv` that there are sequences of free objects, for each pool and class, that the
links threaded through them stand for. A move needs most: chunks, cursor, objects and free lists of one pool become another's, while the old
chunks go and take their objects, and the links through them, along (`FreeMoved`). Assumptions: hooks are of one kind
only and none is the null link, and there are finitely many heads (`HookAssumption`); an object is large enough for the hook of a free list
(`ClassAssumption`; `object_pool.hpp:128` takes the larger of the two sizes); block sizes are modulo `Wrap` (`SizeAssumption`). Nothing is assumed about how `Wrap`, `Cache` and the
classes relate, so that a block size that wraps to zero is included.

**The B+tree** (`BTreeNodes_proof`, `BTree_proof`, `BTreeOrder_proof`). `Invariant`: `Spec => []IInv`, for nodes of any size the code admits (`UsesAssumption`: 4 to 64), sets and
multisets, any elements, limits and plans, and trees of any height. From it `TypeCorrect`, `HalfFullAlways`, `LinksExactAlways`, `ChainFollowsTreeAlways`,
`CountsExactAlways` and `PiecesExactAlways`; nothing is assumed but that the null pointer is no node (`NullAssumption`). With an order of the keys
(`KeysAssumption`: they are integers) follow `SeparatorsExactAlways`, `SearchExactAlways` and `ReturnExactAlways`, so that all properties of the tree's run but liveness are proved.

A tree is described without recursion (`Tree`): every node has a height, a son is one lower than its father, the nodes of a height form a sequence
that is the sons of the sequence above, one behind the other, and the sequence at the bottom is the chain of leaves. Then a split, a loan or a
merge replaces a part of one father's sons by another part and leaves all other levels alone, and one lemma for each of these steps does for every height.
What a step has not yet handed upwards is part of the description: `Kids` are the sons with the node that a
running split has made, and without the one that a running merge has taken away; `Tops` is the root, with the new node beside it when it was
the root that was split; `Up` is the parent, also of the nodes that wait. With them the invariant holds in the middle of a call too, and not only between two.

`IInv` has three parts. `TreeInv` is the structure: `Shape` (a tree, with the parents of its sons), `Placed` (positions, but for the
one that a merge will renumber), `Ascending` and `Rebalancing` (where the running loop is), `Filled` (what nodes hold) and
`Sized` (no node but the root is below half or above full, an inner node that a merge is about to rebalance counted with the entry it has still to lose, so that borrowing or merging always fits).
`Working` are the locals of the loops, `Ranks` says that the size is right and that the iterator of a running erasure has the rank
it should have, and what is left of the range is there. The argument for the contents: a step on a leaf changes the sequence of all
elements at one place (`Put`, `Cut`, `CutOut`), a loan or a merge of leaves at none; for `PiecesExact`, moreover, a call only begins when nothing is left of a range, and
nothing but `RangeLoop` changes elements while it is not (`Wanted`). Nothing of this depends on what keys are or in which order they stand.

The order (`BTreeOrder_proof`) is a second invariant beside `IInv`, `Ordering`. `Separated`: some function leads from every node to the first leaf below it, each separator is
the first key of the leaf its right subtree begins with, except the one a running merge has still to remove, and the key a running split carries upwards is that of
the new node. `Sorted`: the sequence of all elements is in key order. `Promised`: the iterator of the call has the rank that the call promises. `ImportLast`: while elements are imported one behind the other,
no element behind the last one has its key, which is why the hint of the next import may be used without a search. The function need not be computed: a step gives the new one from the old, mostly the same with one
more or one fewer leaf. `Reseparated` climbs from a leaf to the one node whose separator is its first key (`Topping`), and changes no other. The descent of a search is right because
at each node the separators part the elements below it (`Parted`), so that what lies left of the son taken is smaller and what lies right is not (`PartsAt`); hence the rank of the place found is the number
of elements that stand before the key, and a place found in front of a leaf is in front of all leaves. Hints (`LocatedFits`) are resolved by comparing with the neighbours alone. Where an element is put, the keys on both sides are in
order with it (`Fits`, `Between`), so that the sequence stays sorted; the loops that restructure the tree leave sequence and iterator alone.
The theorems are about `BTree`'s own `Spec`, one tree and any sequence of its calls; the run explores that tree and, in its instances with two trees, also those
that merges, moves and copies leave behind, for which the same properties are model-checked only.

**Only model-checked**: of `BTreePair`,
`AreSortedSeqs`, and the structure of trees that were merged or copied; the visitor's `Complete`, that no beginning of a text is refused: the converse of
`Sound`, it needs an induction over the phrases of the grammar.
Liveness (`CallsReturn`) and `ENABLED` are outside what TLAPS does.


## 7. Findings

Six statements of the repository about itself that the code does not keep, each with a run that shows it.

1. **Red zones and the threshold** (`stack_asan_edge`, `stack_allocator.hpp:108`). `weak_stack_allocator::allocate` compares the bare
   size with the threshold, `_allocate_impl` then adds the red zone. In an AddressSanitizer build a weak request of 16369 to 16383 bytes
   needs more than the 16384 of the first slab; the cursor passes the slab's end, and the unsigned
   difference of the next request wraps, so that the next payload lies behind the slab. `PayloadsInSlabs` fails. In an ordinary build it is proved.
2. **Empty requests** (`stack_empty_request`, `stack_allocator.hpp:110`). `allocate(0)` on an arena without slabs compares 0 < 0, skips
   the refill, and reaches `WJR_ASSUME(m_cache.ptr != nullptr)` with a null cursor. `CursorAssumed` fails.
3. **A string that is the whole text** (`json_unclosed_root`, `visitor.hpp:127`). Without its closing quote it
   gives `TAPE_ERROR`; in an array or object the same string gives `UNCLOSED_STRING`, which
   `detail.hpp:35` describes as "Missing quote at the end". The return of `UNCLOSED_STRING` in `visitor.hpp:131` is not reachable.
4. **What stands behind a closing quote** (`json_text_behind_quote`, `src/json/lexer.cpp:92`). The lexer starts a token other than a quote
   or a structural character only behind white space or structure. `"a"x`, `["a"x]` and `{"a"zz:1}` are accepted; the characters are in
   no token. `detail.hpp:50` has `TRAILING_CONTENT`, and `test/json/reader_completion.cpp:41-59` asks for it when the suffix stands behind
   a container.
5. **`clear_if_reserved` that grows** (`ring_clear`, `ring_buffer.hpp:987`). The new storage is made with the old number of elements, which are then
   destroyed: the buffer claims elements in memory where none was constructed. `basic_vector` passes 0 at the same place.
   `ElementsLive` fails. `Next` calls it only of empty buffers, for which all properties are proved.
6. **Assignment that throws in the second segment** (`ring_throw`, `ring_buffer.hpp:1405`). `assign_range` promises that all live elements remain owned
   by the container; those just constructed at the end of the array are not counted yet when copying to its beginning throws. `LiveOwned` fails.


## 8. Bounds and what is left out

The bounds are constants or stated in the modules: `MaxDepth` (owners) and `MaxIdx` in `StackAllocator`, the number of
`Blocks`; `plan` and the `limit` of an instance in `BTree`; `Texts` of the JSON modules, `MaxTokens` in `JsonVisitor`; `MaxCapacity` in
`RingBuffer`; `MaxObjects` and `Chunks` in `Pools`. What shrinks with them is scale, not
control: slabs of 4 bytes instead of 16 KB have the same growth formula; nodes of 4 are the smallest size the tree allows, and 5 the smallest odd one.

Abstracted in the modelled parts: contents of payloads; the order of large blocks in an owner's list (they are
freed together); values of map elements apart from a tag; strings and numbers in JSON, which are accepted
or refused as classes; the classification of characters; positions of 32 bits, so that texts of 4 GiB are not covered. Failing
allocations are not modelled (but in the ring buffer copying may throw): the arena's functions are noexcept, so that a failure ends the program, and the B+tree's exception safety is left to tests. The order in which thread_local objects of different translation units are
destroyed is up to the program that uses the library.


Left out of the modelled components: `merge` of trees of different traits and construction from sorted ranges; `fixed_ring_buffer`,
assignment from storage and ring buffers with unequal allocators; object pools' requests above the largest class, which go to the heap and leave
nothing behind. `swap_with` of an empty ring is outside its precondition (`docs/design/lru-cache.md:106`), and its one caller, `btree.hpp:2005`, keeps it.
`arena.cpp:22` lets a block of 4 to 15 bytes serve a request of up to 3 bytes that is rounded up to 16; object pools, its callers in the
library, never ask for less than 8. Most of the repository's lines are vendored or generated (the examples carry a copy of simdjson) or pure arithmetic.


## 9. Plan

Done, in this order: the arena with its invariant and refinement, since every other component takes scratch memory from it;
the B+tree against a sorted sequence; the lexer, reader and minify against a character by character reading; the visitor against the grammar, and its
invariant; the ring buffer with its proofs; lists and pools; two trees; minify and reader composed; the proofs about lists and pools; the proofs about lexer, reader and minify; the proofs about the B+tree; the visitor's soundness.

What could follow:

1. `IInv` of `BTree` for `BTreePair`'s specification: merges, moves and copies of trees, whose copies are recursive operators.
2. `Complete` of the visitor for texts of any length: the grammar read as the continuations of an open text.
3. The bulk operations of `container/experimental`, should they become part of the supported interface.
