----------------------------- MODULE BTreePair -----------------------------
(***************************************************************************)
(* Two trees of include/wjr/container/btree.hpp: swap, moves, copies and   *)
(* merge.                                                                  *)
(*                                                                         *)
(* The variables of BTree are the tree that the code is working on, other  *)
(* is the other one, and Exchanged turns from one to the other.  A call    *)
(* that has two trees is one of the first tree, which is not other between *)
(* calls.  merge is a loop that erases from its source and inserts into its *)
(* target, each with the loops of its own.                                 *)
(***************************************************************************)
EXTENDS BTree, TLC, SequencesExt

(* two: the callers have two trees. *)
ASSUME PairAssumption == \A u \in Uses : u.two \in BOOLEAN

VARIABLES
  other,      \* the tree that is not worked on
  merging     \* the locals of merge

pairVars == <<vars, other, merging>>

This == [root |-> root, size |-> size, base |-> base, vals |-> vals, keys |-> keys,
         sons |-> sons, parent |-> parent, pos |-> pos, chain |-> chain]

NoTree == [root |-> NULL, size |-> 0, base |-> <<>>, vals |-> <<>>, keys |-> <<>>,
           sons |-> <<>>, parent |-> <<>>, pos |-> <<>>, chain |-> <<>>]

Becomes(t) ==
  /\ root' = t.root /\ size' = t.size /\ base' = t.base
  /\ vals' = t.vals /\ keys' = t.keys /\ sons' = t.sons
  /\ parent' = t.parent /\ pos' = t.pos /\ chain' = t.chain
  /\ work' = Returned(Iter(IF t.root = NULL THEN NULL ELSE t.chain[1], 0), 0, FALSE)

Exchanged == Becomes(other) /\ other' = This

(* phase: what merge does next; cursor: where it is in the source; elem, at:*)
(* the element there and its position in the target. *)
NotMerging == [phase |-> "none", cursor |-> Iter(NULL, 0), elem |-> NULL, at |-> Iter(NULL, 0)]

PairInit == Init /\ other = NoTree /\ merging = NotMerging

-----------------------------------------------------------------------------
(* Copies.  A state of the copying is a tree t whose chain is the list of *)
(* the leaves that it had and of those made so far, and the cursor, the *)
(* first leaf of the old ones not dealt with, or NULL at the end. *)

FreshIn(t) == CHOOSE n \in 1 .. Cardinality(DOMAIN t.parent) + 1 : n \notin DOMAIN t.parent

UnlinkLeaf(c, l) ==
  [c EXCEPT !.cursor = IF @ = l THEN NextLeaf(c.t.chain, l) ELSE @,
            !.t.chain = SelectSeq(@, LAMBDA n : n # l)]

(* Mutant: new leaves go behind all the old ones. *)
BehindRetired(c) == Len(c.t.chain)

BeforeCursor(c) == IF c.cursor = NULL THEN Len(c.t.chain) ELSE RankOf(c.t.chain, c.cursor) - 1

Drop(c, n) ==
  [c EXCEPT !.t.vals = Without(@, n), !.t.keys = Without(@, n), !.t.sons = Without(@, n),
            !.t.parent = Without(@, n), !.t.pos = Without(@, n)]

(* _destroy_copy_branch. *)
RECURSIVE DestroyBranch(_, _)
DestroyBranch(c, n) ==
  IF n \in DOMAIN c.t.vals THEN Drop(UnlinkLeaf(c, n), n)
  ELSE Drop(FoldLeft(LAMBDA d, son : DestroyBranch(d, son), c, c.t.sons[n]), n)

(* A copied branch: its root, the key of its first element, and the copying *)
(* so far. *)
Branch(c, n, key) == [c |-> c, n |-> n, key |-> key]

(* Inner node n, whose sons are copied one by one, gets the next one. *)
WithSon(b, n, son) ==
  [c |-> [son.c EXCEPT !.t.sons[n] = Append(@, son.n),
                       !.t.keys[n] = IF b.count = 0 THEN @ ELSE Append(@, son.key)],
   key |-> IF b.count = 0 THEN son.key ELSE b.key,
   count |-> b.count + 1]

(* _clone_copy_branch, _rec_assign_tree, _rec_move_detached_tree: branch n *)
(* of tree s is copied to new nodes, whose leaves go before the cursor. *)
RECURSIVE CloneBranch(_, _, _)
CloneBranch(c, s, n) ==
  LET inst == FreshIn(c.t)
      made == [c EXCEPT !.t.parent = With(@, Only(inst, NULL)), !.t.pos = With(@, Only(inst, 0))]
      Son(b, m) ==
        LET x == CloneBranch(b.c, s, m)
        IN  WithSon(b, inst, [x EXCEPT !.c.t.parent[x.n] = inst, !.c.t.pos[x.n] = b.count])
      all == FoldLeft(Son,
               [c |-> [made EXCEPT !.t.keys = With(@, Only(inst, <<>>)),
                                   !.t.sons = With(@, Only(inst, <<>>))],
                key |-> NULL, count |-> 0], s.sons[n])
  IN  IF n \in DOMAIN s.vals
        THEN Branch([made EXCEPT !.t.vals = With(@, Only(inst, s.vals[n])),
                                 !.t.chain = Put(@, BeforeCursor(c), inst)],
                    inst, KeyOf(s.vals[n][1]))
        ELSE Branch(all.c, inst, all.key)

(* _reuse_copy_branch: branch n of tree s is copied to the branch owned, or *)
(* to new nodes, son i of par, where there is none or a leaf meets an inner *)
(* node. *)
RECURSIVE ReuseBranch(_, _, _, _, _, _)
ReuseBranch(c, owned, s, n, par, i) ==
  LET leaf    == n \in DOMAIN s.vals
      old     == c.t.sons[owned]
      cleared == FoldLeft(LAMBDA d, son : DestroyBranch(d, son), c,
                          SubSeq(old, Len(s.sons[n]) + 1, Len(old)))
      Son(b, m) ==
        WithSon(b, owned, ReuseBranch(b.c, IF b.count < Len(old) THEN At(old, b.count) ELSE NULL,
                                      s, m, owned, b.count))
      all == FoldLeft(Son,
               [c |-> [cleared EXCEPT !.t.sons[owned] = <<>>, !.t.keys[owned] = <<>>],
                key |-> NULL, count |-> 0], s.sons[n])
      new == CloneBranch(IF owned = NULL THEN c ELSE DestroyBranch(c, owned), s, n)
  IN  IF owned = NULL \/ leaf # (owned \in DOMAIN c.t.vals)
        THEN IF par = NULL THEN new
             ELSE [new EXCEPT !.c.t.parent[new.n] = par, !.c.t.pos[new.n] = i]
      ELSE IF leaf
        THEN Branch([c EXCEPT !.t.vals[owned] = s.vals[n], !.cursor = NextLeaf(c.t.chain, owned)],
                    owned, KeyOf(s.vals[n][1]))
        ELSE Branch(all.c, owned, all.key)

Rooted(b, n) == [b.c.t EXCEPT !.root = b.n, !.size = n]

(* _copy_reuse_tree: s is copied over tree t. *)
CopiedOver(t, s) ==
  LET c == [t |-> [t EXCEPT !.root = NULL, !.base = <<>>],
            cursor |-> IF t.root = NULL THEN NULL ELSE t.chain[1]]
  IN  IF s.root = NULL
        THEN [(IF t.root = NULL THEN c ELSE DestroyBranch(c, t.root)).t
                EXCEPT !.base = s.base, !.size = s.size]
        ELSE Rooted(ReuseBranch(c, t.root, s, s.root, NULL, 0), s.size)

(* _assign_tree: s is copied to nodes of its own. *)
Cloned(s) ==
  IF s.root = NULL THEN [NoTree EXCEPT !.base = s.base, !.size = s.size]
  ELSE Rooted(CloneBranch([t |-> NoTree, cursor |-> NULL], s, s.root), s.size)

-----------------------------------------------------------------------------
(* The calls with two trees. *)

PairCalling(op) == use.two /\ merging.phase = "none" /\ Calling(op, Keys)

Swap == PairCalling("swap") /\ Exchanged /\ UNCHANGED merging

(* operator=(const basic_btree &), and the copy constructor. *)
CopyAssign ==
  /\ PairCalling("copy")
  /\ Becomes(CopiedOver(This, other)) \/ Becomes(Cloned(other))
  /\ UNCHANGED <<other, merging>>

(* operator=(basic_btree &&): the storage is taken, or, from an allocator *)
(* that is not equal, the elements are moved. *)
MoveAssign ==
  /\ PairCalling("move")
  /\ Becomes(other) \/ Becomes(Cloned(other))
  /\ other' = NoTree /\ UNCHANGED merging

-----------------------------------------------------------------------------
(* merge of other into the first tree.  Between its phases source and *)
(* target the tree worked on changes. *)

(* An empty tree with the source's order takes its storage. *)
MergeBegin ==
  /\ PairCalling("merge")
  /\ \/ size = 0 /\ other.root # NULL /\ Becomes(other) /\ other' = NoTree /\ UNCHANGED merging
     \/ /\ Exchanged
        /\ merging' = [NotMerging EXCEPT !.phase = "source", !.cursor = work'.it]

Merging(phase) == merging.phase = phase /\ work.pc = "idle" /\ UNCHANGED <<use, plan>>

MergeEnd ==
  /\ Merging("source") /\ merging.cursor = End
  /\ Exchanged /\ merging' = NotMerging

MergeElement ==
  /\ Merging("source") /\ merging.cursor # End
  /\ Exchanged
  /\ merging' = [merging EXCEPT !.phase = "locate", !.elem = ElemAt(merging.cursor)]

(* The position in the target; an element whose key the target has is left *)
(* where it is. *)
MergeLocate ==
  /\ Merging("locate")
  /\ Exchanged
  /\ LET loc == Searched(KeyOf(merging.elem))
     IN  merging' = [merging EXCEPT !.phase = IF loc.dup THEN "skip" ELSE "take", !.at = loc.at]

MergeSkip ==
  /\ Merging("skip")
  /\ merging' = [merging EXCEPT !.phase = "source", !.cursor = Following(@)]
  /\ UNCHANGED <<root, size, base, nodes, work, other>>

MergeTake ==
  /\ Merging("take")
  /\ EraseAt(merging.cursor, 0, Rank(merging.cursor))
  /\ merging' = [merging EXCEPT !.phase = "taken"] /\ UNCHANGED other

MergeTaken ==
  /\ Merging("taken")
  /\ Exchanged
  /\ merging' = [merging EXCEPT !.phase = "put", !.cursor = work.it]

MergePut ==
  /\ Merging("put")
  /\ InsertIn(merging.at, merging.elem, UpTo(KeyOf(merging.elem)), FALSE)
  /\ merging' = [merging EXCEPT !.phase = "next"] /\ UNCHANGED other

MergeNext ==
  /\ Merging("next")
  /\ Exchanged
  /\ merging' = [merging EXCEPT !.phase = "source"]

MergeStep ==
  \/ MergeEnd \/ MergeElement \/ MergeLocate \/ MergeSkip
  \/ MergeTake \/ MergeTaken \/ MergePut \/ MergeNext

-----------------------------------------------------------------------------
PairContinue == MergeStep \/ (Continue /\ UNCHANGED <<other, merging>>)

PairCall ==
  \/ Swap \/ CopyAssign \/ MoveAssign \/ MergeBegin
  \/ merging.phase = "none" /\ Call /\ size' <= use.limit /\ UNCHANGED <<other, merging>>

PairNext == PairContinue \/ PairCall

(* The thread that runs a call keeps running it. *)
PairSpec == PairInit /\ [][PairNext]_pairVars /\ WF_pairVars(PairContinue)

-----------------------------------------------------------------------------
(* Properties. *)

(* Every call returns: also merge, whose loop goes on with the iterator that*)
(* the erasure from its source returned. *)
CallsReturn == []<>(Idle /\ merging.phase = "none")

ContentsOf(t) ==
  IF t.root = NULL THEN t.base ELSE FlattenSeq([i \in DOMAIN t.chain |-> t.vals[t.chain[i]]])

(* While merge works on its source, the first tree is other. *)
OnSource == merging.phase \in {"source", "skip", "take", "taken"}

(* The trees are the sorted sequences their callers see.  Copies, moves and *)
(* swaps make one the other; merge takes just the elements it should, one *)
(* after the other, and none is lost on the way. *)
Sorted ==
  INSTANCE SortedSeq WITH
    content <- IF OnSource THEN ContentsOf(other) ELSE Contents,
    second  <- IF OnSource THEN Contents ELSE ContentsOf(other),
    held    <- IF merging.phase \in {"taken", "put"} THEN <<merging.elem>> ELSE <<>>,
    merging <- merging.phase # "none"
AreSortedSeqs == Sorted!Spec
=============================================================================
