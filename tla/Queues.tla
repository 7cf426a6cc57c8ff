------------------------------- MODULE Queues ------------------------------
(***************************************************************************)
(* What the users of ring_buffer (include/wjr/container/ring_buffer.hpp)   *)
(* rely on: every ring buffer is a sequence of elements, and a call changes *)
(* the sequences of the buffers it is given and no other.                  *)
(***************************************************************************)
EXTENDS Integers, Sequences, SequencesExt

CONSTANTS
  Rings,     \* the ring buffers
  Elems      \* the values of the elements

VARIABLE queue    \* the sequence of each ring buffer

Empty == [r \in Rings |-> <<>>]

Becomes(r, s) == queue' = [queue EXCEPT ![r] = s]

PushBack(r, v) == Becomes(r, Append(queue[r], v))
PopFront(r) == queue[r] # <<>> /\ Becomes(r, Tail(queue[r]))
PopBack(r) == queue[r] # <<>> /\ Becomes(r, Front(queue[r]))
Copy(r, s) == Becomes(r, queue[s])
Take(r, s) == queue' = [queue EXCEPT ![r] = queue[s], ![s] = <<>>]
Swap(r, s) == queue' = [queue EXCEPT ![r] = queue[s], ![s] = queue[r]]

(* The first elements are overwritten with those of s. *)
Overwrite(r, s) ==
  /\ Len(s) <= Len(queue[r])
  /\ Becomes(r, s \o SubSeq(queue[r], Len(s) + 1, Len(queue[r])))
=============================================================================
