---------------------------- MODULE BoundedQueue ----------------------------
(***************************************************************************)
(* What a queue of the hardware abstraction layer promises its callers     *)
(* (include/platform/hal_queue.h): a FIFO of at most Length items; each    *)
(* item that was appended is received once, in order, unless a later       *)
(* hal_queue_override_to_back replaced it while it was the last one.       *)
(***************************************************************************)
EXTENDS Naturals, Sequences

CONSTANTS Length,   \* capacity in items
          Item,     \* the values a caller may push
          Thread    \* the tasks that use the queue

VARIABLES q,        \* the items in the queue, oldest first
          buffer    \* buffer[t]: the item the last receive of t delivered

vars == <<q, buffer>>

Init == q = <<>> /\ buffer \in [Thread -> Item]

Put(x) == /\ Len(q) < Length
          /\ q' = Append(q, x)
          /\ UNCHANGED buffer

\* An override replaces the most recent item.
Replace(x) == /\ q # <<>>
              /\ q' = [q EXCEPT ![Len(q)] = x]
              /\ UNCHANGED buffer

Get(t) == /\ q # <<>>
          /\ q' = Tail(q)
          /\ buffer' = [buffer EXCEPT ![t] = Head(q)]

Next == \/ \E x \in Item : Put(x) \/ Replace(x)
        \/ \E t \in Thread : Get(t)

Spec == Init /\ [][Next]_vars
=============================================================================
