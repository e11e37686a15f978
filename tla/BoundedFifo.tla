---------------------------- MODULE BoundedFifo ----------------------------
(***************************************************************************)
(* What core::SpscQueue promises its callers: a FIFO queue of bounded      *)
(* capacity whose push never blocks and refuses an item only when the      *)
(* queue is full, and whose pop returns nothing only when it is empty.     *)
(* "answer" is what the operation completed last returned to its caller.   *)
(***************************************************************************)
EXTENDS Integers, Sequences

CONSTANTS Items,      \* the values that may be pushed
          Capacity    \* how many of them the queue holds at most

VARIABLES q,          \* the queued items, oldest first
          answer      \* the result of the operation that completed last

vars == <<q, answer>>

Pushed(v)  == [op |-> "push", ok |-> TRUE,  item |-> v]
Refused(v) == [op |-> "push", ok |-> FALSE, item |-> v]
Popped(v)  == [op |-> "pop",  ok |-> TRUE,  item |-> v]
Nothing    == [op |-> "pop",  ok |-> FALSE]

Init == q = <<>> /\ answer = Nothing

Enqueue(v) == /\ Len(q) < Capacity
              /\ q' = Append(q, v)
              /\ answer' = Pushed(v)

Refuse(v) == /\ Len(q) = Capacity
             /\ answer' = Refused(v)
             /\ UNCHANGED q

Dequeue == /\ q # <<>>
           /\ q' = Tail(q)
           /\ answer' = Popped(Head(q))

FindEmpty == /\ q = <<>>
             /\ answer' = Nothing
             /\ UNCHANGED q

Next == \/ \E v \in Items : Enqueue(v) \/ Refuse(v)
        \/ Dequeue
        \/ FindEmpty

Spec == Init /\ [][Next]_vars
=============================================================================
