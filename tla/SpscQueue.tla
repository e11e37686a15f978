----------------------------- MODULE SpscQueue -----------------------------
(***************************************************************************)
(* core::SpscQueue<T, N>: a lock-free ring buffer.  Each atomic access of  *)
(* push() and pop() is a step of its own, so every interleaving of the     *)
(* producer threads with the consumer thread is a behaviour.               *)
(*                                                                         *)
(* The class documents one producer; Producers is a set so that the use    *)
(* StrategyRunner makes of the class (MCSpscQueueMulti.cfg) can be checked *)
(* with the same module.  Release stores and acquire loads publish the     *)
(* slot, so interleaving semantics is the right one as long as no two      *)
(* threads access one slot concurrently -- which is NoSlotRace.            *)
(***************************************************************************)
EXTENDS Integers, Sequences

CONSTANTS Producers,  \* the threads that call push()
          N,          \* the template argument: number of slots
          Items,      \* the values pushed
          NoItem      \* a slot never written, or moved from

\* requires (N >= 2 && (N & (N - 1)) == 0)
ASSUME SizeAssumption == N \in Nat /\ N >= 2 /\ \E k \in 1..N : N = 2^k
ASSUME NoItemAssumption == NoItem \notin Items

VARIABLES head, tail,   \* head_ and tail_
          buffer,       \* buffer_
          ppc,          \* where each producer is inside push()
          phead,        \* push()'s local copy of head_
          pitem,        \* push()'s argument
          cpc,          \* where the consumer is inside pop()
          ctail, citem, \* pop()'s locals
          answer        \* what the call that returned last answered

prodVars == <<ppc, phead, pitem>>
consVars == <<cpc, ctail, citem>>
vars == <<head, tail, buffer, prodVars, consVars, answer>>

Slots == 0..(N - 1)

\* (i + 1) & kMask, N being a power of two
Succ(i) == (i + 1) % N

\* (h - t) & kMask on unsigned operands
Size == (head - tail) % N

Answers == [op : {"push"}, ok : BOOLEAN, item : Items]
           \cup [op : {"pop"}, ok : {TRUE}, item : Items]
           \cup [op : {"pop"}, ok : {FALSE}]

TypeOK ==
  /\ head \in Slots /\ tail \in Slots
  /\ buffer \in [Slots -> Items \cup {NoItem}]
  /\ ppc \in [Producers -> {"idle", "check", "write", "publish"}]
  /\ phead \in [Producers -> Slots]
  /\ pitem \in [Producers -> Items \cup {NoItem}]
  /\ \A p \in Producers : ppc[p] # "idle" => pitem[p] \in Items
  /\ cpc \in {"idle", "check", "take", "advance"}
  /\ ctail \in Slots
  /\ citem \in Items \cup {NoItem}
  /\ answer \in Answers

Init ==
  /\ head = 0 /\ tail = 0
  /\ buffer = [i \in Slots |-> NoItem]
  /\ ppc = [p \in Producers |-> "idle"]
  /\ phead = [p \in Producers |-> 0]
  /\ pitem = [p \in Producers |-> NoItem]
  /\ cpc = "idle" /\ ctail = 0 /\ citem = NoItem
  /\ answer = [op |-> "pop", ok |-> FALSE]

-----------------------------------------------------------------------------
(* push(item), one step per atomic access *)

PushLoadHead(p, v) ==
  /\ ppc[p] = "idle"
  /\ ppc' = [ppc EXCEPT ![p] = "check"]
  /\ phead' = [phead EXCEPT ![p] = head]
  /\ pitem' = [pitem EXCEPT ![p] = v]
  /\ UNCHANGED <<head, tail, buffer, consVars, answer>>

\* next == tail_: return false, the item is lost to the caller
PushFull(p) ==
  /\ ppc[p] = "check"
  /\ Succ(phead[p]) = tail
  /\ ppc' = [ppc EXCEPT ![p] = "idle"]
  /\ answer' = [op |-> "push", ok |-> FALSE, item |-> pitem[p]]
  /\ UNCHANGED <<head, tail, buffer, phead, pitem, consVars>>

\* Mutant of PushRoom: no test for a full ring.
PushRoomUnchecked(p) ==
  /\ ppc[p] = "check"
  /\ ppc' = [ppc EXCEPT ![p] = "write"]
  /\ UNCHANGED <<head, tail, buffer, phead, pitem, consVars, answer>>

\* Mutant of PushRoom: the head is published without the item.
PushRoomNoWrite(p) ==
  /\ ppc[p] = "check"
  /\ Succ(phead[p]) # tail
  /\ ppc' = [ppc EXCEPT ![p] = "publish"]
  /\ UNCHANGED <<head, tail, buffer, phead, pitem, consVars, answer>>

PushRoom(p) ==
  /\ ppc[p] = "check"
  /\ Succ(phead[p]) # tail
  /\ ppc' = [ppc EXCEPT ![p] = "write"]
  /\ UNCHANGED <<head, tail, buffer, phead, pitem, consVars, answer>>

PushWrite(p) ==
  /\ ppc[p] = "write"
  /\ buffer' = [buffer EXCEPT ![phead[p]] = pitem[p]]
  /\ ppc' = [ppc EXCEPT ![p] = "publish"]
  /\ UNCHANGED <<head, tail, phead, pitem, consVars, answer>>

PushPublish(p) ==
  /\ ppc[p] = "publish"
  /\ head' = Succ(phead[p])
  /\ ppc' = [ppc EXCEPT ![p] = "idle"]
  /\ answer' = [op |-> "push", ok |-> TRUE, item |-> pitem[p]]
  /\ UNCHANGED <<tail, buffer, phead, pitem, consVars>>

\* push() once called, whichever branch it takes
PushStep(p) == PushFull(p) \/ PushRoom(p) \/ PushWrite(p) \/ PushPublish(p)

-----------------------------------------------------------------------------
(* pop(), one step per atomic access *)

PopLoadTail ==
  /\ cpc = "idle"
  /\ cpc' = "check"
  /\ ctail' = tail
  /\ UNCHANGED <<head, tail, buffer, prodVars, citem, answer>>

PopEmpty ==
  /\ cpc = "check"
  /\ ctail = head
  /\ cpc' = "idle"
  /\ answer' = [op |-> "pop", ok |-> FALSE]
  /\ UNCHANGED <<head, tail, buffer, prodVars, ctail, citem>>

\* Mutant of PopReady: no test for an empty ring.
PopReadyUnchecked ==
  /\ cpc = "check"
  /\ cpc' = "take"
  /\ UNCHANGED <<head, tail, buffer, prodVars, ctail, citem, answer>>

PopReady ==
  /\ cpc = "check"
  /\ ctail # head
  /\ cpc' = "take"
  /\ UNCHANGED <<head, tail, buffer, prodVars, ctail, citem, answer>>

\* T item = std::move(buffer_[tail]): what stays in the slot is unspecified
PopTake ==
  /\ cpc = "take"
  /\ citem' = buffer[ctail]
  /\ \E left \in {buffer[ctail], NoItem} : buffer' = [buffer EXCEPT ![ctail] = left]
  /\ cpc' = "advance"
  /\ UNCHANGED <<head, tail, prodVars, ctail, answer>>

PopAdvance ==
  /\ cpc = "advance"
  /\ tail' = Succ(ctail)
  /\ cpc' = "idle"
  /\ answer' = [op |-> "pop", ok |-> TRUE, item |-> citem]
  /\ UNCHANGED <<head, buffer, prodVars, ctail, citem>>

PopStep == PopEmpty \/ PopReady \/ PopTake \/ PopAdvance

-----------------------------------------------------------------------------
Next == \/ \E p \in Producers : \/ \E v \in Items : PushLoadHead(p, v)
                                \/ PushStep(p)
        \/ PopLoadTail
        \/ PopStep

Spec == Init /\ [][Next]_vars

-----------------------------------------------------------------------------
(* Properties *)

\* A slot is never written by one thread while another thread reads or writes
\* it: the accesses buffer_[head] = item and std::move(buffer_[tail]) are not
\* atomic, and only the index protocol keeps them apart.
NoSlotRace ==
  /\ \A p \in Producers : ppc[p] = "write" /\ cpc = "take" => phead[p] # ctail
  /\ \A p1, p2 \in Producers :
        p1 # p2 /\ ppc[p1] = "write" /\ ppc[p2] = "write" => phead[p1] # phead[p2]

\* The queue's abstract contents: the slots from tail up to head.  Between
\* std::move and the store of tail_ the oldest item lives in pop()'s local.
Contents ==
  [k \in 1..Size |-> IF k = 1 /\ cpc = "advance" THEN citem
                                                 ELSE buffer[(tail + (k - 1)) % N]]

Fifo == INSTANCE BoundedFifo WITH Capacity <- N - 1, q <- Contents

\* push() and pop() together are a bounded FIFO of capacity N - 1: no item is
\* lost, duplicated or reordered, push() refuses only when the queue is full and
\* pop() answers nullopt only when it is empty.
RefinesFifo == Fifo!Spec

\* What the order of the item in the queue depends on: the locals of push() and
\* pop() agree with the shared indices, the slot a producer fills is outside the
\* published window, and every published slot holds an item.  With NoSlotRace
\* this is what makes the refinement go through.
IndexInv ==
  /\ cpc # "idle" => ctail = tail
  /\ cpc \in {"take", "advance"} => Size > 0
  /\ cpc = "advance" => citem \in Items
  /\ \A p \in Producers :
       /\ ppc[p] # "idle" => phead[p] = head
       /\ ppc[p] \in {"write", "publish"} => Size < N - 1
       /\ ppc[p] = "publish" => buffer[phead[p]] = pitem[p]
  /\ \A k \in 0..(N - 1) : 
       k < Size /\ (k > 0 \/ cpc # "advance") => buffer[(tail + k) % N] \in Items
=============================================================================
