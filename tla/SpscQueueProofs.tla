-------------------------- MODULE SpscQueueProofs --------------------------
(***************************************************************************)
(* The ring buffer is a bounded FIFO for every power-of-two N and every    *)
(* set of items, provided one thread only calls push().  The inductive     *)
(* invariant is TypeOK /\ IndexInv; the refinement follows step by step.   *)
(***************************************************************************)
EXTENDS SpscQueue, TLAPS

\* The contract of spsc_queue.hpp:12.
OneProducer == \A p1, p2 \in Producers : p1 = p2

Inv == TypeOK /\ IndexInv

-----------------------------------------------------------------------------
(* Arithmetic of the ring *)

\* Succ wraps at N: the mask (i + 1) & kMask without division.
LEMMA SuccWraps == ASSUME NEW i \in Slots
                   PROVE  Succ(i) = IF i + 1 = N THEN 0 ELSE i + 1
  BY SizeAssumption DEF Slots, Succ

\* size() is the distance from tail to head around the ring.
LEMMA SizeIsDistance ==
  ASSUME NEW h \in Slots, NEW t \in Slots
  PROVE  (h - t) % N = IF h >= t THEN h - t ELSE h - t + N
  BY SizeAssumption DEF Slots

\* The k-th slot after t.
LEMMA SlotWraps ==
  ASSUME NEW t \in Slots, NEW k \in Slots
  PROVE  (t + k) % N = IF t + k >= N THEN t + k - N ELSE t + k
  BY SizeAssumption DEF Slots

\* Publishing one item in a ring that is not full lengthens the window by one.
LEMMA GrowWindow ==
  ASSUME NEW h \in Slots, NEW t \in Slots, (h - t) % N < N - 1
  PROVE  /\ Succ(h) \in Slots
         /\ (Succ(h) - t) % N = ((h - t) % N) + 1
<1>1. Succ(h) \in Slots
  BY SuccWraps, SizeAssumption DEF Slots
<1>2. /\ (h - t) % N = IF h >= t THEN h - t ELSE h - t + N
      /\ (Succ(h) - t) % N = IF Succ(h) >= t THEN Succ(h) - t ELSE Succ(h) - t + N
  BY <1>1, SizeIsDistance
<1>3. Succ(h) = IF h + 1 = N THEN 0 ELSE h + 1
  BY SuccWraps
<1>4. QED
  BY <1>1, <1>2, <1>3, SizeAssumption DEF Slots

\* Advancing tail in a non-empty ring shortens the window by one.
LEMMA ShrinkWindow ==
  ASSUME NEW h \in Slots, NEW t \in Slots, (h - t) % N > 0
  PROVE  /\ Succ(t) \in Slots
         /\ (h - Succ(t)) % N = ((h - t) % N) - 1
<1>1. Succ(t) \in Slots
  BY SuccWraps, SizeAssumption DEF Slots
<1>2. /\ (h - t) % N = IF h >= t THEN h - t ELSE h - t + N
      /\ (h - Succ(t)) % N = IF h >= Succ(t) THEN h - Succ(t) ELSE h - Succ(t) + N
  BY <1>1, SizeIsDistance
<1>3. Succ(t) = IF t + 1 = N THEN 0 ELSE t + 1
  BY SuccWraps
<1>4. QED
  BY <1>1, <1>2, <1>3, SizeAssumption DEF Slots

\* The slot that head designates is just outside the window.
LEMMA HeadOutside ==
  ASSUME NEW h \in Slots, NEW t \in Slots, NEW k \in Slots
  PROVE  /\ (t + k) % N \in Slots
         /\ (h - t) % N \in Slots
         /\ (t + k) % N = h <=> k = (h - t) % N
<1>1. (t + k) % N = IF t + k >= N THEN t + k - N ELSE t + k
  BY SlotWraps
<1>2. (h - t) % N = IF h >= t THEN h - t ELSE h - t + N
  BY SizeIsDistance
<1>3. QED
  BY <1>1, <1>2, SizeAssumption DEF Slots

\* Slot k of the window that starts after t is slot k + 1 of the one at t.
LEMMA ShiftWindow ==
  ASSUME NEW t \in Slots, NEW k \in Slots, k + 1 < N
  PROVE  (Succ(t) + k) % N = (t + (k + 1)) % N
<1>1. Succ(t) \in Slots /\ k + 1 \in Slots
  BY SuccWraps, SizeAssumption DEF Slots
<1>2. Succ(t) = IF t + 1 = N THEN 0 ELSE t + 1
  BY SuccWraps
<1>3. (Succ(t) + k) % N = IF Succ(t) + k >= N THEN Succ(t) + k - N ELSE Succ(t) + k
  BY <1>1, SlotWraps
<1>4. (t + (k + 1)) % N = IF t + (k + 1) >= N THEN t + (k + 1) - N ELSE t + (k + 1)
  BY <1>1, SlotWraps
<1>5. QED
  BY <1>1, <1>2, <1>3, <1>4, SizeAssumption DEF Slots

\* Different offsets designate different slots.
LEMMA SlotInjective ==
  ASSUME NEW t \in Slots, NEW j \in Slots, NEW k \in Slots,
         (t + j) % N = (t + k) % N
  PROVE  j = k
<1>1. (t + j) % N = IF t + j >= N THEN t + j - N ELSE t + j
  BY SlotWraps
<1>2. (t + k) % N = IF t + k >= N THEN t + k - N ELSE t + k
  BY SlotWraps
<1>3. QED
  BY <1>1, <1>2, SizeAssumption DEF Slots

\* Offset 0 is the slot itself.
LEMMA OffsetZero == ASSUME NEW t \in Slots PROVE 0 \in Slots /\ (t + 0) % N = t
<1>1. 0 \in Slots
  BY SizeAssumption DEF Slots
<1>2. (t + 0) % N = IF t + 0 >= N THEN t + 0 - N ELSE t + 0
  BY <1>1, SlotWraps
<1>3. QED
  BY <1>1, <1>2, SizeAssumption DEF Slots

-----------------------------------------------------------------------------
(* The inductive invariant *)

\* The window's length is a slot number: never more than N - 1 items.
LEMMA SizeType == TypeOK => Size \in Slots
  BY HeadOutside, SizeAssumption DEF TypeOK, Size, Slots

\* The window is empty exactly when the indices meet.
LEMMA SizeZero == TypeOK => (Size = 0 <=> head = tail)
<1> SUFFICES ASSUME TypeOK PROVE Size = 0 <=> head = tail
  OBVIOUS
<1>1. Size = IF head >= tail THEN head - tail ELSE head - tail + N
  BY SizeIsDistance DEF TypeOK, Size
<1>2. QED
  BY <1>1, SizeAssumption DEF TypeOK, Slots

\* The window is full exactly when the next head would meet tail.
LEMMA SizeFull == TypeOK => (Size = N - 1 <=> Succ(head) = tail)
<1> SUFFICES ASSUME TypeOK PROVE Size = N - 1 <=> Succ(head) = tail
  OBVIOUS
<1>1. Size = IF head >= tail THEN head - tail ELSE head - tail + N
  BY SizeIsDistance DEF TypeOK, Size
<1>2. Succ(head) = IF head + 1 = N THEN 0 ELSE head + 1
  BY SuccWraps DEF TypeOK
<1>3. QED
  BY <1>1, <1>2, SizeAssumption DEF TypeOK, Slots

\* An empty ring satisfies the invariant.
LEMMA InitInv == Init => Inv
<1> SUFFICES ASSUME Init PROVE Inv
  OBVIOUS
<1>1. Size = 0
  BY SizeIsDistance, SizeAssumption DEF Init, Size, Slots
<1>2. TypeOK
  BY SizeAssumption DEF Init, TypeOK, Slots, Answers
<1>3. IndexInv
  BY <1>1, SizeAssumption DEF Init, IndexInv, Slots
<1>4. QED
  BY <1>2, <1>3 DEF Inv

\* The types are preserved by every access of push() and pop().
LEMMA TypeStep == TypeOK /\ IndexInv /\ [Next]_vars => TypeOK'
<1> SUFFICES ASSUME TypeOK, IndexInv, [Next]_vars PROVE TypeOK'
  OBVIOUS
<1>0. /\ \A i \in Slots : Succ(i) \in Slots
      /\ cpc = "take" => buffer[ctail] \in Items
  <2>1. \A i \in Slots : Succ(i) \in Slots
    BY SuccWraps, SizeAssumption DEF Slots
  <2>2. ASSUME cpc = "take" PROVE buffer[ctail] \in Items
    <3>1. ctail = tail /\ Size > 0 /\ Size \in Slots /\ 0 \in Slots
      BY <2>2, SizeType, SizeAssumption DEF IndexInv, Slots
    <3>2. buffer[(tail + 0) % N] \in Items
      BY <2>2, <3>1, SizeAssumption DEF IndexInv
    <3>3. (tail + 0) % N = tail
      BY OffsetZero DEF TypeOK
    <3>4. QED
      BY <3>1, <3>2, <3>3
  <2>3. QED
    BY <2>1, <2>2
<1>1. ASSUME NEW p \in Producers, NEW v \in Items, PushLoadHead(p, v) PROVE TypeOK'
  BY <1>1 DEF TypeOK, PushLoadHead, consVars
<1>2. ASSUME NEW p \in Producers, PushFull(p) PROVE TypeOK'
  BY <1>2 DEF TypeOK, PushFull, consVars, Answers
<1>3. ASSUME NEW p \in Producers, PushRoom(p) PROVE TypeOK'
  BY <1>3 DEF TypeOK, PushRoom, consVars
<1>4. ASSUME NEW p \in Producers, PushWrite(p) PROVE TypeOK'
  BY <1>4 DEF TypeOK, PushWrite, consVars
<1>5. ASSUME NEW p \in Producers, PushPublish(p) PROVE TypeOK'
  BY <1>0, <1>5 DEF TypeOK, PushPublish, consVars, Answers
<1>6. CASE PopLoadTail
  BY <1>6 DEF TypeOK, PopLoadTail, prodVars
<1>7. CASE PopEmpty
  BY <1>7 DEF TypeOK, PopEmpty, prodVars, Answers
<1>8. CASE PopReady
  BY <1>8 DEF TypeOK, PopReady, prodVars
<1>9. CASE PopTake
  BY <1>9, <1>0 DEF TypeOK, PopTake, prodVars
<1>10. CASE PopAdvance
  BY <1>10, <1>0 DEF TypeOK, PopAdvance, prodVars, Answers, IndexInv
<1>11. CASE UNCHANGED vars
  BY <1>11 DEF TypeOK, vars, prodVars, consVars
<1>12. QED
  BY <1>1, <1>2, <1>3, <1>4, <1>5, <1>6, <1>7, <1>8, <1>9, <1>10, <1>11
     DEF Next, PushStep, PopStep

\* The index protocol is preserved when one thread only pushes.
LEMMA IndexStep ==
  ASSUME OneProducer, TypeOK, IndexInv, TypeOK', [Next]_vars
  PROVE  IndexInv'
<1> USE SizeAssumption
<1>0. Size \in Slots /\ (head = head' /\ tail = tail' => Size' = Size)
  BY SizeType DEF Size
<1>1. ASSUME NEW p \in Producers, NEW v \in Items, PushLoadHead(p, v) PROVE IndexInv'
  BY <1>1, <1>0 DEF IndexInv, TypeOK, PushLoadHead, consVars, OneProducer
<1>2. ASSUME NEW p \in Producers, PushFull(p) PROVE IndexInv'
  BY <1>2, <1>0 DEF IndexInv, TypeOK, PushFull, consVars, OneProducer
<1>3. ASSUME NEW p \in Producers, PushRoom(p) PROVE IndexInv'
  <2>1. phead[p] = head /\ Succ(head) # tail
    BY <1>3 DEF PushRoom, IndexInv
  <2>2. Size < N - 1
    BY <1>0, <2>1, SizeFull DEF Slots
  <2>3. QED
    BY <1>3, <1>0, <2>2 DEF IndexInv, TypeOK, PushRoom, consVars, OneProducer
<1>4. ASSUME NEW p \in Producers, PushWrite(p) PROVE IndexInv'
  <2>1. phead[p] = head /\ Size < N - 1 /\ Size' = Size /\ pitem[p] \in Items
    BY <1>4, <1>0 DEF PushWrite, IndexInv, TypeOK
  <2>2. ASSUME NEW k \in 0..(N - 1), k < Size
        PROVE  buffer'[(tail + k) % N] = buffer[(tail + k) % N]
    <3>0. k \in Slots /\ k # Size
      BY <2>2, <1>0 DEF Slots
    <3>1. (tail + k) % N \in Slots /\ (tail + k) % N # head
      BY <3>0, HeadOutside DEF TypeOK, Size
    <3>2. QED
      BY <1>4, <2>1, <3>1 DEF PushWrite, TypeOK
  <2>3. \A k \in 0..(N - 1) :
          k < Size' /\ (k > 0 \/ cpc' # "advance") => buffer'[(tail' + k) % N] \in Items
    BY <1>4, <2>1, <2>2 DEF PushWrite, IndexInv, consVars
  <2>4. \A q \in Producers : /\ ppc'[q] # "idle" => phead'[q] = head'
                             /\ ppc'[q] \in {"write", "publish"} => Size' < N - 1
                             /\ ppc'[q] = "publish" => buffer'[phead'[q]] = pitem'[q]
    BY <1>4, <2>1 DEF PushWrite, TypeOK, OneProducer, consVars
  <2>5. QED
    BY <1>4, <2>1, <2>3, <2>4 DEF PushWrite, IndexInv, consVars
<1>5. ASSUME NEW p \in Producers, PushPublish(p) PROVE IndexInv'
  <2>1. /\ phead[p] = head /\ Size < N - 1 /\ buffer[head] = pitem[p]
        /\ pitem[p] \in Items
    BY <1>5 DEF PushPublish, IndexInv, TypeOK
  <2>2. Size' = Size + 1
    BY <1>5, <2>1, GrowWindow DEF PushPublish, TypeOK, Size
  <2>3. (tail + Size) % N = head
    BY <1>0, HeadOutside DEF TypeOK, Size
  <2>4. ASSUME NEW k \in 0..(N - 1), k < Size', k > 0 \/ cpc' # "advance"
        PROVE  buffer'[(tail' + k) % N] \in Items
    <3>1. buffer' = buffer /\ tail' = tail /\ cpc' = cpc
      BY <1>5 DEF PushPublish, consVars
    <3>2. CASE k < Size
      BY <2>4, <3>1, <3>2 DEF IndexInv
    <3>3. CASE k = Size
      BY <3>1, <3>3, <2>1, <2>3
    <3>4. QED
      BY <3>2, <3>3, <2>2, <2>4, <1>0 DEF Slots
  <2>5. \A q \in Producers : ppc'[q] = "idle"
    BY <1>5 DEF PushPublish, TypeOK, OneProducer
  <2>6. QED
    BY <1>5, <1>0, <2>2, <2>4, <2>5 DEF PushPublish, IndexInv, consVars, Slots
<1>6. CASE PopLoadTail
  BY <1>6, <1>0 DEF IndexInv, TypeOK, PopLoadTail, prodVars
<1>7. CASE PopEmpty
  BY <1>7, <1>0 DEF IndexInv, TypeOK, PopEmpty, prodVars
<1>8. CASE PopReady
  <2>1. Size > 0
    BY <1>8, <1>0, SizeZero DEF PopReady, IndexInv, Slots
  <2>2. QED
    BY <1>8, <1>0, <2>1 DEF IndexInv, TypeOK, PopReady, prodVars
<1>9. CASE PopTake
  <2>1. ctail = tail /\ Size > 0 /\ Size' = Size
    BY <1>9, <1>0 DEF PopTake, IndexInv
  <2>2. tail \in Slots /\ 0 \in Slots /\ (tail + 0) % N = tail
    BY OffsetZero DEF TypeOK
  <2>3. buffer[tail] \in Items
    BY <1>9, <2>1, <2>2 DEF PopTake, IndexInv, Slots
  <2>4. \A i \in Slots : i # tail => buffer'[i] = buffer[i]
    BY <1>9, <2>1 DEF PopTake, TypeOK
  <2>5. ASSUME NEW k \in 0..(N - 1), k < Size, k > 0
        PROVE  buffer'[(tail + k) % N] \in Items
    <3>1. (tail + k) % N \in Slots
      BY HeadOutside, <2>2 DEF Slots
    <3>2. (tail + k) % N # tail
      BY <2>2, <2>5, SlotInjective DEF Slots
    <3>3. QED
      BY <1>9, <2>4, <2>5, <3>1, <3>2 DEF PopTake, IndexInv
  <2>6. ASSUME NEW p \in Producers, ppc[p] = "publish"
        PROVE  buffer'[phead[p]] = pitem[p]
    <3>1. phead[p] = head /\ buffer[head] = pitem[p] /\ head \in Slots
      BY <2>6 DEF IndexInv, TypeOK
    <3>2. head # tail
      BY <1>0, <2>1, SizeZero DEF Slots
    <3>3. QED
      BY <2>4, <3>1, <3>2
  <2>7. QED
    BY <1>9, <2>1, <2>3, <2>5, <2>6 DEF PopTake, IndexInv, prodVars
<1>10. CASE PopAdvance
  <2>1. ctail = tail /\ Size > 0
    BY <1>10 DEF PopAdvance, IndexInv
  <2>2. Size' = Size - 1
    BY <1>10, <2>1, ShrinkWindow DEF PopAdvance, TypeOK, Size
  <2>3. ASSUME NEW k \in 0..(N - 1), k < Size'
        PROVE  buffer'[(tail' + k) % N] \in Items
    <3>1. k + 1 < Size /\ k + 1 \in 0..(N - 1) /\ k \in Slots
      BY <1>0, <2>2, <2>3 DEF Slots
    <3>2. (tail' + k) % N = (tail + (k + 1)) % N
      BY <1>10, <2>1, <3>1, <1>0, ShiftWindow DEF PopAdvance, TypeOK, Slots
    <3>3. QED
      BY <1>10, <3>1, <3>2 DEF PopAdvance, IndexInv
  <2>4. QED
    BY <1>10, <1>0, <2>2, <2>3 DEF PopAdvance, IndexInv, prodVars, Slots
<1>11. CASE UNCHANGED vars
  BY <1>11, <1>0 DEF IndexInv, vars, prodVars, consVars
<1>12. QED
  BY <1>1, <1>2, <1>3, <1>4, <1>5, <1>6, <1>7, <1>8, <1>9, <1>10, <1>11
     DEF Next, PushStep, PopStep

\* spsc_queue.hpp:29-63 -- indices, slots and locals keep their types, and the
\* index protocol holds, for every N, when push() has one caller.
THEOREM RingInvariant == ASSUME OneProducer PROVE Spec => [](TypeOK /\ IndexInv)
<1>1. Init => Inv
  BY InitInv
<1>2. Inv /\ [Next]_vars => Inv'
  BY TypeStep, IndexStep DEF Inv
<1>3. QED
  BY <1>1, <1>2, PTL DEF Spec, Inv

\* spsc_queue.hpp:36,60 -- buffer_[head] and buffer_[tail] are never accessed by
\* two threads at once.
THEOREM SlotsAreNotShared == ASSUME OneProducer PROVE Spec => []NoSlotRace
<1>1. TypeOK /\ IndexInv => NoSlotRace
  BY SizeZero, SizeType, SizeAssumption DEF IndexInv, NoSlotRace, OneProducer, Slots
<1>2. QED
  BY <1>1, RingInvariant, PTL

-----------------------------------------------------------------------------
(* The refinement *)

\* The item at position k of the abstract queue.
Entry(k) == IF k = 1 /\ cpc = "advance" THEN citem ELSE buffer[(tail + (k - 1)) % N]

\* The window is a sequence of Size items.
LEMMA ContentsIsSeq ==
  TypeOK /\ IndexInv => /\ Contents \in Seq(Items) /\ Len(Contents) = Size
                        /\ Contents = [k \in 1..Size |-> Entry(k)]
                        /\ Size \in Nat
<1> SUFFICES ASSUME TypeOK, IndexInv
             PROVE  /\ Contents \in Seq(Items) /\ Len(Contents) = Size
                    /\ Contents = [k \in 1..Size |-> Entry(k)]
                    /\ Size \in Nat
  OBVIOUS
<1>1. Size \in Nat /\ Size < N
  BY SizeType, SizeAssumption DEF Slots
<1>2. ASSUME NEW k \in 1..Size PROVE Entry(k) \in Items
  <2>1. CASE k = 1 /\ cpc = "advance"
    BY <2>1 DEF Entry, IndexInv
  <2>2. CASE ~ (k = 1 /\ cpc = "advance")
    <3>1. k - 1 \in 0..(N - 1) /\ k - 1 < Size /\ (k - 1 > 0 \/ cpc # "advance")
      BY <1>1, <2>2, SizeAssumption
    <3>2. QED
      BY <2>2, <3>1 DEF Entry, IndexInv
  <2>3. QED
    BY <2>1, <2>2
<1>3. Contents = [k \in 1..Size |-> Entry(k)]
  BY DEF Contents, Entry
<1>4. QED
  BY <1>1, <1>2, <1>3

\* The same fact about the state after a step.
LEMMA ContentsIsSeqNext ==
  (TypeOK /\ IndexInv)' => /\ Contents' \in Seq(Items) /\ Len(Contents') = Size'
                           /\ Contents' = [k \in 1..Size' |-> Entry(k)']
                           /\ Size' \in Nat
<1>1. (TypeOK /\ IndexInv => /\ Contents \in Seq(Items) /\ Len(Contents) = Size
                             /\ Contents = [k \in 1..Size |-> Entry(k)]
                             /\ Size \in Nat)'
  BY ContentsIsSeq, PTL
<1>2. QED
  BY <1>1

\* Two sequences given entry by entry are equal when their entries are.
LEMMA SameContents ==
  ASSUME TypeOK, IndexInv, TypeOK', IndexInv', Size' = Size,
         \A k \in 1..Size : Entry(k)' = Entry(k)
  PROVE  Contents' = Contents
  BY ContentsIsSeq DEF Contents, Entry

\* A step of push() or pop() is a step of the abstract queue or leaves it alone.
LEMMA StepRefines ==
  ASSUME OneProducer, TypeOK, IndexInv, TypeOK', IndexInv', [Next]_vars
  PROVE  [Fifo!Next]_(Fifo!vars)
<1> USE SizeAssumption
<1>0. /\ Contents \in Seq(Items) /\ Len(Contents) = Size /\ Size \in Nat
      /\ Contents = [k \in 1..Size |-> Entry(k)]
      /\ Contents' \in Seq(Items) /\ Len(Contents') = Size' /\ Size' \in Nat
      /\ Contents' = [k \in 1..Size' |-> Entry(k)']
  BY ContentsIsSeq, ContentsIsSeqNext
<1>1. Size < N /\ (head = head' /\ tail = tail' => Size' = Size)
  BY SizeType DEF Size, Slots
<1>2. ASSUME NEW p \in Producers, NEW v \in Items, PushLoadHead(p, v)
      PROVE  UNCHANGED <<Contents, answer>>
  BY <1>2, <1>1, SameContents DEF PushLoadHead, consVars, Entry
<1>3. ASSUME NEW p \in Producers, PushFull(p) PROVE Fifo!Refuse(pitem[p])
  <2>1. Succ(head) = tail
    BY <1>3 DEF PushFull, IndexInv
  <2>2. Size = N - 1
    BY <2>1, SizeFull
  <2>3. Contents' = Contents
    BY <1>3, <1>1, SameContents DEF PushFull, consVars, Entry
  <2>4. QED
    BY <1>0, <1>3, <2>2, <2>3 DEF Fifo!Refuse, Fifo!Refused, PushFull
<1>4. ASSUME NEW p \in Producers, PushRoom(p) PROVE UNCHANGED <<Contents, answer>>
  BY <1>4, <1>1, SameContents DEF PushRoom, consVars, Entry
<1>5. ASSUME NEW p \in Producers, PushWrite(p) PROVE UNCHANGED <<Contents, answer>>
  <2>1. phead[p] = head /\ Size' = Size
    BY <1>5, <1>1 DEF PushWrite, IndexInv
  <2>2. ASSUME NEW k \in 1..Size PROVE Entry(k)' = Entry(k)
    <3>1. k - 1 \in Slots /\ k - 1 # Size
      BY <1>0, <1>1 DEF Slots
    <3>2. (tail + (k - 1)) % N \in Slots /\ (tail + (k - 1)) % N # head
      BY <3>1, HeadOutside DEF TypeOK, Size
    <3>3. QED
      BY <1>5, <2>1, <3>2 DEF PushWrite, Entry, consVars, TypeOK
  <2>3. QED
    BY <1>5, <2>1, <2>2, SameContents DEF PushWrite
<1>6. ASSUME NEW p \in Producers, PushPublish(p) PROVE Fifo!Enqueue(pitem[p])
  <2>1. /\ phead[p] = head /\ Size < N - 1 /\ buffer[head] = pitem[p]
        /\ pitem[p] \in Items
    BY <1>6 DEF PushPublish, IndexInv, TypeOK
  <2>2. Size' = Size + 1
    BY <1>6, <2>1, GrowWindow DEF PushPublish, TypeOK, Size
  <2>3. (tail + Size) % N = head /\ (cpc = "advance" => Size > 0)
    BY SizeType, HeadOutside DEF TypeOK, Size, IndexInv
  <2>4. \A k \in 1..Size : Entry(k)' = Entry(k)
    BY <1>6 DEF PushPublish, Entry, consVars
  <2>5. ASSUME NEW k \in Nat, k = Size + 1 PROVE Entry(k)' = pitem[p]
    BY <1>0, <1>6, <2>1, <2>3, <2>5 DEF PushPublish, Entry, consVars
  <2>6. Contents' = Append(Contents, pitem[p])
    BY <1>0, <2>1, <2>2, <2>4, <2>5
  <2>7. QED
    BY <1>0, <1>6, <2>1, <2>6 DEF Fifo!Enqueue, Fifo!Pushed, PushPublish
<1>7. CASE PopLoadTail
  <2>1. UNCHANGED <<Contents, answer>>
    BY <1>7, <1>1, SameContents DEF PopLoadTail, Entry
  <2>2. QED
    BY <2>1 DEF Fifo!vars
<1>8. CASE PopEmpty
  <2>1. Size = 0
    BY <1>8, SizeZero DEF PopEmpty, IndexInv
  <2>2. Contents = <<>>
    BY <1>0, <2>1
  <2>3. Contents' = Contents
    BY <1>8, <1>1, SameContents DEF PopEmpty, Entry
  <2>4. QED
    BY <1>8, <2>2, <2>3 DEF PopEmpty, Fifo!Next, Fifo!FindEmpty, Fifo!Nothing
<1>9. CASE PopReady
  <2>1. UNCHANGED <<Contents, answer>>
    BY <1>9, <1>1, SameContents DEF PopReady, Entry
  <2>2. QED
    BY <2>1 DEF Fifo!vars
<1>10. CASE PopTake
  <2>1. ctail = tail /\ Size' = Size
    BY <1>10, <1>1 DEF PopTake, IndexInv
  <2>2. tail \in Slots /\ 0 \in Slots /\ (tail + 0) % N = tail
    BY OffsetZero DEF TypeOK
  <2>3. ASSUME NEW k \in 1..Size PROVE Entry(k)' = Entry(k)
    <3>1. CASE k = 1
      BY <1>10, <2>1, <2>2, <3>1 DEF PopTake, Entry
    <3>2. CASE k # 1
      <4>1. k - 1 \in Slots /\ k - 1 # 0
        BY <1>0, <1>1, <3>2 DEF Slots
      <4>2. (tail + (k - 1)) % N \in Slots /\ (tail + (k - 1)) % N # tail
        BY <2>2, <4>1, SlotInjective, HeadOutside
      <4>3. QED
        BY <1>10, <2>1, <3>2, <4>2 DEF PopTake, Entry, TypeOK
    <3>3. QED
      BY <3>1, <3>2
  <2>4. UNCHANGED <<Contents, answer>>
    BY <1>10, <2>1, <2>3, SameContents DEF PopTake
  <2>5. QED
    BY <2>4 DEF Fifo!vars
<1>11. CASE PopAdvance
  <2>1. ctail = tail /\ Size > 0 /\ cpc = "advance"
    BY <1>11 DEF PopAdvance, IndexInv
  <2>2. Size' = Size - 1
    BY <1>11, <2>1, ShrinkWindow DEF PopAdvance, TypeOK, Size
  <2>3. ASSUME NEW k \in 1..(Size - 1) PROVE Entry(k)' = Entry(k + 1)
    <3>1. k - 1 \in Slots /\ (k - 1) + 1 < N /\ (k - 1) + 1 = (k + 1) - 1
      BY <1>0, <1>1 DEF Slots
    <3>2. (tail' + (k - 1)) % N = (tail + ((k + 1) - 1)) % N
      BY <1>11, <2>1, <3>1, ShiftWindow DEF PopAdvance, TypeOK
    <3>3. QED
      BY <1>11, <3>1, <3>2 DEF PopAdvance, Entry
  <2>4. Head(Contents) = citem /\ Contents # <<>>
    <3>1. Contents[1] = citem
      BY <1>0, <2>1 DEF Entry
    <3>2. Contents # <<>>
      BY <1>0, <2>1
    <3>3. QED
      BY <1>0, <3>1, <3>2
  <2>5. Contents' = Tail(Contents)
    BY <1>0, <2>1, <2>2, <2>3
  <2>6. QED
    BY <1>11, <2>4, <2>5 DEF PopAdvance, Fifo!Next, Fifo!Dequeue, Fifo!Popped
<1>12. CASE UNCHANGED vars
  <2>1. UNCHANGED <<Contents, answer>>
    BY <1>12, <1>1, SameContents DEF Entry, vars, consVars
  <2>2. QED
    BY <2>1 DEF Fifo!vars
<1>13. ASSUME NEW p \in Producers, PushStep(p) PROVE [Fifo!Next]_(Fifo!vars)
  <2>1. pitem[p] \in Items
    BY <1>13 DEF PushStep, PushFull, PushRoom, PushWrite, PushPublish, TypeOK
  <2>2. QED
    BY <1>3, <1>4, <1>5, <1>6, <1>13, <2>1 DEF PushStep, Fifo!Next, Fifo!vars
<1>14. QED
  BY <1>2, <1>7, <1>8, <1>9, <1>10, <1>11, <1>12, <1>13 DEF Next, PopStep, Fifo!vars

\* spsc_queue.hpp:29-63 -- for every N and every set of items, push() and pop()
\* under one producer implement the bounded FIFO: nothing is lost, duplicated or
\* reordered, push() fails only when N - 1 items wait, pop() only when none does.
THEOREM RingRefinesFifo == ASSUME OneProducer PROVE Spec => RefinesFifo
<1>1. Init => Fifo!Init
  <2>1. ASSUME Init PROVE Contents = <<>>
    <3>1. TypeOK /\ IndexInv
      BY <2>1, InitInv DEF Inv
    <3>2. Size = 0
      BY <2>1, <3>1, SizeZero DEF Init
    <3>3. QED
      BY <3>1, <3>2, ContentsIsSeq
  <2>2. QED
    BY <2>1 DEF Init, Fifo!Init, Fifo!Nothing
<1>2. (TypeOK /\ IndexInv) /\ (TypeOK /\ IndexInv)' /\ [Next]_vars => [Fifo!Next]_(Fifo!vars)
  BY StepRefines
<1>3. QED
  BY <1>1, <1>2, RingInvariant, PTL DEF Spec, RefinesFifo, Fifo!Spec
=============================================================================
