-------------------------- MODULE ConfluenceProofs --------------------------
(***************************************************************************)
(* Proofs about ConfluenceStrategy, for every ring size, set of prices and *)
(* number of days, with the M1, D1 and strategy threads interleaved.       *)
(***************************************************************************)
EXTENDS ConfluenceStrategy, TLAPS

(* Orders and positions *)

\* The types the arguments below need.
OrdersOK ==
  orders \in Seq(Order) /\ sent \in Nat /\ pos \in Int /\ book \in Int /\ flow \in Int

\* A step that sends an order sends a close from on_quote() or an entry of
\* EntryQty contracts from a book or trade event; any other step sends none.
LEMMA SendingSteps ==
  ASSUME OrdersOK, Next
  PROVE  \/ sent' = sent
         \/ \E o \in [buy : BOOLEAN, qty : {Magnitude(pos)}, close : {TRUE}]
                  \cup [buy : BOOLEAN, qty : {EntryQty}, close : {FALSE}] :
              /\ o.qty > 0 /\ orders' = Append(orders, o) /\ sent' = sent + 1
<1>1. CASE CheckExit
  BY <1>1 DEF CheckExit, Submit, market
<1>2. ASSUME NEW b \in Int, NEW f \in Int, TryEnter(b, f)
      PROVE  \/ sent' = sent
             \/ \E o \in [buy : BOOLEAN, qty : {EntryQty}, close : {FALSE}] :
                  /\ o.qty > 0 /\ orders' = Append(orders, o) /\ sent' = sent + 1
  <2> DEFINE o == [buy |-> b > 0, qty |-> EntryQty, close |-> FALSE]
  <2>1. o \in [buy : BOOLEAN, qty : {EntryQty}, close : {FALSE}]
    OBVIOUS
  <2>2. sent' = sent \/ (o.qty > 0 /\ orders' = Append(orders, o) /\ sent' = sent + 1)
    BY <1>2 DEF TryEnter, Submit, market
  <2> QED  BY <2>1, <2>2
<1>3. CASE \E v \in -1..1 : OnBookEvent(v) \/ OnTradeEvent(v)
  <2>1. PICK b \in Int, f \in Int : TryEnter(b, f)
    BY <1>3 DEF OrdersOK, OnBookEvent, OnTradeEvent
  <2> QED  BY <2>1, <1>2
<1>4. CASE ~ (CheckExit \/ \E v \in -1..1 : OnBookEvent(v) \/ OnTradeEvent(v))
  BY <1>4 DEF Next, NextPhase, CoolDown, OnDailyBar, Arrives, SessionCheck, SetOpened,
       Reset, SessionTest, WidenOrb, FinalizeTest, FinalizeSet, FinalizeBias,
       OnOrderUpdate, market
<1> QED  BY <1>1, <1>3, <1>4

\* The steps of the two threads inside on_quote() and on_bar(), up to the exit: they
\* send nothing, and forget the position and the votes when they open a session.
InSession(t) ==
  \/ \E p \in Prices : Arrives(t, p)
  \/ SessionCheck(t) \/ SetOpened(t) \/ Reset(t)
  \/ SessionTest(t) \/ WidenOrb(t)
  \/ FinalizeTest(t) \/ FinalizeSet(t) \/ FinalizeBias(t)

\* What such a step does to the votes and the position.
LEMMA SessionSteps ==
  ASSUME OrdersOK, NEW t, InSession(t)
  PROVE  UNCHANGED market /\ (book \in Int /\ flow \in Int /\ pos \in Int)'
<1>1. CASE Reset(t)
  BY <1>1 DEF Reset, OnSessionOpen, market
<1>2. CASE ~ Reset(t)
  BY <1>2 DEF InSession, OrdersOK, Arrives, SessionCheck, SetOpened, SessionTest, WidenOrb,
       FinalizeTest, FinalizeSet, FinalizeBias, votes, position, market
<1> QED  BY <1>1, <1>2

\* The orders sent, the position and the votes keep their types.
LEMMA OrdersTyped == Spec => []OrdersOK
<1>1. Init => OrdersOK
  BY DEF Init, OrdersOK
<1>2. OrdersOK /\ [Next]_vars => OrdersOK'
  <2> SUFFICES ASSUME OrdersOK, [Next]_vars PROVE OrdersOK'
    OBVIOUS
  <2>1. CASE UNCHANGED vars
    BY <2>1 DEF OrdersOK, vars, market, position, votes
  <2>2. CASE Next
    <3>1. (book \in Int /\ flow \in Int)'
      <4>1. CASE \E t \in Threads : InSession(t)
        BY <4>1, SessionSteps
      <4>2. CASE ~ \E t \in Threads : InSession(t)
        BY <2>2, <4>2 DEF InSession, OrdersOK, Next, NextPhase, CoolDown, OnDailyBar,
             CheckExit, OnBookEvent, OnTradeEvent, OnOrderUpdate, votes
      <4> QED  BY <4>1, <4>2
    <3>2. CASE \E price \in FillPrices : OnOrderUpdate(price)
      <4>1. Head(orders) \in Order /\ Tail(orders) \in Seq(Order)
        BY <3>2 DEF OrdersOK, OnOrderUpdate
      <4> QED  BY <4>1, <3>1, <3>2 DEF OrdersOK, OnOrderUpdate, Order
    <3>3. CASE ~ \E price \in FillPrices : OnOrderUpdate(price)
      <4>1. pos' \in Int
        <5>1. CASE \E t \in Threads : InSession(t)
          BY <5>1, SessionSteps
        <5>2. CASE ~ \E t \in Threads : InSession(t)
          BY <2>2, <3>3, <5>2 DEF InSession, OrdersOK, Next, NextPhase, CoolDown,
               OnDailyBar, CheckExit, OnBookEvent, OnTradeEvent, position
        <5> QED  BY <5>1, <5>2
      <4>2. UNCHANGED market
              \/ \E o \in Order : orders' = Append(orders, o) /\ sent' = sent + 1
        <5>1. EntryQty \in Nat /\ Magnitude(pos) \in Nat
          BY StrategyAssumption DEF OrdersOK, EntryQty, Magnitude
        <5>2. CASE CheckExit
          BY <5>1, <5>2 DEF CheckExit, Submit, Order
        <5>3. ASSUME NEW b \in Int, NEW f \in Int, TryEnter(b, f)
              PROVE  UNCHANGED market
                       \/ \E o \in Order : orders' = Append(orders, o) /\ sent' = sent + 1
          <6> DEFINE o == [buy |-> b > 0, qty |-> EntryQty, close |-> FALSE]
          <6>1. o \in Order
            BY <5>1 DEF Order
          <6>2. UNCHANGED market \/ (orders' = Append(orders, o) /\ sent' = sent + 1)
            BY <5>3 DEF TryEnter, Submit, market
          <6> QED  BY <6>1, <6>2
        <5>4. CASE \E v \in -1..1 : OnBookEvent(v) \/ OnTradeEvent(v)
          <6>1. PICK b \in Int, f \in Int : TryEnter(b, f)
            BY <5>4 DEF OrdersOK, OnBookEvent, OnTradeEvent
          <6> QED  BY <6>1, <5>3
        <5>5. CASE ~ (CheckExit \/ \E v \in -1..1 : OnBookEvent(v) \/ OnTradeEvent(v))
          BY <2>2, <3>3, <5>5, SessionSteps DEF InSession, Next, NextPhase, CoolDown,
               OnDailyBar
        <5> QED  BY <5>2, <5>4, <5>5
      <4> QED  BY SMTT(30), <4>1, <4>2, <3>1 DEF OrdersOK, market
    <3> QED  BY <3>2, <3>3
  <2> QED  BY <2>1, <2>2
<1> QED  BY <1>1, <1>2, PTL DEF Spec

\* With base_qty = 1, as in main.cpp's make_symbol_configs(), an entry reaches the
\* exchange only while nr7_confirmed_ holds: half a contract is none.
THEOREM EntriesNeedNr7 == ASSUME BaseQty = 1 PROVE Spec => EntryOnlyOnNr7
<1>1. OrdersOK /\ [Next]_vars
        => [sent' > sent /\ ~ orders'[Len(orders')].close => nr7]_vars
  <2> SUFFICES ASSUME OrdersOK, Next, sent' > sent, ~ orders'[Len(orders')].close
               PROVE  nr7
    BY DEF OrdersOK, vars, market
  <2>1. PICK o \in [buy : BOOLEAN, qty : {Magnitude(pos)}, close : {TRUE}]
                  \cup [buy : BOOLEAN, qty : {EntryQty}, close : {FALSE}] :
          o.qty > 0 /\ orders' = Append(orders, o)
    <3>1. sent' # sent
      BY DEF OrdersOK
    <3> QED  BY <3>1, SendingSteps
  <2>2. orders'[Len(orders')] = o
    BY <2>1 DEF OrdersOK
  <2>3. o.qty = EntryQty
    BY <2>1, <2>2
  <2>4. EntryQty > 0
    BY <2>1, <2>3
  <2> QED  BY <2>4 DEF EntryQty
<1> QED  BY <1>1, OrdersTyped, PTL DEF Spec, EntryOnlyOnNr7

-----------------------------------------------------------------------------
(* NR7 *)

\* The slot of the bar k days before the latest one, when next is written next.
Slot(next, k) == IF k < next THEN next - 1 - k ELSE next - 1 - k + History

\* The remainder of a number below twice the size of the ring.
LEMMA Wraps ==
  ASSUME NEW x \in 0..(2 * History - 1)
  PROVE  x % History = IF x < History THEN x ELSE x - History
<1>1. History \in Nat \ {0}
  BY StrategyAssumption
<1> QED  BY <1>1

\* The index arithmetic of daily_ranges_ finds it.
LEMMA RingArithmetic ==
  ASSUME NEW next \in 0..(History - 1), NEW k \in 0..(History - 1)
  PROVE  (next - 1 - k + History) % History = Slot(next, k)
<1> DEFINE x == next - 1 - k + History
<1>1. History \in Nat \ {0}
  BY StrategyAssumption
<1>2. x \in 0..(2 * History - 1) /\ (k < next <=> x >= History)
  BY <1>1
<1>3. x \in Int /\ Slot(next, k) = IF k < next THEN x - History ELSE x
  BY <1>1 DEF Slot
<1> HIDE DEF x
<1>4. x % History = IF x < History THEN x ELSE x - History
  BY <1>2, Wraps
<1>5. x % History = Slot(next, k)
  BY <1>1, <1>2, <1>3, <1>4
<1> QED  BY <1>5 DEF x

\* daily_idx_ moves on by one.
LEMMA RingNext ==
  ASSUME NEW next \in 0..(History - 1)
  PROVE  (next + 1) % History = IF next + 1 = History THEN 0 ELSE next + 1
<1>1. History \in Nat \ {0}
  BY StrategyAssumption
<1> QED  BY <1>1

\* The ring holds the latest History ranges, the k-th before the last in the k-th
\* slot before the next one, and nr7_confirmed_ says what they say.
RingInv ==
  /\ daily \in Seq(Ranges) /\ ranges \in [0..(History - 1) -> Nat]
  /\ idx \in 0..(History - 1)
  /\ count = IF Len(daily) < History THEN Len(daily) ELSE History
  /\ \A k \in 0..(count - 1) : ranges[Slot(idx, k)] = daily[Len(daily) - k]
  /\ Nr7IsNarrowest

\* The ring begins empty.
LEMMA RingInit == Init => RingInv
<1> SUFFICES ASSUME Init PROVE RingInv
  OBVIOUS
<1>1. History \in Nat \ {0} /\ Nr7Period \in Nat \ {0}
  BY StrategyAssumption
<1>2. /\ ranges = [i \in 0..(History - 1) |-> 0] /\ idx = 0 /\ count = 0
      /\ ~ nr7 /\ daily = <<>>
  BY DEF Init
<1>3. daily \in Seq(Ranges) /\ Len(daily) = 0
  BY <1>2
<1>4. Nr7IsNarrowest
  BY <1>1, <1>2, <1>3 DEF Nr7IsNarrowest
<1> QED  BY <1>1, <1>2, <1>3, <1>4 DEF RingInv

\* A daily bar takes the oldest one's slot.
LEMMA RingGrows ==
  ASSUME RingInv, NEW range \in Ranges, OnDailyBar(range)
  PROVE  RingInv'
<1> DEFINE n == Len(daily)
           H == History
<1>1. /\ H \in Nat \ {0} /\ Nr7Period \in 1..H /\ range \in Nat
  BY StrategyAssumption
<1>2. /\ daily \in Seq(Ranges) /\ ranges \in [0..(H - 1) -> Nat] /\ idx \in 0..(H - 1)
      /\ count = IF n < H THEN n ELSE H
      /\ \A k \in 0..(count - 1) : ranges[Slot(idx, k)] = daily[n - k]
      /\ n \in Nat
  BY DEF RingInv
<1>3. /\ ranges' = [ranges EXCEPT ![idx] = range] /\ idx' = (idx + 1) % H
      /\ count' = IF count < H THEN count + 1 ELSE count
      /\ nr7' = Nr7(ranges', idx', count')
      /\ daily' = Append(daily, range)
  BY DEF OnDailyBar
<1>4. /\ daily' \in Seq(Ranges) /\ Len(daily') = n + 1 /\ daily'[n + 1] = range
      /\ \A i \in 1..n : daily'[i] = daily[i]
  BY <1>2, <1>3
<1>5. idx' = (IF idx + 1 = H THEN 0 ELSE idx + 1) /\ idx' \in 0..(H - 1)
  <2>1. (idx + 1) % H = IF idx + 1 = H THEN 0 ELSE idx + 1
    BY <1>2, RingNext
  <2> QED  BY <1>1, <1>2, <1>3, <2>1
<1>6. ranges' \in [0..(H - 1) -> Nat]
  BY <1>1, <1>2, <1>3
<1>7. count' = (IF n + 1 < H THEN n + 1 ELSE H) /\ count' \in 1..H /\ count' <= n + 1
  BY <1>1, <1>2, <1>3
<1>8. ASSUME NEW k \in 0..(count' - 1) PROVE ranges'[Slot(idx', k)] = daily'[n + 1 - k]
  <2>0. k \in 0..(H - 1) /\ k <= n
    BY <1>1, <1>2, <1>7
  <2>1. CASE k = 0
    <3>1. Slot(idx', k) = idx
      BY <1>1, <1>2, <1>5, <2>1 DEF Slot
    <3> QED  BY <1>2, <1>3, <1>4, <2>1, <3>1
  <2>2. CASE k > 0
    <3>1. k - 1 \in 0..(count - 1) /\ n + 1 - k \in 1..n /\ n - (k - 1) = n + 1 - k
      BY <1>1, <1>2, <1>7, <2>0, <2>2
    <3>2. Slot(idx', k) = Slot(idx, k - 1) /\ Slot(idx, k - 1) # idx
      BY <1>1, <1>2, <1>5, <2>0, <2>2 DEF Slot
    <3>3. Slot(idx, k - 1) \in 0..(H - 1)
      BY <1>1, <1>2, <2>0, <2>2 DEF Slot
    <3>4. ranges'[Slot(idx', k)] = ranges[Slot(idx, k - 1)]
      BY <1>2, <1>3, <3>2, <3>3
    <3>5. ranges[Slot(idx, k - 1)] = daily[n + 1 - k]
      BY <1>2, <3>1
    <3> QED  BY <1>4, <3>1, <3>4, <3>5
  <2> QED  BY <2>0, <2>1, <2>2
<1>9. Nr7IsNarrowest'
  <2> DEFINE At(i) == ranges'[(idx' - 1 - i + H) % H]
  <2>1. nr7' <=> count' >= Nr7Period /\ \A i \in 1..(Nr7Period - 1) : At(i) > At(0)
    BY <1>3 DEF Nr7
  <2>2. count' >= Nr7Period <=> n + 1 >= Nr7Period
    BY <1>1, <1>2, <1>7
  <2>3. ASSUME n + 1 >= Nr7Period, NEW i \in 0..(Nr7Period - 1)
        PROVE  At(i) = daily'[n + 1 - i]
    <3>1. i \in 0..(H - 1) /\ i \in 0..(count' - 1)
      BY <1>1, <1>2, <1>7, <2>3
    <3>2. (idx' - 1 - i + H) % H = Slot(idx', i)
      BY <1>5, <3>1, RingArithmetic
    <3> QED  BY <1>8, <3>1, <3>2
  <2> HIDE DEF At
  <2>4. ASSUME n + 1 >= Nr7Period
        PROVE  (\A i \in 1..(Nr7Period - 1) : At(i) > At(0))
                 <=> \A k \in (n + 1 - Nr7Period + 1)..n : daily'[k] > daily'[n + 1]
    <3>1. At(0) = daily'[n + 1] /\ \A i \in 1..(Nr7Period - 1) : At(i) = daily'[n + 1 - i]
      BY <1>1, <1>2, <2>3, <2>4
    <3>2. ASSUME NEW k \in (n + 1 - Nr7Period + 1)..n
          PROVE  n + 1 - k \in 1..(Nr7Period - 1) /\ n + 1 - (n + 1 - k) = k
      BY <1>1, <1>2
    <3>3. ASSUME NEW i \in 1..(Nr7Period - 1)
          PROVE  n + 1 - i \in (n + 1 - Nr7Period + 1)..n
      BY <1>1, <1>2
    <3>4. ASSUME \A i \in 1..(Nr7Period - 1) : At(i) > At(0),
                 NEW k \in (n + 1 - Nr7Period + 1)..n
          PROVE  daily'[k] > daily'[n + 1]
      <4>1. At(n + 1 - k) > At(0) /\ At(n + 1 - k) = daily'[n + 1 - (n + 1 - k)]
        BY <3>1, <3>2, <3>4
      <4> QED  BY <3>1, <3>2, <4>1
    <3>5. ASSUME \A k \in (n + 1 - Nr7Period + 1)..n : daily'[k] > daily'[n + 1],
                 NEW i \in 1..(Nr7Period - 1)
          PROVE  At(i) > At(0)
      BY <3>1, <3>3, <3>5
    <3> QED  BY <3>4, <3>5
  <2> DEFINE Least(m, l, h) == m >= Nr7Period /\ \A k \in l..h : daily'[k] > daily'[m]
  <2>5. nr7' <=> Least(n + 1, n + 1 - Nr7Period + 1, n)
    BY <2>1, <2>2, <2>4, Zenon
  <2>6. Nr7IsNarrowest' <=>
          (nr7' <=> Least(Len(daily'), Len(daily') - Nr7Period + 1, Len(daily') - 1))
    BY Zenon DEF Nr7IsNarrowest
  <2> HIDE DEF Least
  <2>7. Least(Len(daily'), Len(daily') - Nr7Period + 1, Len(daily') - 1)
          = Least(n + 1, n + 1 - Nr7Period + 1, n)
    <3>1. /\ Len(daily') = n + 1 /\ Len(daily') - 1 = n
          /\ Len(daily') - Nr7Period + 1 = n + 1 - Nr7Period + 1
      <4>1. Len(daily') = n + 1 /\ n \in Nat /\ Nr7Period \in Nat
        BY <1>1, <1>2, <1>4
      <4> HIDE DEF n
      <4> QED  BY <4>1
    <3> HIDE DEF n
    <3> QED  BY <3>1, Zenon
  <2> QED  BY <2>5, <2>6, <2>7, Zenon
<1> QED  BY <1>4, <1>5, <1>6, <1>7, <1>8, <1>9 DEF RingInv

\* session_context.hpp:96 -- however often daily_ranges_ has wrapped, nr7_confirmed_ says
\* that the latest daily range is narrower than each of the Nr7Period - 1 before it: for
\* every size of the ring and every period that fits into it.
THEOREM Nr7Correct == Spec => []Nr7IsNarrowest
<1>1. RingInv /\ [Next]_vars => RingInv'
  <2> SUFFICES ASSUME RingInv, [Next]_vars PROVE RingInv'
    OBVIOUS
  <2>1. CASE UNCHANGED dailyCtx
    BY <2>1 DEF dailyCtx, RingInv, Nr7IsNarrowest
  <2>2. ASSUME NEW r \in Ranges, OnDailyBar(r) PROVE RingInv'
    BY <2>2, RingGrows
  <2>3. UNCHANGED dailyCtx \/ \E r \in Ranges : OnDailyBar(r)
    BY DEF Next, NextPhase, CoolDown, Arrives, SessionCheck, SetOpened, Reset, SessionTest,
         WidenOrb, FinalizeTest, FinalizeSet, FinalizeBias, CheckExit, OnBookEvent,
         OnTradeEvent, OnOrderUpdate, vars
  <2> QED  BY <2>1, <2>2, <2>3
<1>2. RingInv => Nr7IsNarrowest
  BY DEF RingInv
<1> QED  BY <1>1, <1>2, RingInit, PTL DEF Spec
=============================================================================
