-------------------------- MODULE StreamLoopProofs --------------------------
(***************************************************************************)
(* Proofs about StreamLoop, for every selection of kinds and every delay:  *)
(* each loop implements StreamThread, the order stream is opened at most   *)
(* once while the exchange is maintained, and the waits get longer.        *)
(***************************************************************************)
EXTENDS StreamLoop, WellFoundedInduction, TLAPS

\* Where a thread can be that has taken a message after the stop flag was set: in its
\* callbacks or on its way out, past every Read().  The renewal stream makes none.
LateInv ==
  /\ kind \in Kinds /\ stop \in BOOLEAN /\ late \in {0, 1}
  /\ ~ stop => late = 0
  /\ late = 1 => kind # "jwt" /\ pc \in {"deliver", "callback", "check", "finish", "top", "done"}

\* A new thread has taken no message.
LEMMA LateInit == Init => LateInv
<1>1. Init => kind \in Kinds /\ stop \in BOOLEAN
  BY DEF Init
<1>2. Init => late = 0
  BY DEF Init
<1> QED  BY <1>1, <1>2 DEF LateInv

\* Only ReadMessage counts a message, and after the stop flag no second Read() is
\* begun: the test before it sends the thread out of the loop.
LEMMA LateStep == LateInv /\ [Next]_vars => LateInv'
<1> SUFFICES ASSUME LateInv, [Next]_vars PROVE LateInv'
  OBVIOUS
<1> USE DEF LateInv, message
<1>1. CASE Top
  BY <1>1 DEF Top
<1>2. CASE WaitIfActive
  BY <1>2 DEF WaitIfActive
<1>3. CASE NapEnds
  BY <1>3 DEF NapEnds
<1>4. CASE Subscribe
  BY <1>4 DEF Subscribe
<1>5. CASE Check
  BY <1>5 DEF Check, Leave
<1>6. CASE ReadEnds
  BY <1>6 DEF ReadEnds, Leave
<1>7. CASE Deliver \/ CallbackReturns \/ Delivered
  BY <1>7 DEF Deliver, CallbackReturns, Delivered, message
<1>8. CASE Finish
  BY <1>8 DEF Finish
<1>9. CASE WaitStopped
  BY <1>9 DEF WaitStopped
<1>10. CASE WaitEnds
  BY <1>10 DEF WaitEnds
<1>11. CASE ReadMessage
  BY <1>11 DEF ReadMessage
<1>12. CASE ReadError
  BY <1>12 DEF ReadError
<1>13. ASSUME NEW token \in 0..MaxToken, ReadToken(token) PROVE LateInv'
  BY <1>13 DEF ReadToken
<1>14. CASE SetStop
  BY <1>14 DEF SetStop
<1>15. CASE ServerEnds \/ ClockMoves \/ IssueToken \/ UNCHANGED vars
  BY <1>15 DEF ServerEnds, ClockMoves, IssueToken, vars
<1> QED
  BY <1>1, <1>2, <1>3, <1>4, <1>5, <1>6, <1>7, <1>8, <1>9, <1>10, <1>11, <1>12, <1>13,
     <1>14, <1>15 DEF Next, Thread

-----------------------------------------------------------------------------
(* Refinement *)

\* A step that stays outside the callback and does not end the thread is a stutter.
LEMMA StepKeepsPromise == LateInv /\ [Next]_vars => [Promise!Next]_(Promise!vars)
<1> SUFFICES ASSUME LateInv, [Next]_vars PROVE [Promise!Next]_(Promise!vars)
  OBVIOUS
<1> USE DEF Doing, message, Promise!vars, Promise!Next
<1>1. CASE Top
  BY <1>1 DEF Top, Promise!End
<1>2. CASE WaitIfActive
  BY <1>2 DEF WaitIfActive, Promise!End
<1>3. CASE NapEnds
  BY <1>3 DEF NapEnds, Promise!End
<1>4. CASE Subscribe
  BY <1>4 DEF Subscribe
<1>5. CASE Check
  BY <1>5 DEF Check, Leave, Promise!End
<1>6. CASE ReadEnds
  BY <1>6 DEF ReadEnds, Leave, Promise!End
<1>7. CASE Deliver \/ CallbackReturns \/ Delivered
  BY <1>7 DEF Deliver, CallbackReturns, Delivered, Promise!Call, Promise!Return,
       Promise!Release
<1>8. CASE Finish
  BY <1>8 DEF Finish, Promise!End
<1>9. CASE WaitStopped
  BY <1>9 DEF WaitStopped, Promise!End
<1>10. CASE WaitEnds
  BY <1>10 DEF WaitEnds
<1>11. CASE ReadMessage
  BY <1>11 DEF ReadMessage, LateInv, Promise!Take
<1>12. CASE ReadError
  BY <1>12 DEF ReadError
<1>13. ASSUME NEW token \in 0..MaxToken, ReadToken(token)
       PROVE [Promise!Next]_(Promise!vars)
  BY <1>13 DEF ReadToken
<1>14. CASE SetStop
  BY <1>14 DEF SetStop, Promise!Tell
<1>15. CASE ServerEnds \/ ClockMoves \/ IssueToken \/ UNCHANGED vars
  BY <1>15 DEF ServerEnds, ClockMoves, IssueToken, vars
<1> QED
  BY <1>1, <1>2, <1>3, <1>4, <1>5, <1>6, <1>7, <1>8, <1>9, <1>10, <1>11, <1>12, <1>13,
     <1>14, <1>15 DEF Next, Thread

\* order_client.cpp:272, market_data_client.cpp:150-400, token_manager.cpp:121 -- every
\* loop implements StreamThread: its thread ends only when told to, and after that calls
\* back only for the items of one message.  Lifecycle relies on no more than this.
THEOREM LoopKeepsPromise == Spec => KeepsPromise
<1>1. Init => Promise!Init
  BY DEF Init, Promise!Init, Doing
<1> QED
  BY <1>1, LateInit, LateStep, StepKeepsPromise, PTL DEF Spec, KeepsPromise, Promise!Spec

-----------------------------------------------------------------------------
(* Maintenance *)

\* Outside the window nothing is counted; a thread about to subscribe has looked at
\* the clock outside it, so that nothing has been counted in the present window.
WindowInv ==
  /\ tries \in Nat
  /\ kind = "order" =>
       /\ tries <= 1
       /\ ~ active => tries = 0
       /\ pc = "subscribe" => tries = 0

\* order_client.cpp:276 -- however the clock moves between wait_if_active() and the
\* call, the order stream is opened at most once in a maintenance window.
THEOREM AtMostOneTry == Spec => []OneTryInWindow
<1>1. Init => WindowInv
  BY DEF Init, WindowInv
<1>2. WindowInv /\ [Next]_vars => WindowInv'
  <2> SUFFICES ASSUME WindowInv, [Next]_vars PROVE WindowInv'
    OBVIOUS
  <2> USE DEF WindowInv, clock
  <2>1. CASE Top
    BY <2>1 DEF Top
  <2>2. CASE WaitIfActive
    BY <2>2 DEF WaitIfActive
  <2>3. CASE NapEnds
    BY <2>3 DEF NapEnds
  <2>4. CASE Subscribe
    BY <2>4 DEF Subscribe
  <2>5. CASE Check \/ ReadEnds
    BY <2>5 DEF Check, ReadEnds, Leave
  <2>6. CASE Deliver \/ CallbackReturns \/ Delivered
    BY <2>6 DEF Deliver, CallbackReturns, Delivered
  <2>7. CASE Finish
    BY <2>7 DEF Finish
  <2>8. CASE WaitStopped \/ WaitEnds
    BY <2>8 DEF WaitStopped, WaitEnds
  <2>9. CASE ReadMessage \/ ReadError
    BY <2>9 DEF ReadMessage, ReadError
  <2>10. ASSUME NEW token \in 0..MaxToken, ReadToken(token) PROVE WindowInv'
    BY <2>10 DEF ReadToken
  <2>11. CASE ClockMoves
    BY <2>11 DEF ClockMoves
  <2>12. CASE SetStop \/ ServerEnds \/ IssueToken \/ UNCHANGED vars
    BY <2>12 DEF SetStop, ServerEnds, IssueToken, vars
  <2> QED
    BY <2>1, <2>2, <2>3, <2>4, <2>5, <2>6, <2>7, <2>8, <2>9, <2>10, <2>11, <2>12
       DEF Next, Thread
<1>3. WindowInv => OneTryInWindow
  BY DEF WindowInv, OneTryInWindow
<1> QED
  BY <1>1, <1>2, <1>3, PTL DEF Spec

-----------------------------------------------------------------------------
(* Delays *)

\* Every nonempty set of natural numbers has a least element: what the proofs by
\* induction on an exponent use.
LEMMA LeastExponent == \A T \in SUBSET Nat : T # {} => \E n \in T : \A m \in T : n <= m
<1> DEFINE R == OpToRel(<, Nat)
<1>1. IsWellFoundedOn(R, Nat)
  BY NatLessThanWellFounded
<1>2. \A x, y \in Nat : x < y => <<x, y>> \in R
  BY DEF OpToRel
<1> HIDE DEF R
<1> SUFFICES ASSUME NEW T \in SUBSET Nat, T # {} PROVE \E n \in T : \A m \in T : n <= m
  OBVIOUS
<1>3. PICK n \in T : \A m \in T : ~ (<<m, n>> \in R)
  BY <1>1, WFMin
<1>4. ASSUME NEW m \in T PROVE n <= m
  <2>1. n \in Nat /\ m \in Nat /\ ~ (m < n)
    BY <1>2, <1>3
  <2> QED  BY <2>1
<1> QED  BY <1>4

\* The doublings up to an exponent.
Doubles(g, n) ==
  g \in [0..n -> Nat \ {0}] /\ g[0] = 1 /\ \A k \in 1..n : g[k] = 2 * g[k - 1]

\* There is a table of the powers up to any exponent.
LEMMA TableExists == \A n \in Nat : \E g : Doubles(g, n)
<1> SUFFICES ASSUME NEW bad \in Nat, ~ \E g : Doubles(g, bad) PROVE FALSE
  OBVIOUS
<1> DEFINE T == {n \in Nat : ~ \E g : Doubles(g, n)}
<1>1. PICK n \in T : \A m \in T : n <= m
  BY LeastExponent
<1>2. n # 0
  <2>1. Doubles([k \in 0..0 |-> 1], 0)
    BY DEF Doubles
  <2> QED  BY <2>1
<1>3. n - 1 \in Nat /\ n - 1 \notin T
  BY <1>1, <1>2
<1>4. PICK g : Doubles(g, n - 1)
  BY <1>3
<1> DEFINE h == [k \in 0..n |-> IF k < n THEN g[k] ELSE 2 * g[n - 1]]
<1>5. h \in [0..n -> Nat \ {0}] /\ h[0] = 1
  BY <1>2, <1>3, <1>4 DEF Doubles
<1>6. ASSUME NEW k \in 1..n PROVE h[k] = 2 * h[k - 1]
  <2>1. CASE k < n
    <3>1. k \in 1..(n - 1) /\ k \in 0..n /\ k - 1 \in 0..n /\ k - 1 < n
      BY <2>1, <1>3
    <3>2. h[k] = g[k] /\ h[k - 1] = g[k - 1]
      BY <2>1, <3>1
    <3> QED  BY <3>1, <3>2, <1>4 DEF Doubles
  <2>2. CASE k = n
    <3>1. n \in 0..n /\ n - 1 \in 0..n /\ n - 1 < n /\ ~ (n < n)
      BY <1>3
    <3>2. h[n] = 2 * g[n - 1] /\ h[n - 1] = g[n - 1]
      BY <3>1
    <3> QED  BY <2>2, <3>2
  <2> QED  BY <2>1, <2>2
<1>7. Doubles(h, n)
  <2> HIDE DEF h
  <2> QED  BY <1>5, <1>6 DEF Doubles
<1> QED  BY <1>7

\* What 1LL << n is: it begins at 1 and doubles.
LEMMA ShiftDoubles == Doubles(Shl, Shift)
<1> DEFINE Solves(g) == g = [n \in 0..Shift |-> IF n = 0 THEN 1 ELSE 2 * g[n - 1]]
<1>0. Shift \in Nat
  BY LoopAssumption
<1>1. PICK f : Doubles(f, Shift)
  BY <1>0, TableExists
<1>2. Solves(f)
  <2>1. \A n \in 0..Shift : f[n] = IF n = 0 THEN 1 ELSE 2 * f[n - 1]
    BY <1>0, <1>1 DEF Doubles
  <2>2. f = [n \in 0..Shift |-> f[n]]
    BY <1>1 DEF Doubles
  <2> QED  BY <2>1, <2>2
<1>3. Shl = CHOOSE g : Solves(g)
  BY DEF Shl
<1>4. Solves(Shl)
  <2> HIDE DEF Solves
  <2> QED  BY <1>2, <1>3, Zenon
<1>5. \A n \in 0..Shift : Shl[n] = IF n = 0 THEN 1 ELSE 2 * Shl[n - 1]
  BY <1>4
<1>6. ASSUME NEW bad \in 0..Shift, Shl[bad] # f[bad] PROVE FALSE
  <2> DEFINE T == {n \in Nat : n <= Shift /\ Shl[n] # f[n]}
  <2>1. T \in SUBSET Nat /\ bad \in T
    BY <1>0, <1>6
  <2>2. PICK n \in T : \A m \in T : n <= m
    BY <2>1, LeastExponent
  <2>3. n # 0
    BY <1>0, <1>5, <1>1 DEF Doubles
  <2>4. n - 1 \in Nat /\ n - 1 \notin T /\ n \in 1..Shift /\ n \in 0..Shift
    BY <1>0, <2>2, <2>3
  <2>5. Shl[n - 1] = f[n - 1]
    <3>1. n - 1 <= Shift
      BY <1>0, <2>4
    <3> QED  BY <2>4, <3>1
  <2> QED  BY <1>1, <1>5, <2>3, <2>4, <2>5 DEF Doubles
<1>7. Shl = [n \in 0..Shift |-> Shl[n]]
  <2>1. Shl = [n \in 0..Shift |-> IF n = 0 THEN 1 ELSE 2 * Shl[n - 1]]
    BY <1>4
  <2> QED  BY <2>1, <1>5
<1>8. f = [n \in 0..Shift |-> f[n]]
  BY <1>1 DEF Doubles
<1>9. Shl = f
  BY <1>6, <1>7, <1>8
<1> QED  BY <1>1, <1>9

\* The delays of one attempt, and of the next one while the cap is out of reach.
LEMMA DelayTypes ==
  ASSUME NEW a \in 0..Shift
  PROVE  /\ Shl[a] \in Nat \ {0}
         /\ Capped(a) = Least(Base * Shl[a], Cap) /\ Capped(a) \in Nat
         /\ Shortest(a) \in Nat /\ Longest(a) \in Nat
         /\ Shortest(a) <= Longest(a) /\ Longest(a) <= (Cap * (100 + Jitter)) \div 100
<1>0. /\ Base \in Nat \ {0} /\ Cap \in Nat /\ Shift \in Nat /\ Jitter \in Nat /\ Jitter <= 100
  BY LoopAssumption
<1>1. Shl[a] \in Nat \ {0}
  BY ShiftDoubles, <1>0 DEF Doubles
<1>2. Least(a, Shift) = a
  BY <1>0 DEF Least
<1>3. Capped(a) = Least(Base * Shl[a], Cap)
  BY <1>2 DEF Capped
<1>4. Base * Shl[a] \in Nat
  BY <1>0, <1>1
<1>5. Capped(a) \in Nat /\ Capped(a) <= Cap
  BY <1>0, <1>3, <1>4 DEF Least
<1> DEFINE c == Capped(a)
           lo == c * (100 - Jitter)
           hi == c * (100 + Jitter)
           top == Cap * (100 + Jitter)
<1>6. /\ 100 - Jitter \in Nat /\ 100 + Jitter \in Nat
      /\ 100 - Jitter <= 100 + Jitter
  BY <1>0
<1>7. ASSUME NEW x \in Nat, NEW y \in Nat, NEW z \in Nat, y <= z
      PROVE  x * y \in Nat /\ x * z \in Nat /\ x * y <= x * z /\ y * x <= z * x
  BY <1>7
<1>8. lo \in Nat /\ hi \in Nat /\ top \in Nat /\ lo <= hi /\ hi <= top
  <2> HIDE DEF c
  <2>1. c \in Nat /\ c <= Cap
    BY <1>5 DEF c
  <2> QED  BY <1>0, <1>6, <1>7, <2>1
<1>9. Shortest(a) = lo \div 100 /\ Longest(a) = hi \div 100
  BY DEF Shortest, Longest
<1> HIDE DEF lo, hi, top
<1>10. /\ lo \div 100 \in Nat /\ hi \div 100 \in Nat
       /\ lo \div 100 <= hi \div 100 /\ hi \div 100 <= top \div 100
  BY <1>8
<1> QED  BY <1>1, <1>3, <1>5, <1>9, <1>10 DEF top

\* What the numbers of BackoffConfig (500 ms, 30 s, 6, 25 percent) satisfy: doubling
\* is more than the jitter of both delays, and the cut of the exponent comes after
\* the cap.
WideSteps == Base * (100 - 3 * Jitter) >= 100 /\ Cap <= Base * Shl[Shift]

\* With such numbers the longest delay is shorter than the shortest of the next
\* attempt, until the cap is reached.
LEMMA NextIsLonger ==
  ASSUME WideSteps, NEW a \in 0..Shift, Capped(a) < Cap
  PROVE  /\ a < Shift
         /\ a > 0 => Longest(a - 1) < Shortest(a) /\ Capped(a - 1) < Cap
<1>0. /\ Base \in Nat \ {0} /\ Cap \in Nat /\ Shift \in Nat /\ Jitter \in Nat /\ Jitter <= 100
  BY LoopAssumption
<1>1. Capped(a) = Base * Shl[a]
  <2>1. Base * Shl[a] \in Nat
    BY <1>0, DelayTypes
  <2> QED  BY <1>0, <2>1, DelayTypes DEF Least
<1>2. a < Shift
  <2>1. ASSUME a = Shift PROVE FALSE
    <3>1. Capped(a) = Base * Shl[Shift] /\ Capped(a) \in Nat
      BY <1>1, <2>1, DelayTypes
    <3>2. Cap <= Capped(a)
      BY <3>1 DEF WideSteps
    <3> QED  BY <1>0, <3>1, <3>2
  <2> QED  BY <1>0, <2>1
<1>3. ASSUME a > 0 PROVE Longest(a - 1) < Shortest(a) /\ Capped(a - 1) < Cap
  <2>1. a - 1 \in 0..Shift /\ a \in 1..Shift
    BY <1>0, <1>3
  <2>2. Shl[a] = 2 * Shl[a - 1]
    BY <2>1, ShiftDoubles DEF Doubles
  <2>3. Shl[a - 1] \in Nat \ {0} /\ Capped(a - 1) = Least(Base * Shl[a - 1], Cap)
    BY <2>1, DelayTypes
  <2> DEFINE d == Shl[a - 1]
             c == Base * d
             lo == (2 * c) * (100 - Jitter)
             hi == c * (100 + Jitter)
  <2>4. d \in Nat \ {0}
    BY <2>3
  <2> HIDE DEF d
  <2>5. c \in Nat /\ c >= Base
    BY <1>0, <2>4
  <2>6. Capped(a) = 2 * c
    <3>1. Capped(a) = Base * (2 * d)
      BY <1>1, <2>2 DEF d
    <3> QED  BY <3>1, <1>0, <2>4
  <2> HIDE DEF c
  <2>7. Capped(a - 1) = Least(c, Cap)
    BY <2>3 DEF c, d
  <2>8. Capped(a - 1) = c /\ c < Cap
    BY <2>5, <2>6, <2>7, <1>0 DEF Least
  <2>9. c * (100 - 3 * Jitter) >= 100
    <3>1. 100 - 3 * Jitter > 0
      BY <1>0 DEF WideSteps
    <3>2. ASSUME NEW k \in Nat, NEW b \in Nat, b * k >= 100, c >= b PROVE c * k >= 100
      <4>1. c * k >= b * k
        BY <2>5, <3>2
      <4> QED  BY <4>1, <3>2, <2>5
    <3> QED  BY <1>0, <2>5, <3>1, <3>2 DEF WideSteps
  <2>10. lo = hi + c * (100 - 3 * Jitter)
    BY <1>0, <2>5
  <2>11. lo \in Nat /\ hi \in Nat /\ lo >= hi + 100
    <3>1. hi \in Nat
      BY <1>0, <2>5
    <3>2. c * (100 - 3 * Jitter) \in Int
      BY <1>0, <2>5
    <3> QED  BY <2>9, <2>10, <3>1, <3>2
  <2>12. Shortest(a) = lo \div 100 /\ Longest(a - 1) = hi \div 100
    BY <2>6, <2>8 DEF Shortest, Longest
  <2> HIDE DEF lo, hi
  <2>13. hi \div 100 < lo \div 100
    BY <2>11
  <2> QED  BY <2>8, <2>12, <2>13
<1> QED  BY <1>2, <1>3

\* Which attempt a delay belongs to.  While the thread waits it is the present one's
\* and longer than the last; afterwards, until the next wait, the previous one's.
\* Nothing is said once the cap is reached, nor of the renewal stream, which does not
\* use the backoff.
DelayInv ==
  /\ kind \in Kinds /\ attempt \in 0..Shift /\ delay \in Nat /\ last \in Nat
  /\ delay <= (Cap * (100 + Jitter)) \div 100
  /\ kind # "jwt" /\ Capped(attempt) < Cap =>
       /\ pc = "wait" => delay <= Longest(attempt) /\ (last > 0 => delay > last)
       /\ pc \notin {"wait", "done"} /\ delay > 0 =>
            attempt > 0 /\ delay <= Longest(attempt - 1)

\* A new thread waits for nothing.
LEMMA DelayInit == Init => DelayInv
<1> SUFFICES ASSUME Init PROVE DelayInv
  OBVIOUS
<1>1. Cap \in Nat /\ Shift \in Nat /\ Jitter \in Nat
  BY LoopAssumption
<1>2. 0 <= (Cap * (100 + Jitter)) \div 100
  <2>1. \A x \in Nat : 0 <= x \div 100
    OBVIOUS
  <2>2. Cap * (100 + Jitter) \in Nat
    BY <1>1
  <2> QED  BY <2>1, <2>2
<1>3. kind \in Kinds /\ pc = "top" /\ attempt = 0 /\ delay = 0 /\ last = 0
  BY DEF Init
<1> QED  BY <1>1, <1>2, <1>3 DEF DelayInv

\* A step that neither waits nor ends a wait leaves the delays as they are.
LEMMA DelayKept ==
  ASSUME DelayInv, kind' = kind, attempt' = attempt, delay' = delay, last' = last,
         pc' = pc \/ (pc # "wait" /\ pc # "done" /\ pc' # "wait") \/ pc' = "done"
  PROVE  DelayInv'
<1>1. Capped(attempt)' = Capped(attempt) /\ Longest(attempt)' = Longest(attempt)
  BY DEF Capped, Longest
<1>2. Longest(attempt - 1)' = Longest(attempt - 1)
  BY DEF Capped, Longest
<1> HIDE DEF Capped, Longest
<1> QED  BY <1>1, <1>2 DEF DelayInv

\* bo.wait() ends: what was this attempt's delay is now the previous one's.
LEMMA DelayAges == WideSteps /\ DelayInv /\ WaitEnds => DelayInv'
<1> SUFFICES ASSUME WideSteps, DelayInv, WaitEnds PROVE DelayInv'
  OBVIOUS
<1>0. Shift \in Nat /\ Cap \in Nat
  BY LoopAssumption
<1>1. /\ pc = "wait" /\ pc' = "top" /\ kind' = kind /\ delay' = delay /\ last' = last
      /\ attempt' = IF kind = "jwt" THEN attempt ELSE Least(attempt + 1, Shift)
  BY DEF WaitEnds
<1>2. /\ kind \in Kinds /\ attempt \in 0..Shift /\ delay \in Nat /\ last \in Nat
      /\ delay <= (Cap * (100 + Jitter)) \div 100
  BY DEF DelayInv
<1>3. attempt' \in 0..Shift
  BY <1>0, <1>1, <1>2 DEF Least
<1>4. ASSUME kind # "jwt", Capped(attempt') < Cap
      PROVE  attempt' > 0 /\ delay <= Longest(attempt' - 1)
  <2>1. attempt' < Shift
    BY <1>3, <1>4, NextIsLonger
  <2>2. attempt' = attempt + 1
    BY <1>0, <1>1, <1>2, <1>4, <2>1 DEF Least
  <2>3. Capped(attempt' - 1) < Cap
    BY <1>2, <1>3, <1>4, <2>2, NextIsLonger
  <2>4. attempt' - 1 = attempt
    BY <1>2, <2>2
  <2>5. delay <= Longest(attempt)
    BY <1>1, <1>4, <2>3, <2>4 DEF DelayInv
  <2> QED  BY <1>2, <2>2, <2>4, <2>5
<1> QED  BY <1>1, <1>2, <1>3, <1>4 DEF DelayInv

\* A new wait: its delay is longer than the last one, whatever the jitter of both.
LEMMA DelayGrows == WideSteps /\ DelayInv /\ Finish => DelayInv'
<1> SUFFICES ASSUME WideSteps, DelayInv, Finish PROVE DelayInv'
  OBVIOUS
<1>0. Shift \in Nat /\ Cap \in Nat
  BY LoopAssumption
<1>1. pc = "finish" /\ kind' = kind /\ attempt' = attempt
  BY DEF Finish
<1>2. CASE pc' # "wait" /\ delay' = delay /\ last' = last
  BY <1>1, <1>2, DelayKept
<1>3. CASE kind = "jwt" /\ delay' = delay /\ last' = last
  BY <1>1, <1>3 DEF DelayInv
<1>4. CASE /\ kind # "jwt" /\ pc' = "wait" /\ last' = delay
           /\ delay' \in {Shortest(attempt), Longest(attempt)}
  <2>1. /\ kind \in Kinds /\ attempt \in 0..Shift /\ delay \in Nat
    BY DEF DelayInv
  <2>2. /\ Shortest(attempt) \in Nat /\ Longest(attempt) \in Nat
        /\ Shortest(attempt) <= Longest(attempt)
        /\ Longest(attempt) <= (Cap * (100 + Jitter)) \div 100
        /\ (Cap * (100 + Jitter)) \div 100 \in Int
    <3>1. (Cap * (100 + Jitter)) \div 100 \in Int
      <4>1. Cap * (100 + Jitter) \in Nat
        BY LoopAssumption
      <4>2. \A x \in Nat : x \div 100 \in Int
        OBVIOUS
      <4> QED  BY <4>1, <4>2
    <3> QED  BY <2>1, <3>1, DelayTypes
  <2>3. /\ delay' \in Nat /\ Shortest(attempt) <= delay' /\ delay' <= Longest(attempt)
        /\ delay' <= (Cap * (100 + Jitter)) \div 100
    BY <1>4, <2>2
  <2>4. ASSUME Capped(attempt) < Cap, delay > 0 PROVE delay' > delay
    <3>1. attempt > 0 /\ delay <= Longest(attempt - 1)
      BY <1>1, <1>4, <2>4 DEF DelayInv
    <3>2. Longest(attempt - 1) < Shortest(attempt)
      BY <2>1, <2>4, <3>1, NextIsLonger
    <3>3. Longest(attempt - 1) \in Nat
      <4>1. attempt - 1 \in 0..Shift
        BY <1>0, <2>1, <3>1
      <4> QED  BY <4>1, DelayTypes
    <3> QED  BY <2>1, <2>2, <2>3, <3>1, <3>2, <3>3
  <2> QED  BY <1>1, <1>4, <2>1, <2>3, <2>4 DEF DelayInv
<1> QED  BY <1>2, <1>3, <1>4 DEF Finish

\* backoff.hpp:68 -- as long as no message arrives every wait is longer than the one
\* before, up to the cap, and no wait is longer than the cap with its jitter: for
\* every BackoffConfig whose steps are wider than its jitter, on every kind of
\* stream, however often the server refuses and whatever the clock does.
THEOREM WaitsGetLonger == WideSteps /\ Spec => []DelaysGrow
<1> SUFFICES ASSUME WideSteps PROVE Spec => []DelaysGrow
  OBVIOUS
<1>1. DelayInv /\ [Next]_vars => DelayInv'
  <2> SUFFICES ASSUME DelayInv, [Next]_vars PROVE DelayInv'
    OBVIOUS
  <2> USE DEF backoff
  <2>1. CASE Top
    BY <2>1, DelayKept DEF Top
  <2>2. CASE WaitIfActive \/ NapEnds
    BY <2>2, DelayKept DEF WaitIfActive, NapEnds
  <2>3. CASE Subscribe
    BY <2>3, DelayKept DEF Subscribe
  <2>4. CASE Check \/ ReadEnds
    BY <2>4, DelayKept DEF Check, ReadEnds, Leave
  <2>5. CASE Delivered
    <3>1. pc' = "check" /\ attempt' = 0 /\ delay' = 0 /\ last' = 0 /\ kind' = kind
      BY <2>5 DEF Delivered
    <3>2. Shift \in Nat /\ 0 <= (Cap * (100 + Jitter)) \div 100
      <4>1. Cap * (100 + Jitter) \in Nat /\ Shift \in Nat
        BY LoopAssumption
      <4>2. \A x \in Nat : 0 <= x \div 100
        OBVIOUS
      <4> QED  BY <4>1, <4>2
    <3> QED  BY <3>1, <3>2 DEF DelayInv
  <2>6. CASE Finish
    BY <2>6, DelayGrows
  <2>7. CASE WaitStopped
    BY <2>7, DelayKept DEF WaitStopped
  <2>8. CASE WaitEnds
    BY <2>8, DelayAges
  <2>9. CASE ReadMessage \/ ReadError \/ Deliver \/ CallbackReturns
    BY <2>9, DelayKept DEF ReadMessage, ReadError, Deliver, CallbackReturns
  <2>10. ASSUME NEW token \in 0..MaxToken, ReadToken(token) PROVE DelayInv'
    BY <2>10, DelayKept DEF ReadToken
  <2>11. CASE SetStop \/ ServerEnds \/ ClockMoves \/ IssueToken \/ UNCHANGED vars
    BY <2>11, DelayKept DEF SetStop, ServerEnds, ClockMoves, IssueToken, vars
  <2> QED
    BY <2>1, <2>2, <2>3, <2>4, <2>5, <2>6, <2>7, <2>8, <2>9, <2>10, <2>11
       DEF Next, Thread
<1>2. DelayInv => DelaysGrow
  BY DEF DelayInv, DelaysGrow
<1> QED
  BY <1>1, <1>2, DelayInit, PTL DEF Spec
=============================================================================
