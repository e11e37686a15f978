--------------------------- MODULE RolloverProofs ---------------------------
(***************************************************************************)
(* Proofs about Rollover, for every start date, rollover_days and size of  *)
(* the queue: the calendar, the types, and that the runner's symbol, feed  *)
(* and events only move on to later contracts.                             *)
(***************************************************************************)
EXTENDS Rollover, TLAPS

\* FeedIsActive with what dispatch(RolloverEvent) knows between its steps: once
\* set_active_symbol() is done, the symbol it will subscribe to is the active one.
FeedInv == FeedIsActive /\ (spc = "subscribe" => rollTo = active)

\* Only the three steps of dispatch(RolloverEvent) touch the feed and the symbol.
LEMMA FeedStep == FeedInv /\ [Next]_vars => FeedInv'
<1> SUFFICES ASSUME FeedInv, [Next]_vars PROVE FeedInv'
  OBVIOUS
<1> USE DEF FeedInv, FeedIsActive
<1>1. CASE UNCHANGED <<active, subs, roll>>
  BY <1>1 DEF roll
<1>2. CASE RollReset
  BY <1>2 DEF RollReset, Pop
<1>3. CASE RollActivate
  BY <1>3 DEF RollActivate
<1>4. CASE RollSubscribe
  BY <1>4 DEF RollSubscribe
<1>5. \/ UNCHANGED <<active, subs, roll>>
      \/ RollReset \/ RollActivate \/ RollSubscribe
  BY DEF Next, Dispatch, Watchdog, NextDay, WatchdogNearest, WatchdogSame, WatchdogPush,
       WatchdogDrop, PushQuote, PushLateQuote, DispatchQuote, DispatchFill, Enter,
       OrderFilled, vars, feed
<1> QED  BY <1>1, <1>2, <1>3, <1>4, <1>5

\* The feed's symbol and active_symbol_ agree between dispatches, although the
\* watchdog goes on queueing RolloverEvents while one is dispatched.
THEOREM FeedFollowsActive == Spec => []FeedIsActive
<1>1. Init => FeedInv
  BY DEF Init, FeedInv, FeedIsActive
<1>2. FeedInv => FeedIsActive
  BY DEF FeedInv
<1> QED  BY <1>1, <1>2, FeedStep, PTL DEF Spec

-----------------------------------------------------------------------------
(* The calendar *)

\* The years the calendar is for, from 2020 on.
Years == {y \in Nat : y >= 2020}

\* A date of the calendar.
IsDate(t) ==
  /\ t \in [year : Years, month : 1..12, day : 1..31]
  /\ t.day <= MonthLength(t.year, t.month)

\* Days from the first of 2020 to the first of January of a year.
YearStart(y) == 365 * (y - 2020) + (y - 2017) \div 4

\* The leap day of a year, if there is one.
LeapDay(y) == IF Leap(y) THEN 1 ELSE 0

\* A year is as long as its days.
LEMMA YearLength ==
  ASSUME NEW y \in Years
  PROVE  /\ YearStart(y) \in Int /\ LeapDay(y) \in {0, 1}
         /\ y + 1 \in Years /\ YearStart(y + 1) = YearStart(y) + 365 + LeapDay(y)
BY DEF Years, YearStart, LeapDay, Leap

\* The table of the days before each month.
LEMMA Table ==
  /\ DaysBefore[1] = 0 /\ DaysBefore[2] = 31 /\ DaysBefore[3] = 59
  /\ DaysBefore[4] = 90 /\ DaysBefore[5] = 120 /\ DaysBefore[6] = 151
  /\ DaysBefore[7] = 181 /\ DaysBefore[8] = 212 /\ DaysBefore[9] = 243
  /\ DaysBefore[10] = 273 /\ DaysBefore[11] = 304 /\ DaysBefore[12] = 334
BY DEF DaysBefore

\* A day's number, from its year, its month and its day.
LEMMA DayOf ==
  ASSUME NEW y \in Years, NEW m \in 1..12, NEW d \in Int
  PROVE  /\ DaysBefore[m] \in Nat
         /\ DayNumber(y, m, d)
              = YearStart(y) + DaysBefore[m] + (IF m > 2 THEN LeapDay(y) ELSE 0) + d - 1
<1>1. DaysBefore[m] \in Nat
  <2>1. m = 1 \/ m = 2 \/ m = 3 \/ m = 4 \/ m = 5 \/ m = 6 \/ m = 7 \/ m = 8 \/ m = 9
        \/ m = 10 \/ m = 11 \/ m = 12
    OBVIOUS
  <2> QED  BY <2>1, Table
<1> QED  BY <1>1 DEF DayNumber, YearStart, LeapDay

\* How long the months are.
LEMMA MonthLengths ==
  ASSUME NEW y \in Years
  PROVE  /\ \A m \in {1, 3, 5, 7, 8, 10, 12} : MonthLength(y, m) = 31
         /\ \A m \in {4, 6, 9, 11} : MonthLength(y, m) = 30
         /\ MonthLength(y, 2) = 28 + LeapDay(y)
BY DEF MonthLength, LeapDay

\* A month's length is a number of days.
LEMMA MonthLengthNat ==
  ASSUME NEW y \in Years, NEW m \in 1..12
  PROVE  MonthLength(y, m) \in 28..31
<1>1. LeapDay(y) \in {0, 1}
  BY YearLength
<1>2. m \in {1, 3, 5, 7, 8, 10, 12} \/ m \in {4, 6, 9, 11} \/ m = 2
  OBVIOUS
<1> QED  BY <1>1, <1>2, MonthLengths

\* Counting the days of a month, from any of them.
LEMMA DaysCount ==
  ASSUME NEW y \in Years, NEW m \in 1..12
  PROVE  /\ DayNumber(y, m, 1) \in Int
         /\ \A d \in Int : DayNumber(y, m, d) = DayNumber(y, m, 1) + d - 1
<1>1. YearStart(y) \in Int /\ LeapDay(y) \in {0, 1}
  BY YearLength
<1>2. /\ DaysBefore[m] \in Nat
      /\ DayNumber(y, m, 1)
           = YearStart(y) + DaysBefore[m] + (IF m > 2 THEN LeapDay(y) ELSE 0) + 1 - 1
  BY DayOf
<1>3. ASSUME NEW d \in Int
      PROVE  DayNumber(y, m, d)
               = YearStart(y) + DaysBefore[m] + (IF m > 2 THEN LeapDay(y) ELSE 0) + d - 1
  BY DayOf
<1> QED  BY <1>1, <1>2, <1>3

\* After the last day of a month comes the first of the next.
LEMMA MonthsFollow ==
  ASSUME NEW y \in Years
  PROVE  /\ \A m \in 1..11 :
              DayNumber(y, m + 1, 1) = DayNumber(y, m, 1) + MonthLength(y, m)
         /\ DayNumber(y + 1, 1, 1) = DayNumber(y, 12, 1) + MonthLength(y, 12)
<1>1. /\ YearStart(y) \in Int /\ LeapDay(y) \in {0, 1}
      /\ YearStart(y + 1) = YearStart(y) + 365 + LeapDay(y)
  BY YearLength
<1>2. /\ \A m \in {1, 3, 5, 7, 8, 10, 12} : MonthLength(y, m) = 31
      /\ \A m \in {4, 6, 9, 11} : MonthLength(y, m) = 30
      /\ MonthLength(y, 2) = 28 + LeapDay(y)
  BY MonthLengths
<1>3. ASSUME NEW m \in 1..11
      PROVE  DayNumber(y, m + 1, 1) = DayNumber(y, m, 1) + MonthLength(y, m)
  <2>1. /\ DayNumber(y, m, 1)
             = YearStart(y) + DaysBefore[m] + (IF m > 2 THEN LeapDay(y) ELSE 0) + 1 - 1
        /\ DayNumber(y, m + 1, 1)
             = YearStart(y) + DaysBefore[m + 1] + (IF m + 1 > 2 THEN LeapDay(y) ELSE 0) + 1 - 1
    BY DayOf
  <2>2. m = 1 \/ m = 2 \/ m = 3 \/ m = 4 \/ m = 5 \/ m = 6 \/ m = 7 \/ m = 8 \/ m = 9
        \/ m = 10 \/ m = 11
    OBVIOUS
  <2> QED  BY <1>1, <1>2, <2>1, <2>2, Table
<1>4. DayNumber(y + 1, 1, 1) = DayNumber(y, 12, 1) + MonthLength(y, 12)
  <2>1. DayNumber(y, 12, 1) = YearStart(y) + DaysBefore[12] + LeapDay(y) + 1 - 1
    BY DayOf
  <2>2. DayNumber(y + 1, 1, 1) = YearStart(y + 1) + DaysBefore[1] + 0 + 1 - 1
    BY DayOf, YearLength
  <2> QED  BY <1>1, <1>2, <2>1, <2>2, Table
<1> QED  BY <1>3, <1>4

\* The day third_friday() computes: a Friday, and the third one.
LEMMA ThirdFridays ==
  ASSUME NEW y \in Years, NEW m \in 1..12
  PROVE  /\ ThirdFriday(y, m) \in 15..21
         /\ (DayNumber(y, m, ThirdFriday(y, m)) + 3) % 7 = 5
<1> DEFINE n == DayNumber(y, m, 1)
           w == Weekday(y, m, 1)
           f == ThirdFriday(y, m)
<1>1. n \in Int
  BY DaysCount
<1>2. w = (n + 3) % 7
  BY DEF Weekday
<1>3. f = 1 + (IF w <= 5 THEN 5 - w ELSE 12 - w) + 14
  BY DEF ThirdFriday
<1> HIDE DEF n, w, f
<1>4. w \in 0..6
  BY <1>1, <1>2
<1>5. f \in 15..21
  BY <1>3, <1>4
<1>6. DayNumber(y, m, f) = n + f - 1
  <2>1. f \in Int
    BY <1>5
  <2> QED  BY <2>1, DaysCount, Zenon DEF n
<1>7. (n + f - 1 + 3) % 7 = 5
  BY <1>1, <1>2, <1>3, <1>4
<1> QED  BY <1>5, <1>6, <1>7 DEF f

\* The day the process starts on.
LEMMA StartDay == DayNumber(Start.year, Start.month, Start.day) \in Int
<1> DEFINE y == Start.year
           m == Start.month
           d == Start.day
<1>1. y \in Years /\ m \in 1..12 /\ d \in Int
  BY RolloverAssumption DEF Years
<1> HIDE DEF y, m, d
<1>2. DayNumber(y, m, 1) \in Int /\ DayNumber(y, m, d) = DayNumber(y, m, 1) + d - 1
  BY <1>1, DaysCount
<1>3. DayNumber(y, m, d) \in Int
  BY <1>1, <1>2
<1> QED  BY <1>3 DEF y, m, d

\* The date is one of the calendar, and the number of its day is counted by elapsed.
DateInv ==
  /\ IsDate(date) /\ elapsed \in 0..MaxDays
  /\ DayNumber(date.year, date.month, date.day)
       = DayNumber(Start.year, Start.month, Start.day) + elapsed

\* The process starts on a date.
LEMMA DateInit == Init => DateInv
<1> SUFFICES ASSUME Init PROVE DateInv
  OBVIOUS
<1>1. date = Start /\ elapsed = 0
  BY DEF Init
<1>2. /\ Start.year \in Years /\ Start.month \in 1..12
      /\ Start.day \in Int /\ Start \in [year : Years, month : 1..12, day : 1..31]
      /\ Start.day <= MonthLength(Start.year, Start.month) /\ MaxDays \in Nat
  BY RolloverAssumption DEF Years
<1>3. IsDate(date)
  BY <1>1, <1>2 DEF IsDate
<1>4. DayNumber(Start.year, Start.month, Start.day) \in Int
  BY StartDay
<1> QED  BY <1>1, <1>2, <1>3, <1>4 DEF DateInv

\* Midnight: the day after, in this month, the next one or the next year.
LEMMA NextDate == DateInv /\ NextDay => DateInv'
<1> SUFFICES ASSUME DateInv, NextDay PROVE DateInv'
  OBVIOUS
<1> DEFINE y == date.year
           m == date.month
           d == date.day
           s == DayNumber(Start.year, Start.month, Start.day)
<1>1. /\ date \in [year : Years, month : 1..12, day : 1..31]
      /\ y \in Years /\ m \in 1..12 /\ d \in 1..31 /\ d <= MonthLength(y, m)
      /\ elapsed \in 0..MaxDays /\ MaxDays \in Nat
      /\ DayNumber(y, m, d) = s + elapsed
  BY RolloverAssumption DEF DateInv, IsDate
<1>2. s \in Int
  BY StartDay
<1>3. /\ DayNumber(y, m, 1) \in Int /\ DayNumber(y, m, d) = DayNumber(y, m, 1) + d - 1
      /\ DayNumber(y, m, d + 1) = DayNumber(y, m, 1) + (d + 1) - 1
  <2> HIDE DEF y, m, d
  <2>1. d \in Int /\ d + 1 \in Int
    BY <1>1
  <2> QED  BY <1>1, <2>1, DaysCount
<1>4. elapsed' = elapsed + 1 /\ elapsed' \in 0..MaxDays
  BY <1>1 DEF NextDay
<1>5. MonthLength(y, m) \in 28..31
  BY <1>1, MonthLengthNat
<1>6. CASE d < MonthLength(y, m)
  <2>1. date' = [date EXCEPT !.day = @ + 1]
    BY <1>6 DEF NextDay
  <2>2. date'.year = y /\ date'.month = m /\ date'.day = d + 1
    BY <1>1, <2>1
  <2>3. d + 1 \in 1..31 /\ d + 1 <= MonthLength(y, m)
    BY <1>1, <1>5, <1>6
  <2>4. date' \in [year : Years, month : 1..12, day : 1..31]
    BY <1>1, <2>1, <2>3
  <2>5. DayNumber(y, m, d + 1) = s + elapsed'
    <3> HIDE DEF y, m, d, s
    <3> QED  BY <1>1, <1>2, <1>3, <1>4
  <2>6. IsDate(date')
    BY <1>1, <2>2, <2>3, <2>4 DEF IsDate
  <2> QED  BY <1>4, <2>2, <2>5, <2>6 DEF DateInv
<1>7. CASE d = MonthLength(y, m) /\ m < 12
  <2>1. date' = [date EXCEPT !.month = @ + 1, !.day = 1]
    BY <1>1, <1>5, <1>7 DEF NextDay
  <2>2. date'.year = y /\ date'.month = m + 1 /\ date'.day = 1
    BY <1>1, <2>1
  <2>3. m + 1 \in 1..12 /\ m \in 1..11
    BY <1>1, <1>7
  <2>4. date' \in [year : Years, month : 1..12, day : 1..31]
    <3>1. date' = [year |-> y, month |-> m + 1, day |-> 1]
      BY <1>1, <2>1
    <3> QED  BY <1>1, <2>3, <3>1
  <2>5. DayNumber(y, m + 1, 1) = s + elapsed'
    <3>1. DayNumber(y, m + 1, 1) = DayNumber(y, m, 1) + MonthLength(y, m)
      BY <1>1, <2>3, MonthsFollow
    <3> QED  BY <1>1, <1>2, <1>3, <1>4, <1>7, <3>1
  <2>6. MonthLength(y, m + 1) >= 1
    <3>1. LeapDay(y) \in {0, 1}
      BY <1>1, YearLength
    <3>2. m + 1 \in {1, 3, 5, 7, 8, 10, 12} \/ m + 1 \in {4, 6, 9, 11} \/ m + 1 = 2
      BY <2>3
    <3> QED  BY <1>1, <3>1, <3>2, MonthLengths
  <2>7. IsDate(date')
    BY <1>1, <2>2, <2>4, <2>6 DEF IsDate
  <2> QED  BY <1>4, <2>2, <2>5, <2>7 DEF DateInv
<1>8. CASE d = MonthLength(y, m) /\ m = 12
  <2>1. date' = [year |-> y + 1, month |-> 1, day |-> 1]
    BY <1>1, <1>5, <1>8 DEF NextDay
  <2>2. date'.year = y + 1 /\ date'.month = 1 /\ date'.day = 1
    BY <2>1
  <2>3. date' \in [year : Years, month : 1..12, day : 1..31]
    BY <1>1, <2>1, YearLength
  <2>4. DayNumber(y + 1, 1, 1) = s + elapsed'
    <3>1. DayNumber(y + 1, 1, 1) = DayNumber(y, 12, 1) + MonthLength(y, 12)
      BY <1>1, MonthsFollow
    <3> QED  BY <1>1, <1>2, <1>3, <1>4, <1>8, <3>1
  <2>5. MonthLength(y + 1, 1) = 31
    <3>1. y + 1 \in Years
      BY <1>1, YearLength
    <3> QED  BY <3>1, MonthLengths
  <2>6. IsDate(date')
    BY <1>1, <2>2, <2>3, <2>5 DEF IsDate
  <2> QED  BY <1>4, <2>2, <2>4, <2>6 DEF DateInv
<1> QED  BY <1>1, <1>5, <1>6, <1>7, <1>8

\* Only midnight moves the clock.
LEMMA DateStep == DateInv /\ [Next]_vars => DateInv'
<1> SUFFICES ASSUME DateInv, [Next]_vars PROVE DateInv'
  OBVIOUS
<1>1. CASE NextDay
  BY <1>1, NextDate
<1>2. CASE UNCHANGED clock
  BY <1>2 DEF clock, DateInv
<1>3. NextDay \/ UNCHANGED clock
  BY DEF Next, Dispatch, Watchdog, WatchdogNearest, WatchdogSame, WatchdogPush,
       WatchdogDrop, PushQuote, PushLateQuote, DispatchQuote, DispatchFill, Enter,
       RollReset, RollActivate, RollSubscribe, OrderFilled, vars
<1> QED  BY <1>1, <1>2, <1>3

\* contract.hpp:20 -- third_friday() is the third Friday of its month as a calendar
\* that counts days from Start has it, on every date from 2020 on.
THEOREM ThirdFridayCorrect == Spec => []ThirdFridayIsFriday
<1>1. DateInv => ThirdFridayIsFriday
  <2> SUFFICES ASSUME DateInv, date.day = ThirdFriday(date.year, date.month)
               PROVE  /\ (Weekday(Start.year, Start.month, Start.day) + elapsed) % 7 = 5
                      /\ date.day \in 15..21
    BY DEF ThirdFridayIsFriday
  <2> DEFINE s == DayNumber(Start.year, Start.month, Start.day)
             n == DayNumber(date.year, date.month, date.day)
  <2>1. s \in Int
    BY StartDay
  <2>2. date.year \in Years /\ date.month \in 1..12
    BY DEF DateInv, IsDate
  <2>3. n = s + elapsed /\ elapsed \in Nat
    BY RolloverAssumption DEF DateInv
  <2>4. (n + 3) % 7 = 5 /\ date.day \in 15..21
    BY <2>2, ThirdFridays
  <2>5. Weekday(Start.year, Start.month, Start.day) = (s + 3) % 7
    BY DEF Weekday
  <2> HIDE DEF s, n
  <2>6. (((s + 3) % 7) + elapsed) % 7 = (s + elapsed + 3) % 7
    BY <2>1, <2>3
  <2> QED  BY <2>3, <2>4, <2>5, <2>6
<1> QED  BY <1>1, DateInit, DateStep, PTL DEF Spec

\* A later month begins at least 28 days later.
LEMMA MonthsApart ==
  ASSUME NEW y \in Years, NEW m \in 1..12, NEW n \in 1..12, m < n
  PROVE  DayNumber(y, n, 1) >= DayNumber(y, m, 1) + 28
<1> DEFINE Month(k) == k = 1 \/ k = 2 \/ k = 3 \/ k = 4 \/ k = 5 \/ k = 6 \/ k = 7 \/ k = 8
                       \/ k = 9 \/ k = 10 \/ k = 11 \/ k = 12
<1>1. YearStart(y) \in Int /\ LeapDay(y) \in {0, 1}
  BY YearLength
<1>2. /\ DaysBefore[m] \in Nat
      /\ DayNumber(y, m, 1)
           = YearStart(y) + DaysBefore[m] + (IF m > 2 THEN LeapDay(y) ELSE 0) + 1 - 1
  BY DayOf
<1>3. /\ DaysBefore[n] \in Nat
      /\ DayNumber(y, n, 1)
           = YearStart(y) + DaysBefore[n] + (IF n > 2 THEN LeapDay(y) ELSE 0) + 1 - 1
  BY DayOf
<1>4. DaysBefore[n] >= DaysBefore[m] + 28
  <2>1. Month(m) /\ Month(n)
    OBVIOUS
  <2> QED  BY <2>1, Table
<1> QED  BY <1>1, <1>2, <1>3, <1>4

\* The number of the day a contract expires on.
Expires(y, q) == DayNumber(y, q, ThirdFriday(y, q))

\* Its place among the contracts.
Rank(e) == 12 * e.year + e.month

\* Expiries lie in the middle of their month.
LEMMA ExpiresInMonth ==
  ASSUME NEW y \in Years, NEW q \in 1..12
  PROVE  /\ DayNumber(y, q, 1) \in Int /\ Expires(y, q) \in Int
         /\ ThirdFriday(y, q) \in 15..21
         /\ Expires(y, q) = DayNumber(y, q, 1) + ThirdFriday(y, q) - 1
<1>1. ThirdFriday(y, q) \in 15..21 /\ ThirdFriday(y, q) \in Int
  BY ThirdFridays
<1>2. DayNumber(y, q, 1) \in Int /\ Expires(y, q) = DayNumber(y, q, 1) + ThirdFriday(y, q) - 1
  BY <1>1, DaysCount, Zenon DEF Expires
<1> QED  BY <1>1, <1>2

\* Of two years that follow each other, a later contract expires later.
LEMMA ExpiryOrder ==
  ASSUME NEW y \in Years, NEW z \in {y, y + 1}, NEW q \in QuarterlyMonths,
         NEW r \in QuarterlyMonths, 12 * y + q < 12 * z + r
  PROVE  Expires(y, q) < Expires(z, r)
<1>0. y \in Nat /\ z \in Years /\ q \in 1..12 /\ r \in 1..12
  BY YearLength DEF Years, QuarterlyMonths
<1>1. /\ DayNumber(y, q, 1) \in Int /\ Expires(y, q) <= DayNumber(y, q, 1) + 20
      /\ Expires(y, q) \in Int
  BY <1>0, ExpiresInMonth
<1>2. /\ DayNumber(z, r, 1) \in Int /\ Expires(z, r) >= DayNumber(z, r, 1) + 14
      /\ Expires(z, r) \in Int
  BY <1>0, ExpiresInMonth
<1>3. CASE z = y
  <2>1. q < r
    BY <1>0, <1>3
  <2>2. DayNumber(y, r, 1) >= DayNumber(y, q, 1) + 28
    BY <1>0, <2>1, MonthsApart
  <2> QED  BY <1>1, <1>2, <1>3, <2>2
<1>4. CASE z = y + 1
  <2>1. /\ DayNumber(y, 12, 1) \in Int /\ DayNumber(z, 1, 1) \in Int
        /\ DayNumber(z, 1, 1) = DayNumber(y, 12, 1) + 31
    <3>1. DayNumber(y, 12, 1) \in Int /\ DayNumber(z, 1, 1) \in Int
      BY <1>0, ExpiresInMonth
    <3>2. DayNumber(y + 1, 1, 1) = DayNumber(y, 12, 1) + MonthLength(y, 12)
      BY MonthsFollow
    <3>3. MonthLength(y, 12) = 31
      BY MonthLengths
    <3> QED  BY <1>4, <3>1, <3>2, <3>3
  <2>2. DayNumber(y, q, 1) <= DayNumber(y, 12, 1)
    <3>1. CASE q = 12
      BY <1>1, <3>1
    <3>2. CASE q < 12
      <4>1. DayNumber(y, 12, 1) >= DayNumber(y, q, 1) + 28
        BY <1>0, <3>2, MonthsApart
      <4> QED  BY <1>1, <2>1, <4>1
    <3> QED  BY <1>0, <3>1, <3>2
  <2>3. DayNumber(z, 1, 1) <= DayNumber(z, r, 1)
    <3>1. r > 1
      BY DEF QuarterlyMonths
    <3>2. DayNumber(z, r, 1) >= DayNumber(z, 1, 1) + 28
      BY <1>0, <3>1, MonthsApart
    <3> QED  BY <1>2, <2>1, <3>2
  <2> QED  BY <1>1, <1>2, <2>1, <2>2, <2>3
<1> QED  BY <1>3, <1>4

\* The least number of a set that has one.
LEMMA MinIs ==
  ASSUME NEW S \in SUBSET Int, NEW x \in S, \A k \in S : x <= k
  PROVE  Min(S) = x
<1>1. Min(S) = CHOOSE k \in S : \A j \in S : k <= j
  BY DEF Min
<1>2. Min(S) \in S /\ \A j \in S : Min(S) <= j
  BY <1>1, Zenon
<1>3. Min(S) \in Int /\ x \in Int /\ x <= Min(S) /\ Min(S) <= x
  BY <1>2
<1> HIDE DEF Min
<1> QED  BY <1>3

\* next_quarterly_month()
LEMMA NextMonth ==
  ASSUME NEW m \in 1..12
  PROVE  /\ m \in {1, 2, 12} => NextQuarterlyMonth(m) = 3
         /\ m \in {3, 4, 5} => NextQuarterlyMonth(m) = 6
         /\ m \in {6, 7, 8} => NextQuarterlyMonth(m) = 9
         /\ m \in {9, 10, 11} => NextQuarterlyMonth(m) = 12
<1> DEFINE later == {q \in QuarterlyMonths : q > m}
<1>1. NextQuarterlyMonth(m) = IF later = {} THEN 3 ELSE Min(later)
  BY DEF NextQuarterlyMonth
<1>2. ASSUME NEW x \in QuarterlyMonths, x > m, \A q \in QuarterlyMonths : q > m => x <= q
      PROVE  NextQuarterlyMonth(m) = x
  <2>1. later \in SUBSET Int /\ x \in later /\ \A k \in later : x <= k
    BY <1>2 DEF QuarterlyMonths
  <2> HIDE DEF later
  <2>2. Min(later) = x
    BY <2>1, MinIs
  <2> QED  BY <1>1, <2>1, <2>2
<1>3. CASE m = 12
  BY <1>1, <1>3 DEF QuarterlyMonths
<1>4. CASE m \in {1, 2}
  BY <1>2, <1>4 DEF QuarterlyMonths
<1>5. CASE m \in {3, 4, 5}
  BY <1>2, <1>5 DEF QuarterlyMonths
<1>6. CASE m \in {6, 7, 8}
  BY <1>2, <1>6 DEF QuarterlyMonths
<1>7. CASE m \in {9, 10, 11}
  BY <1>2, <1>7 DEF QuarterlyMonths
<1> QED  BY <1>3, <1>4, <1>5, <1>6, <1>7

\* Which contract nearest_contract() chooses: of this year, no earlier than this
\* month, with every quarterly month before it over or in its window; or in December's
\* window March's.
LEMMA NearestShape ==
  ASSUME NEW t, IsDate(t), NEW days \in 0..14
  PROVE  LET near == NearestExpiry(t, days) IN
         \/ \E q \in QuarterlyMonths :
              /\ near = [year |-> t.year, month |-> q] /\ t.month <= q
              /\ q = t.month => t.day < ThirdFriday(t.year, q) - days
              /\ \A r \in QuarterlyMonths :
                   r < q /\ t.month <= r =>
                     r = t.month /\ t.day >= ThirdFriday(t.year, r) - days
         \/ /\ near = [year |-> t.year + 1, month |-> 3] /\ t.month = 12
            /\ t.day >= ThirdFriday(t.year, 12) - days
<1> DEFINE y == t.year
           m == t.month
           d == t.day
           cur == [year |-> y, month |-> m]
           near == NearestExpiry(t, days)
<1>1. y \in Years /\ m \in 1..12 /\ d \in 1..31 /\ y \in Nat
  BY DEF IsDate, Years
<1>2. near = LET e == IF m \in QuarterlyMonths THEN cur ELSE NextQuarterly(cur)
             IN  IF e = cur /\ d >= ThirdFriday(e.year, e.month) - days
                 THEN NextQuarterly(e) ELSE e
  BY DEF NearestExpiry, IsQuarterly
<1>3. ThirdFriday(y, m) \in 15..21
  BY <1>1, ThirdFridays
<1>4. NextQuarterly(cur) =
        [year |-> IF NextQuarterlyMonth(m) <= m THEN y + 1 ELSE y,
         month |-> NextQuarterlyMonth(m)]
  BY DEF NextQuarterly
<1> HIDE DEF near, y, m, d
<1>5. CASE m \notin QuarterlyMonths
  <2>1. NextQuarterlyMonth(m) > m /\ NextQuarterlyMonth(m) \in QuarterlyMonths
        /\ \A r \in QuarterlyMonths : ~ (r < NextQuarterlyMonth(m) /\ m <= r)
    <3>1. m \in {1, 2} \/ m \in {4, 5} \/ m \in {7, 8} \/ m \in {10, 11}
      BY <1>1, <1>5 DEF QuarterlyMonths
    <3> QED  BY <1>1, <3>1, NextMonth DEF QuarterlyMonths
  <2>2. NextQuarterly(cur) = [year |-> y, month |-> NextQuarterlyMonth(m)]
    BY <1>1, <1>4, <2>1 DEF QuarterlyMonths
  <2>3. NextQuarterly(cur) # cur
    BY <1>1, <2>1, <2>2 DEF QuarterlyMonths
  <2>4. near = [year |-> y, month |-> NextQuarterlyMonth(m)]
    BY <1>2, <1>5, <2>2, <2>3
  <2> QED  BY <1>1, <2>1, <2>4 DEF near, y, m, d, QuarterlyMonths
<1>6. CASE m \in QuarterlyMonths /\ d < ThirdFriday(y, m) - days
  <2>1. near = cur
    BY <1>1, <1>2, <1>3, <1>6
  <2>2. \A r \in QuarterlyMonths : ~ (r < m /\ m <= r)
    BY <1>1 DEF QuarterlyMonths
  <2> QED  BY <1>1, <1>6, <2>1, <2>2 DEF near, y, m, d
<1>7. CASE m \in QuarterlyMonths /\ d >= ThirdFriday(y, m) - days
  <2>1. near = NextQuarterly(cur)
    BY <1>1, <1>2, <1>3, <1>7
  <2>2. CASE m = 12
    <3>1. near = [year |-> y + 1, month |-> 3]
      BY <1>1, <1>4, <2>1, <2>2, NextMonth
    <3> QED  BY <1>7, <2>2, <3>1 DEF near, y, m, d
  <2>3. CASE m # 12
    <3>1. NextQuarterlyMonth(m) > m /\ NextQuarterlyMonth(m) \in QuarterlyMonths
          /\ \A r \in QuarterlyMonths : r < NextQuarterlyMonth(m) /\ m <= r => r = m
      <4>1. m = 3 \/ m = 6 \/ m = 9
        BY <1>7, <2>3 DEF QuarterlyMonths
      <4> QED  BY <1>1, <4>1, NextMonth DEF QuarterlyMonths
    <3>2. near = [year |-> y, month |-> NextQuarterlyMonth(m)]
      BY <1>1, <1>4, <2>1, <3>1 DEF QuarterlyMonths
    <3> QED  BY <1>1, <1>7, <3>1, <3>2 DEF near, y, m, d, QuarterlyMonths
  <2> QED  BY <2>2, <2>3
<1>8. d < ThirdFriday(y, m) - days \/ d >= ThirdFriday(y, m) - days
  BY <1>1, <1>3
<1> QED  BY <1>5, <1>6, <1>7, <1>8

\* The contracts of a year and the next.
Listed(y) == [year : y..(y + 1), month : QuarterlyMonths]

\* The contract nearest_contract() chooses is listed and can be traded, and those
\* before it can not.
LEMMA NearestFirst ==
  ASSUME NEW t, IsDate(t), NEW days \in 0..14
  PROVE  LET near == NearestExpiry(t, days)
             today == DayNumber(t.year, t.month, t.day)
         IN  /\ near \in Listed(t.year)
             /\ Expires(near.year, near.month) > today + days
             /\ \A e \in Listed(t.year) :
                  Rank(e) < Rank(near) => Expires(e.year, e.month) <= today + days
<1> DEFINE y == t.year
           m == t.month
           d == t.day
           near == NearestExpiry(t, days)
           today == DayNumber(y, m, d)
           first == DayNumber(y, m, 1)
<1>1. y \in Years /\ m \in 1..12 /\ d \in 1..31 /\ y \in Nat /\ d <= MonthLength(y, m)
  BY DEF IsDate, Years
<1>2. first \in Int /\ today = first + d - 1
  <2>1. d \in Int
    BY <1>1
  <2> HIDE DEF y, m, d
  <2> QED  BY <1>1, <2>1, DaysCount, Zenon
<1>3. MonthLength(y, m) \in 28..31
  BY <1>1, MonthLengthNat
<1>4. \A q \in QuarterlyMonths : q \in 1..12
  BY DEF QuarterlyMonths
<1>5. ASSUME NEW e \in Listed(y)
      PROVE  e.year \in {y, y + 1} /\ e.month \in QuarterlyMonths /\ e.month \in 1..12
  BY <1>1, <1>4, <1>5 DEF Listed
<1>6. ASSUME NEW q \in 1..12, q < m PROVE Expires(y, q) <= today
  <2>1. DayNumber(y, m, 1) >= DayNumber(y, q, 1) + 28
    BY <1>1, <1>6, MonthsApart
  <2>2. /\ DayNumber(y, q, 1) \in Int /\ Expires(y, q) \in Int
        /\ Expires(y, q) <= DayNumber(y, q, 1) + 20
    BY <1>1, ExpiresInMonth
  <2> HIDE DEF y, m, d, today
  <2> QED  BY <1>1, <1>2, <2>1, <2>2
<1>7. ASSUME NEW q \in 1..12, q > m PROVE Expires(y, q) > today + days
  <2>1. DayNumber(y, m + 1, 1) = first + MonthLength(y, m) /\ m + 1 \in 1..12
    <3>1. m \in 1..11 /\ m + 1 \in 1..12
      BY <1>1, <1>7
    <3> QED  BY <1>1, <3>1, MonthsFollow
  <2>2. DayNumber(y, q, 1) \in Int /\ Expires(y, q) \in Int
        /\ Expires(y, q) >= DayNumber(y, q, 1) + 14
    BY <1>1, ExpiresInMonth
  <2>3. DayNumber(y, q, 1) >= DayNumber(y, m + 1, 1)
    <3>1. CASE q = m + 1
      BY <2>2, <3>1
    <3>2. CASE q > m + 1
      <4>1. DayNumber(y, q, 1) >= DayNumber(y, m + 1, 1) + 28
        BY <1>1, <2>1, <3>2, MonthsApart
      <4>2. first + MonthLength(y, m) \in Int
        BY <1>2, <1>3
      <4> QED  BY <2>1, <2>2, <4>1, <4>2
    <3> QED  BY <1>1, <1>7, <3>1, <3>2
  <2> HIDE DEF y, m, d, today, first
  <2> QED  BY <1>1, <1>2, <1>3, <2>1, <2>2, <2>3
<1>8. /\ Expires(y, m) \in Int
      /\ ThirdFriday(y, m) \in Int /\ Expires(y, m) = first + ThirdFriday(y, m) - 1
  BY <1>1, ExpiresInMonth
<1>9. ASSUME NEW q \in QuarterlyMonths,
             near = [year |-> y, month |-> q], m <= q,
             q = m => d < ThirdFriday(y, q) - days,
             \A r \in QuarterlyMonths :
               r < q /\ m <= r => r = m /\ d >= ThirdFriday(y, r) - days
      PROVE  /\ near \in Listed(y)
             /\ Expires(near.year, near.month) > today + days
             /\ \A e \in Listed(y) :
                  Rank(e) < Rank(near) => Expires(e.year, e.month) <= today + days
  <2>1. near \in Listed(y) /\ near.year = y /\ near.month = q
    BY <1>1, <1>9 DEF Listed
  <2> HIDE DEF near, y, m, d, today, first
  <2>2. Expires(y, q) > today + days
    <3>1. CASE q > m
      BY <1>4, <1>7, <3>1
    <3>2. CASE q = m
      BY <1>1, <1>2, <1>8, <1>9, <3>2
    <3> QED  BY <1>1, <1>4, <1>9, <3>1, <3>2
  <2>3. ASSUME NEW e \in Listed(y), Rank(e) < Rank(near)
        PROVE  Expires(e.year, e.month) <= today + days
    <3> DEFINE r == e.month
    <3>1. e.year \in {y, y + 1} /\ r \in QuarterlyMonths /\ r \in 1..12
      BY <1>5
    <3>2. 12 * e.year + r < 12 * y + q
      BY <2>1, <2>3 DEF Rank
    <3> HIDE DEF r
    <3>3. e.year = y /\ r < q
      BY <1>1, <1>4, <3>1, <3>2
    <3>4. CASE r < m
      <4>1. Expires(y, r) <= today
        BY <1>6, <3>1, <3>4
      <4>2. Expires(y, r) \in Int
        BY <1>1, <3>1, ExpiresInMonth
      <4> QED  BY <1>1, <1>2, <3>3, <4>1, <4>2 DEF r
    <3>5. CASE m <= r
      <4>1. r = m /\ d >= ThirdFriday(y, m) - days
        BY <1>9, <3>1, <3>3, <3>5
      <4>2. Expires(y, m) <= today + days
        BY <1>1, <1>2, <1>8, <4>1
      <4> QED  BY <3>3, <4>1, <4>2 DEF r
    <3> QED  BY <1>1, <3>1, <3>4, <3>5
  <2> QED  BY <2>1, <2>2, <2>3
<1>10. ASSUME near = [year |-> y + 1, month |-> 3], m = 12,
              d >= ThirdFriday(y, 12) - days
       PROVE  /\ near \in Listed(y)
              /\ Expires(near.year, near.month) > today + days
              /\ \A e \in Listed(y) :
                   Rank(e) < Rank(near) => Expires(e.year, e.month) <= today + days
  <2>1. near \in Listed(y) /\ near.year = y + 1 /\ near.month = 3
    BY <1>1, <1>10 DEF Listed, QuarterlyMonths
  <2> HIDE DEF near, y, m, d, today, first
  <2>2. Expires(y + 1, 3) > today + days
    <3>1. y + 1 \in Years
      BY <1>1, YearLength
    <3>2. /\ DayNumber(y + 1, 3, 1) \in Int /\ Expires(y + 1, 3) \in Int
          /\ Expires(y + 1, 3) >= DayNumber(y + 1, 3, 1) + 14
      BY <3>1, ExpiresInMonth
    <3>3. DayNumber(y + 1, 3, 1) >= DayNumber(y + 1, 1, 1) + 28
      BY <3>1, MonthsApart
    <3>4. DayNumber(y + 1, 1, 1) = first + MonthLength(y, m)
      <4>1. DayNumber(y + 1, 1, 1) = DayNumber(y, 12, 1) + MonthLength(y, 12)
        BY <1>1, MonthsFollow
      <4> QED  BY <1>10, <4>1 DEF first
    <3> QED  BY <1>1, <1>2, <1>3, <3>2, <3>3, <3>4
  <2>3. ASSUME NEW e \in Listed(y), Rank(e) < Rank(near)
        PROVE  Expires(e.year, e.month) <= today + days
    <3> DEFINE r == e.month
    <3>1. e.year \in {y, y + 1} /\ r \in QuarterlyMonths /\ r \in 1..12
      BY <1>5
    <3>2. 12 * e.year + r < 12 * (y + 1) + 3
      BY <2>1, <2>3 DEF Rank
    <3> HIDE DEF r
    <3>3. r >= 3
      BY <3>1 DEF QuarterlyMonths
    <3>4. e.year = y
      BY <1>1, <3>1, <3>2, <3>3
    <3>5. CASE r < m
      <4>1. Expires(y, r) <= today
        BY <1>6, <3>1, <3>5
      <4>2. Expires(y, r) \in Int
        BY <1>1, <3>1, ExpiresInMonth
      <4> QED  BY <1>1, <1>2, <3>4, <4>1, <4>2 DEF r
    <3>6. CASE r = m
      <4>1. Expires(y, m) <= today + days
        BY <1>1, <1>2, <1>8, <1>10
      <4> QED  BY <3>4, <3>6, <4>1 DEF r
    <3> QED  BY <1>10, <3>1, <3>5, <3>6
  <2> QED  BY <2>1, <2>2, <2>3
<1> QED  BY <1>9, <1>10, NearestShape

\* contract.hpp:63 -- on every date and for every window of up to two weeks,
\* nearest_contract() is the first quarterly future to expire after the window.
THEOREM NearestCorrect == Spec => []NearestIsFirstTradable
<1>1. DateInv => NearestIsFirstTradable
  <2> SUFFICES ASSUME DateInv PROVE NearestIsFirstTradable
    OBVIOUS
  <2> DEFINE y == date.year
             today == DayNumber(y, date.month, date.day)
             near == NearestExpiry(date, RolloverDays)
             Expiry(e) == DayNumber(e.year, e.month, ThirdFriday(e.year, e.month))
             tradable == {e \in [year : y..(y + 1), month : QuarterlyMonths] :
                            Expiry(e) > today + RolloverDays}
  <2>1. IsDate(date) /\ RolloverDays \in 0..14
    BY RolloverAssumption DEF DateInv
  <2>2. y \in Years /\ y \in Nat
    BY <2>1 DEF IsDate, Years
  <2>3. /\ near \in Listed(y) /\ Expires(near.year, near.month) > today + RolloverDays
        /\ \A e \in Listed(y) :
             Rank(e) < Rank(near) => Expires(e.year, e.month) <= today + RolloverDays
    BY <2>1, NearestFirst
  <2>4. \A e : Expiry(e) = Expires(e.year, e.month)
    BY DEF Expires
  <2>5. near \in tradable
    BY <2>3, <2>4 DEF Listed
  <2>6. today \in Int
    <3>1. date.month \in 1..12 /\ date.day \in Int
      BY <2>1 DEF IsDate
    <3>2. DayNumber(y, date.month, 1) \in Int
          /\ today = DayNumber(y, date.month, 1) + date.day - 1
      BY <2>2, <3>1, DaysCount, Zenon
    <3> QED  BY <3>1, <3>2
  <2> HIDE DEF near, today, y, Expiry
  <2>7. ASSUME NEW e \in tradable PROVE Expiry(near) <= Expiry(e)
    <3>1. e \in Listed(y) /\ Expires(e.year, e.month) > today + RolloverDays
      BY <2>4 DEF Listed
    <3>2. /\ e.year \in {y, y + 1} /\ e.month \in QuarterlyMonths
          /\ near.year \in {y, y + 1} /\ near.month \in QuarterlyMonths
      BY <2>2, <2>3, <3>1 DEF Listed
    <3>3. e.year \in Years /\ e.month \in 1..12 /\ near.year \in Years /\ near.month \in 1..12
      BY <2>2, <3>2, YearLength DEF QuarterlyMonths
    <3>4. Expires(e.year, e.month) \in Int /\ Expires(near.year, near.month) \in Int
      BY <3>3, ExpiresInMonth
    <3>5. ~ (Rank(e) < Rank(near))
      BY <2>1, <2>3, <2>6, <3>1, <3>4
    <3>6. e.year \in Nat /\ near.year \in Nat
      BY <3>3 DEF Years
    <3>7. 12 * near.year + near.month <= 12 * e.year + e.month
      BY <3>3, <3>5, <3>6 DEF Rank
    <3>8. e.year \in {near.year, near.year + 1}
      <4>1. CASE e.year = y
        <5>1. near.year = y
          <6>1. near.year # y + 1
            BY <2>2, <3>3, <3>6, <3>7, <4>1
          <6> QED  BY <3>2, <6>1
        <5> QED  BY <4>1, <5>1
      <4>2. CASE e.year = y + 1
        BY <3>2, <4>2
      <4> QED  BY <3>2, <4>1, <4>2
    <3>9. CASE 12 * near.year + near.month = 12 * e.year + e.month
      <4>1. near.year = e.year /\ near.month = e.month
        BY <3>3, <3>6, <3>8, <3>9
      <4> QED  BY <2>4, <3>4, <4>1
    <3>10. CASE 12 * near.year + near.month < 12 * e.year + e.month
      <4> DEFINE a == near.year
                 b == e.year
                 q == near.month
                 r == e.month
      <4>1. a \in Years /\ b \in {a, a + 1} /\ q \in QuarterlyMonths /\ r \in QuarterlyMonths
            /\ 12 * a + q < 12 * b + r
        BY <3>2, <3>3, <3>8, <3>10
      <4> HIDE DEF a, b, q, r
      <4>2. Expires(a, q) < Expires(b, r)
        BY <4>1, ExpiryOrder
      <4> QED  BY <2>4, <3>4, <4>2 DEF a, b, q, r
    <3> QED  BY <3>3, <3>6, <3>7, <3>9, <3>10
  <2> QED  BY <2>5, <2>7 DEF NearestIsFirstTradable, near, today, y, Expiry
<1> QED  BY <1>1, DateInit, DateStep, PTL DEF Spec

-----------------------------------------------------------------------------
(* Types *)

\* TypeOK with what a dispatch has in hand: the symbol it rolls to.
RunnerInv ==
  /\ TypeOK /\ DateInv /\ FeedInv
  /\ spc # "idle" => rollTo \in Codes

\* The contract of a date has a code, and the expiry it stands for is listed.
LEMMA NearestHasCode ==
  ASSUME NEW t, IsDate(t)
  PROVE  NearestContract(t, RolloverDays) \in Codes
<1>1. RolloverDays \in 0..14
  BY RolloverAssumption
<1>2. NearestExpiry(t, RolloverDays) \in Listed(t.year) /\ t.year \in Nat
  BY <1>1, NearestFirst DEF IsDate, Years
<1> DEFINE e == NearestExpiry(t, RolloverDays)
<1>3. e.year \in Int /\ e.month \in {3, 6, 9, 12}
  BY <1>2 DEF Listed, QuarterlyMonths
<1> HIDE DEF e
<1>4. e.year % 10 \in 0..9
  BY <1>3
<1>5. QuarterLetter(e.month) \in Letters
  BY <1>3 DEF QuarterLetter, Letters
<1> QED  BY <1>4, <1>5 DEF NearestContract, Code, Codes, e

\* queue_.push() keeps the queue a queue.
LEMMA PushKeeps ==
  ASSUME queue \in Seq(Event), Len(queue) <= QueueSize, NEW e \in Event, Push(e)
  PROVE  /\ queue' \in Seq(Event) /\ Len(queue') <= QueueSize
         /\ queue' = queue \/ queue' = Append(queue, e)
<1>1. QueueSize \in Nat
  BY RolloverAssumption
<1> QED  BY <1>1 DEF Push

\* So does taking the first event.
LEMMA PopKeeps ==
  ASSUME queue \in Seq(Event), Len(queue) <= QueueSize, NEW k, Pop(k)
  PROVE  /\ spc = "idle" /\ queue' = Tail(queue)
         /\ queue' \in Seq(Event) /\ Len(queue') <= QueueSize
         /\ Head(queue) \in Event /\ Head(queue) = queue[1] /\ Head(queue).kind = k
         /\ Len(queue) > 0
<1>1. QueueSize \in Nat
  BY RolloverAssumption
<1> QED  BY <1>1 DEF Pop

\* The kinds of event.
LEMMA EventKinds ==
  ASSUME NEW e \in Event
  PROVE  /\ e.kind \in {"roll", "quote"} => e.sym \in Codes
         /\ e.kind = "fill" => e.qty \in {-1, 1}
         /\ e.kind \in {"roll", "quote", "fill"}
BY DEF Event

\* Events are made of symbols and quantities.
LEMMA MakeEvent ==
  /\ \A c \in Codes : [kind |-> "roll", sym |-> c] \in Event
  /\ \A c \in Codes : [kind |-> "quote", sym |-> c] \in Event
  /\ \A n \in {-1, 1} : [kind |-> "fill", qty |-> n] \in Event
BY DEF Event

\* A new runner is well-formed.
LEMMA RunnerInit == Init => RunnerInv
<1> SUFFICES ASSUME Init PROVE RunnerInv
  OBVIOUS
<1>1. DateInv
  BY DateInit
<1>2. active \in Codes
  BY <1>1, NearestHasCode DEF Init, DateInv
<1>3. QueueSize \in Nat /\ MaxDays \in Nat
  BY RolloverAssumption
<1>4. FeedInv
  BY DEF Init, FeedInv, FeedIsActive
<1>5. TypeOK
  <2>1. queue = <<>> /\ queue \in Seq(Event) /\ Len(queue) <= QueueSize
    BY <1>3 DEF Init
  <2>2. date.month \in 1..12 /\ date.day \in 1..MonthLength(date.year, date.month)
    BY <1>1, MonthLengthNat DEF DateInv, IsDate
  <2>3. /\ active = cfgSym /\ subs = active /\ armed \in BOOLEAN /\ pos = 0
        /\ late \subseteq Codes /\ wnext = None /\ spc = "idle" /\ rollTo = None /\ order = None
    BY DEF Init
  <2>4. elapsed \in 0..MaxDays
    BY <1>1 DEF DateInv
  <2> QED  BY <1>2, <2>1, <2>2, <2>3, <2>4 DEF TypeOK
<1> QED  BY <1>1, <1>4, <1>5 DEF Init, RunnerInv

\* Every step keeps the types.
LEMMA RunnerStep == RunnerInv /\ [Next]_vars => RunnerInv'
<1> SUFFICES ASSUME RunnerInv, [Next]_vars PROVE RunnerInv'
  OBVIOUS
<1>1. DateInv' /\ FeedInv'
  BY DateStep, FeedStep DEF RunnerInv
<1>2. /\ date'.month \in 1..12 /\ date'.day \in 1..MonthLength(date'.year, date'.month)
      /\ elapsed' \in 0..MaxDays
  <2>1. date'.year \in Years /\ date'.month \in 1..12 /\ date'.day \in 1..31
        /\ date'.day <= MonthLength(date'.year, date'.month)
    BY <1>1 DEF DateInv, IsDate
  <2>2. MonthLength(date'.year, date'.month) \in 28..31
    BY <2>1, MonthLengthNat
  <2> QED  BY <1>1, <2>1, <2>2 DEF DateInv
<1>3. /\ active \in Codes /\ cfgSym \in Codes /\ armed \in BOOLEAN /\ pos \in Int
      /\ subs \in Codes \cup {None} /\ late \subseteq Codes
      /\ queue \in Seq(Event) /\ Len(queue) <= QueueSize
      /\ wnext \in Codes \cup {None}
      /\ spc \in {"idle", "activate", "subscribe"} /\ rollTo \in Codes \cup {None}
      /\ order = None \/ order \in [sym : Codes, qty : {-1, 1}]
      /\ spc # "idle" => rollTo \in Codes
      /\ spc = "idle" => subs = active
      /\ None \notin Codes
  BY RolloverAssumption DEF RunnerInv, TypeOK, FeedInv, FeedIsActive
<1> DEFINE Rest ==
      /\ active \in Codes /\ cfgSym \in Codes /\ armed \in BOOLEAN /\ pos \in Int
      /\ subs \in Codes \cup {None} /\ late \subseteq Codes
      /\ queue \in Seq(Event) /\ Len(queue) <= QueueSize
      /\ wnext \in Codes \cup {None}
      /\ spc \in {"idle", "activate", "subscribe"} /\ rollTo \in Codes \cup {None}
      /\ order = None \/ order \in [sym : Codes, qty : {-1, 1}]
      /\ spc # "idle" => rollTo \in Codes
<1>4. SUFFICES Rest'
  BY <1>1, <1>2 DEF RunnerInv, TypeOK
<1> USE DEF strategy, feed, roll, clock
<1>5. CASE NextDay
  BY <1>3, <1>5 DEF NextDay
<1>6. CASE WatchdogNearest
  <2>1. wnext' \in Codes
    BY <1>6, NearestHasCode DEF WatchdogNearest, RunnerInv, DateInv
  <2> QED  BY <1>3, <1>6, <2>1 DEF WatchdogNearest
<1>7. CASE WatchdogSame \/ WatchdogDrop
  BY <1>3, <1>7 DEF WatchdogSame, WatchdogDrop
<1>8. CASE WatchdogPush
  <2>1. queue' \in Seq(Event) /\ Len(queue') <= QueueSize
    BY <1>3, <1>8, MakeEvent, PushKeeps DEF WatchdogPush
  <2> QED  BY <1>3, <1>8, <2>1 DEF WatchdogPush
<1>9. CASE PushQuote
  <2>1. queue' \in Seq(Event) /\ Len(queue') <= QueueSize
    BY <1>3, <1>9, MakeEvent, PushKeeps DEF PushQuote
  <2> QED  BY <1>3, <1>9, <2>1 DEF PushQuote
<1>10. ASSUME NEW s \in late, PushLateQuote(s) PROVE Rest'
  <2>1. queue' \in Seq(Event) /\ Len(queue') <= QueueSize
    BY <1>3, <1>10, MakeEvent, PushKeeps DEF PushLateQuote
  <2> QED  BY <1>3, <1>10, <2>1 DEF PushLateQuote
<1>11. CASE DispatchQuote
  <2>1. queue' \in Seq(Event) /\ Len(queue') <= QueueSize
    BY <1>3, <1>11, PopKeeps DEF DispatchQuote
  <2>2. armed' \in BOOLEAN /\ pos' \in Int
        /\ (order' = None \/ order' \in [sym : Codes, qty : {-1, 1}])
    BY <1>3, <1>11 DEF DispatchQuote
  <2> QED  BY <1>3, <1>11, <2>1, <2>2 DEF DispatchQuote
<1>12. CASE DispatchFill
  <2>1. queue' \in Seq(Event) /\ Len(queue') <= QueueSize /\ Head(queue).qty \in {-1, 1}
    BY <1>3, <1>12, PopKeeps, EventKinds DEF DispatchFill
  <2>2. pos' \in Int
    BY <1>3, <1>12, <2>1 DEF DispatchFill
  <2> QED  BY <1>3, <1>12, <2>1, <2>2 DEF DispatchFill
<1>13. CASE Enter
  <2>1. order' \in [sym : Codes, qty : {-1, 1}]
    BY <1>3, <1>13 DEF Enter
  <2> QED  BY <1>3, <1>13, <2>1 DEF Enter
<1>14. CASE RollReset
  <2>1. /\ queue' \in Seq(Event) /\ Len(queue') <= QueueSize /\ Head(queue).sym \in Codes
        /\ spc = "idle"
    BY <1>3, <1>14, PopKeeps, EventKinds DEF RollReset
  <2>2. armed' \in BOOLEAN
    BY <1>14, Zenon DEF RollReset
  <2>3. late' \subseteq Codes
    BY <1>3, <1>14, <2>1 DEF RollReset
  <2>4. /\ rollTo' \in Codes /\ subs' = None /\ pos' = 0 /\ spc' = "activate"
        /\ active' = active /\ cfgSym' = cfgSym /\ wnext' = wnext /\ order' = order
    BY <1>14, <2>1 DEF RollReset
  <2> QED  BY <1>3, <2>1, <2>2, <2>3, <2>4
<1>15. CASE RollActivate
  BY <1>3, <1>15 DEF RollActivate
<1>16. CASE RollSubscribe
  BY <1>3, <1>16 DEF RollSubscribe
<1>17. CASE OrderFilled
  <2>1. order.qty \in {-1, 1}
    BY <1>3, <1>17 DEF OrderFilled
  <2>2. queue' \in Seq(Event) /\ Len(queue') <= QueueSize
    <3>1. CASE order.sym = active
      BY <1>3, <1>17, <2>1, <3>1, MakeEvent, PushKeeps DEF OrderFilled
    <3>2. CASE order.sym # active
      BY <1>3, <1>17, <3>2 DEF OrderFilled
    <3> QED  BY <3>1, <3>2
  <2> QED  BY <1>3, <1>17, <2>2 DEF OrderFilled
<1>18. CASE UNCHANGED vars
  BY <1>3, <1>18 DEF vars
<1> QED
  BY <1>5, <1>6, <1>7, <1>8, <1>9, <1>10, <1>11, <1>12, <1>13, <1>14, <1>15, <1>16,
     <1>17, <1>18 DEF Next, Watchdog, Dispatch

\* The types of the runner's state, for every start date, window and size of queue.
THEOREM RunnerTyped == Spec => []TypeOK
<1>1. RunnerInv => TypeOK
  BY DEF RunnerInv
<1> QED  BY <1>1, RunnerInit, RunnerStep, PTL DEF Spec

-----------------------------------------------------------------------------
(* The direction of a rollover *)

\* The contracts a process that runs for up to three years meets, their codes, and the
\* place of a code among them.
Soon == [year : Start.year..(Start.year + 4), month : QuarterlyMonths]
Known == {Code(e) : e \in Soon}
Place(c) == Rank(ExpiryOf(c, Start.year))

\* A code has one digit of the year: within these years it is enough.
LEMMA CodeRead ==
  ASSUME NEW e \in Soon, NEW y \in Start.year..(Start.year + 3)
  PROVE  ExpiryOf(Code(e), y) = e
<1> DEFINE c == Code(e)
           z == CHOOSE x \in (y - 3)..(y + 6) : x % 10 = c.digit
<1>1. Start.year \in Nat
  BY RolloverAssumption
<1>2. e.year \in Start.year..(Start.year + 4) /\ e.month \in {3, 6, 9, 12}
      /\ e = [year |-> e.year, month |-> e.month]
  BY DEF Soon, QuarterlyMonths
<1>3. c.digit = e.year % 10 /\ c.letter = QuarterLetter(e.month)
  BY DEF Code
<1>4. MonthOf(c.letter) = e.month
  BY <1>2, <1>3 DEF MonthOf, QuarterLetter
<1> HIDE DEF c
<1>5. e.year \in (y - 3)..(y + 6)
  BY <1>1, <1>2
<1>6. z \in (y - 3)..(y + 6) /\ z % 10 = c.digit
  BY <1>3, <1>5, Zenon
<1> HIDE DEF z
<1>7. z = e.year
  BY <1>1, <1>3, <1>5, <1>6
<1> QED  BY <1>2, <1>4, <1>7 DEF ExpiryOf, c, z

\* The place of a code is that of the contract it was made from.
LEMMA KnownPlaces ==
  /\ \A e \in Soon : Code(e) \in Known /\ Place(Code(e)) = Rank(e)
  /\ \A c \in Known : Place(c) \in Nat
  /\ \A c, b \in Known : Place(c) = Place(b) => c = b
  /\ \A c \in Known : \A y \in Start.year..(Start.year + 3) :
       Rank(ExpiryOf(c, y)) = Place(c)
<1>1. Start.year \in Nat /\ Start.year \in Start.year..(Start.year + 3)
  BY RolloverAssumption
<1>2. ASSUME NEW e \in Soon PROVE Code(e) \in Known /\ Place(Code(e)) = Rank(e)
  BY <1>1, CodeRead DEF Known, Place
<1>3. ASSUME NEW e \in Soon
      PROVE  /\ e.year \in Nat /\ e.month \in 1..12 /\ Rank(e) \in Nat
             /\ e = [year |-> e.year, month |-> e.month]
  BY <1>1 DEF Soon, QuarterlyMonths, Rank
<1>4. ASSUME NEW c \in Known PROVE Place(c) \in Nat
  <2>1. PICK e \in Soon : c = Code(e)
    BY DEF Known
  <2> QED  BY <1>2, <1>3, <2>1
<1>5. ASSUME NEW c \in Known, NEW b \in Known, Place(c) = Place(b) PROVE c = b
  <2>1. PICK e \in Soon : c = Code(e)
    BY DEF Known
  <2>2. PICK f \in Soon : b = Code(f)
    BY DEF Known
  <2>3. Rank(e) = Rank(f)
    BY <1>2, <1>5, <2>1, <2>2
  <2>4. e.year = f.year /\ e.month = f.month
    BY <1>3, <2>3 DEF Rank
  <2>5. e = f
    BY <1>3, <2>4
  <2> QED  BY <2>1, <2>2, <2>5
<1>6. ASSUME NEW c \in Known, NEW y \in Start.year..(Start.year + 3)
      PROVE  Rank(ExpiryOf(c, y)) = Place(c)
  <2>1. PICK e \in Soon : c = Code(e)
    BY DEF Known
  <2> QED  BY <1>2, <2>1, CodeRead
<1> QED  BY <1>2, <1>4, <1>5, <1>6

\* A date lies in its year.
LEMMA WithinYear ==
  ASSUME NEW t, IsDate(t)
  PROVE  /\ t.year \in Years
         /\ DayNumber(t.year, t.month, t.day) \in Int
         /\ YearStart(t.year) <= DayNumber(t.year, t.month, t.day)
         /\ DayNumber(t.year, t.month, t.day) < YearStart(t.year + 1)
<1> DEFINE y == t.year
           m == t.month
           d == t.day
           first == DayNumber(y, m, 1)
<1>1. y \in Years /\ m \in 1..12 /\ d \in 1..31 /\ d \in Int
  BY DEF IsDate
<1> HIDE DEF y, m, d
<1>2. first \in Int /\ DayNumber(y, m, d) = first + d - 1
  BY <1>1, DaysCount, Zenon
<1>3. /\ YearStart(y) \in Int /\ LeapDay(y) \in {0, 1}
      /\ YearStart(y + 1) = YearStart(y) + 365 + LeapDay(y)
  BY <1>1, YearLength
<1>4. DayNumber(y, 1, 1) = YearStart(y)
  <2>1. DayNumber(y, 1, 1) = YearStart(y) + DaysBefore[1] + 0 + 1 - 1
    BY <1>1, DayOf
  <2> QED  BY <1>3, <2>1, Table
<1>5. DayNumber(y, 12, 1) = YearStart(y) + 334 + LeapDay(y)
  <2>1. DayNumber(y, 12, 1) = YearStart(y) + DaysBefore[12] + LeapDay(y) + 1 - 1
    BY <1>1, DayOf
  <2> QED  BY <1>3, <2>1, Table
<1>6. YearStart(y) <= first
  <2>1. CASE m = 1
    BY <1>2, <1>4, <2>1
  <2>2. CASE m > 1
    <3>1. DayNumber(y, m, 1) >= DayNumber(y, 1, 1) + 28
      BY <1>1, <2>2, MonthsApart
    <3> QED  BY <1>2, <1>3, <1>4, <3>1
  <2> QED  BY <1>1, <2>1, <2>2
<1>7. first <= YearStart(y) + 334 + LeapDay(y)
  <2>1. CASE m = 12
    BY <1>2, <1>3, <1>5, <2>1
  <2>2. CASE m < 12
    <3>1. DayNumber(y, 12, 1) >= DayNumber(y, m, 1) + 28
      BY <1>1, <2>2, MonthsApart
    <3> QED  BY <1>2, <1>3, <1>5, <3>1
  <2> QED  BY <1>1, <2>1, <2>2
<1> HIDE DEF first
<1>8. /\ DayNumber(y, m, d) \in Int /\ YearStart(y) <= DayNumber(y, m, d)
      /\ DayNumber(y, m, d) < YearStart(y + 1)
  BY <1>1, <1>2, <1>3, <1>6, <1>7
<1> QED  BY <1>1, <1>8 DEF y, m, d

\* In 1095 days the year moves on by three at most.
LEMMA YearsAhead ==
  ASSUME DateInv, MaxDays <= 1095
  PROVE  date.year \in Start.year..(Start.year + 3)
<1> DEFINE a == Start.year
           b == date.year
           s == DayNumber(Start.year, Start.month, Start.day)
           n == DayNumber(date.year, date.month, date.day)
<1>1. IsDate(Start)
  BY RolloverAssumption DEF IsDate, Years
<1>2. a \in Years /\ s \in Int /\ YearStart(a) <= s /\ s < YearStart(a + 1)
  BY <1>1, WithinYear
<1>3. b \in Years /\ n \in Int /\ YearStart(b) <= n /\ n < YearStart(b + 1)
  BY WithinYear DEF DateInv
<1>4. n = s + elapsed /\ elapsed \in Nat /\ elapsed <= 1095
  BY RolloverAssumption DEF DateInv
<1> HIDE DEF a, b, s, n
<1>5. a \in Nat /\ b \in Nat /\ a >= 2020 /\ b >= 2020
  BY <1>2, <1>3 DEF Years
<1>6. YearStart(a) = 365 * (a - 2020) + (a - 2017) \div 4
      /\ YearStart(b) = 365 * (b - 2020) + (b - 2017) \div 4
      /\ YearStart(a + 1) = 365 * (a - 2019) + (a - 2016) \div 4
      /\ YearStart(b + 1) = 365 * (b - 2019) + (b - 2016) \div 4
  BY <1>5 DEF YearStart
<1>7. a <= b
  BY <1>2, <1>3, <1>4, <1>5, <1>6
<1>8. b <= a + 3
  BY <1>2, <1>3, <1>4, <1>5, <1>6
<1> QED  BY <1>5, <1>7, <1>8 DEF a, b

\* The place of today's contract.
Today == Rank(NearestExpiry(date, RolloverDays))

\* Today's contract is among those that are met.
LEMMA TodayKnown ==
  ASSUME DateInv, MaxDays <= 1095
  PROVE  /\ NearestContract(date, RolloverDays) \in Known
         /\ Place(NearestContract(date, RolloverDays)) = Today /\ Today \in Nat
<1> DEFINE e == NearestExpiry(date, RolloverDays)
<1>1. IsDate(date) /\ RolloverDays \in 0..14 /\ Start.year \in Nat
  BY RolloverAssumption DEF DateInv
<1>2. date.year \in Start.year..(Start.year + 3)
  BY YearsAhead
<1>3. e \in Listed(date.year)
  BY <1>1, NearestFirst
<1> HIDE DEF e
<1>4. e \in Soon
  <2>1. \A y \in date.year..(date.year + 1) : y \in Start.year..(Start.year + 4)
    BY <1>1, <1>2
  <2> QED  BY <1>3, <2>1 DEF Listed, Soon
<1>5. Code(e) \in Known /\ Place(Code(e)) = Rank(e) /\ Place(Code(e)) \in Nat
  BY <1>4, KnownPlaces
<1> QED  BY <1>5 DEF NearestContract, Today, e

\* It has a place on every date.
LEMMA TodayNat ==
  ASSUME NEW t, IsDate(t)
  PROVE  Rank(NearestExpiry(t, RolloverDays)) \in Nat
<1>1. RolloverDays \in 0..14
  BY RolloverAssumption
<1>2. NearestExpiry(t, RolloverDays) \in Listed(t.year) /\ t.year \in Nat
  BY <1>1, NearestFirst DEF IsDate, Years
<1> QED  BY <1>2 DEF Listed, QuarterlyMonths, Rank

\* As the date moves on, so does the contract.
LEMMA TodayGrows ==
  ASSUME DateInv, MaxDays <= 1095, NextDay
  PROVE  Today <= Today'
<1> DEFINE near == NearestExpiry(date, RolloverDays)
           next == NearestExpiry(date', RolloverDays)
           y == date.year
           n == DayNumber(date.year, date.month, date.day)
           k == DayNumber(date'.year, date'.month, date'.day)
<1>0. DateInv'
  BY NextDate
<1>1. IsDate(date) /\ IsDate(date') /\ RolloverDays \in 0..14
  BY <1>0, RolloverAssumption DEF DateInv
<1>2. Today \in Nat /\ Today = Rank(near) /\ Today' \in Nat /\ Today' = Rank(next)
  <2>1. Today \in Nat
    BY TodayKnown
  <2>2. Rank(next) \in Nat
    BY <1>1, TodayNat
  <2> QED  BY <2>1, <2>2 DEF Today
<1>3. y \in Years /\ y \in Nat /\ n \in Int
  BY <1>1, WithinYear DEF Years
<1>4. date'.year \in {y, y + 1} /\ k = n + 1
  <2>1. date'.year \in {y, y + 1}
    BY <1>1 DEF NextDay, IsDate
  <2>2. k = DayNumber(Start.year, Start.month, Start.day) + (elapsed + 1)
    BY <1>0 DEF DateInv, NextDay
  <2>3. n = DayNumber(Start.year, Start.month, Start.day) + elapsed /\ elapsed \in Int
    BY DEF DateInv
  <2> HIDE DEF n, k
  <2> QED  BY <2>1, <2>2, <2>3, StartDay
<1>5. /\ near \in Listed(y)
      /\ \A e \in Listed(y) :
           Rank(e) < Rank(near) => Expires(e.year, e.month) <= n + RolloverDays
  BY <1>1, NearestFirst
<1>6. next \in Listed(date'.year) /\ Expires(next.year, next.month) > k + RolloverDays
  BY <1>1, NearestFirst
<1> HIDE DEF near, next, y, n, k
<1>7. /\ next.year \in y..(y + 2) /\ next.month \in QuarterlyMonths
      /\ next = [year |-> next.year, month |-> next.month]
  <2>1. \A z \in date'.year..(date'.year + 1) : z \in y..(y + 2)
    BY <1>3, <1>4
  <2> QED  BY <1>6, <2>1 DEF Listed
<1>8. CASE next.year = y + 2
  <2>1. near.year \in y..(y + 1) /\ near.month \in 1..12 /\ next.month \in 1..12
    BY <1>5, <1>7 DEF Listed, QuarterlyMonths
  <2>2. 12 * near.year + near.month <= 12 * next.year + next.month
    BY <1>3, <1>8, <2>1
  <2> QED  BY <1>2, <2>2 DEF Rank
<1>9. CASE next.year # y + 2
  <2>1. next.year \in y..(y + 1)
    BY <1>3, <1>7, <1>9
  <2>2. next \in Listed(y)
    BY <1>7, <2>1 DEF Listed
  <2>3. next.year \in Years /\ next.month \in 1..12
    BY <1>3, <1>7, <2>1 DEF Years, QuarterlyMonths
  <2>4. Expires(next.year, next.month) \in Int
    BY <2>3, ExpiresInMonth
  <2>5. ~ (Rank(next) < Rank(near))
    BY <1>1, <1>3, <1>4, <1>5, <1>6, <2>2, <2>4
  <2> QED  BY <1>2, <2>5
<1> QED  BY <1>8, <1>9

\* The RolloverEvents of a queue lie between two places and do not go back.
Lined(q, lo, hi) ==
  \A i \in 1..Len(q) : q[i].kind = "roll" =>
    /\ q[i].sym \in Known /\ lo <= Place(q[i].sym) /\ Place(q[i].sym) <= hi
    /\ \A j \in 1..i : q[j].kind = "roll" => Place(q[j].sym) <= Place(q[i].sym)

\* A later bound.
LEMMA LinedWider ==
  ASSUME NEW q \in Seq(Event), NEW lo \in Nat, NEW hi \in Nat, NEW top \in Nat,
         Lined(q, lo, hi), hi <= top
  PROVE  Lined(q, lo, top)
<1>1. \A c \in Known : Place(c) \in Nat
  BY KnownPlaces
<1> QED  BY <1>1 DEF Lined

\* Other events do not matter.
LEMMA LinedOther ==
  ASSUME NEW q \in Seq(Event), NEW lo \in Nat, NEW hi \in Nat, Lined(q, lo, hi),
         NEW e \in Event, e.kind # "roll"
  PROVE  Lined(Append(q, e), lo, hi)
<1> DEFINE p == Append(q, e)
<1>1. /\ p \in Seq(Event) /\ Len(p) = Len(q) + 1 /\ Len(q) \in Nat
      /\ \A i \in 1..Len(q) : p[i] = q[i]
      /\ p[Len(q) + 1] = e
  OBVIOUS
<1> HIDE DEF p
<1>2. ASSUME NEW i \in 1..Len(p), p[i].kind = "roll"
      PROVE  /\ p[i].sym \in Known /\ lo <= Place(p[i].sym) /\ Place(p[i].sym) <= hi
             /\ \A j \in 1..i : p[j].kind = "roll" => Place(p[j].sym) <= Place(p[i].sym)
  <2>1. i # Len(q) + 1
    BY <1>1, <1>2
  <2>2. i \in 1..Len(q) /\ \A j \in 1..i : j \in 1..Len(q)
    BY <1>1, <2>1
  <2> QED  BY <1>1, <1>2, <2>2 DEF Lined
<1> QED  BY <1>2 DEF Lined, p

\* A RolloverEvent whose place is no earlier than the others'.
LEMMA LinedRoll ==
  ASSUME NEW q \in Seq(Event), NEW c \in Known, NEW lo \in Nat, lo <= Place(c),
         Lined(q, lo, Place(c)), NEW e \in Event, e.kind = "roll", e.sym = c
  PROVE  Lined(Append(q, e), lo, Place(c))
<1> DEFINE p == Append(q, e)
<1>1. /\ p \in Seq(Event) /\ Len(p) = Len(q) + 1 /\ Len(q) \in Nat
      /\ \A i \in 1..Len(q) : p[i] = q[i]
      /\ p[Len(q) + 1] = e
  OBVIOUS
<1>0. Place(c) \in Nat
  BY KnownPlaces
<1> HIDE DEF p
<1>2. ASSUME NEW i \in 1..Len(p), p[i].kind = "roll"
      PROVE  /\ p[i].sym \in Known /\ lo <= Place(p[i].sym) /\ Place(p[i].sym) <= Place(c)
             /\ \A j \in 1..i : p[j].kind = "roll" => Place(p[j].sym) <= Place(p[i].sym)
  <2>1. CASE i \in 1..Len(q)
    <3>1. \A j \in 1..i : j \in 1..Len(q)
      BY <1>1, <2>1
    <3> QED  BY <1>1, <1>2, <2>1, <3>1 DEF Lined
  <2>2. CASE i = Len(q) + 1
    <3>1. p[i] = e /\ p[i].sym = c
      BY <1>1, <2>2
    <3>2. ASSUME NEW j \in 1..i, p[j].kind = "roll" PROVE Place(p[j].sym) <= Place(c)
      <4>1. CASE j = i
        BY <1>0, <3>1, <4>1
      <4>2. CASE j # i
        <5>1. j \in 1..Len(q)
          BY <1>1, <2>2, <4>2
        <5> QED  BY <1>1, <3>2, <5>1 DEF Lined
      <4> QED  BY <4>1, <4>2
    <3> QED  BY <1>0, <3>1, <3>2
  <2> QED  BY <1>1, <2>1, <2>2
<1> QED  BY <1>2 DEF Lined, p

\* Taking the first event; when it is a RolloverEvent, the others are no earlier.
LEMMA LinedTail ==
  ASSUME NEW q \in Seq(Event), Len(q) > 0, NEW lo \in Nat, NEW hi \in Nat,
         Lined(q, lo, hi)
  PROVE  /\ Lined(Tail(q), lo, hi)
         /\ q[1].kind = "roll" =>
              /\ q[1].sym \in Known /\ lo <= Place(q[1].sym) /\ Place(q[1].sym) <= hi
              /\ Lined(Tail(q), Place(q[1].sym), hi)
<1> DEFINE p == Tail(q)
<1>1. /\ p \in Seq(Event) /\ Len(p) = Len(q) - 1 /\ Len(q) \in Nat
      /\ \A i \in 1..Len(p) : p[i] = q[i + 1]
  OBVIOUS
<1> HIDE DEF p
<1>2. ASSUME NEW i \in 1..Len(p), p[i].kind = "roll"
      PROVE  /\ p[i].sym \in Known /\ lo <= Place(p[i].sym) /\ Place(p[i].sym) <= hi
             /\ \A j \in 1..i : p[j].kind = "roll" => Place(p[j].sym) <= Place(p[i].sym)
             /\ q[1].kind = "roll" => Place(q[1].sym) <= Place(p[i].sym)
  <2>1. /\ i + 1 \in 1..Len(q) /\ p[i] = q[i + 1] /\ 1 \in 1..(i + 1)
        /\ \A j \in 1..i : p[j] = q[j + 1] /\ j + 1 \in 1..(i + 1)
    BY <1>1
  <2>2. /\ p[i].sym \in Known /\ lo <= Place(p[i].sym) /\ Place(p[i].sym) <= hi
        /\ \A j \in 1..(i + 1) : q[j].kind = "roll" => Place(q[j].sym) <= Place(p[i].sym)
    BY <1>2, <2>1 DEF Lined
  <2> QED  BY <2>1, <2>2
<1>3. Lined(p, lo, hi)
  BY <1>2 DEF Lined
<1>4. ASSUME q[1].kind = "roll"
      PROVE  /\ q[1].sym \in Known /\ lo <= Place(q[1].sym) /\ Place(q[1].sym) <= hi
             /\ Lined(p, Place(q[1].sym), hi)
  <2>1. 1 \in 1..Len(q)
    BY <1>1
  <2>2. q[1].sym \in Known /\ lo <= Place(q[1].sym) /\ Place(q[1].sym) <= hi
    BY <1>4, <2>1 DEF Lined
  <2>3. Lined(p, Place(q[1].sym), hi)
    BY <1>2, <1>4 DEF Lined
  <2> QED  BY <2>2, <2>3
<1> QED  BY <1>3, <1>4 DEF p

\* The symbol the runner is on or is about to be on.
Goal == IF spc = "activate" THEN rollTo ELSE active

\* The latest place a queued event may have: what the watchdog holds, or today's.
Horizon == IF wnext # None THEN Place(wnext) ELSE Today

\* Active symbol, dispatched event, queued events, the watchdog's "next" and today's
\* contract: each is no earlier than the one before.
RollInv ==
  /\ active \in Known /\ Goal \in Known
  /\ Place(active) <= Place(Goal) /\ Place(Goal) <= Horizon
  /\ wnext # None => wnext \in Known /\ Place(wnext) <= Today
  /\ Lined(queue, Place(Goal), Horizon)

\* At the start everything is today's contract.
LEMMA RollInit == MaxDays <= 1095 /\ Init => RollInv
<1> SUFFICES ASSUME MaxDays <= 1095, Init PROVE RollInv
  OBVIOUS
<1>1. DateInv
  BY DateInit
<1>2. /\ active = NearestContract(date, RolloverDays) /\ wnext = None /\ queue = <<>>
      /\ spc = "idle"
  BY DEF Init
<1>3. active \in Known /\ Place(active) = Today /\ Today \in Nat
  BY <1>1, <1>2, TodayKnown
<1>4. Goal = active /\ Horizon = Today
  BY <1>2 DEF Goal, Horizon
<1>5. \A lo, hi : Lined(queue, lo, hi)
  BY <1>2 DEF Lined
<1> QED  BY <1>2, <1>3, <1>4, <1>5 DEF RollInv

\* Midnight, every step of the watchdog and every dispatch keep the order.
LEMMA RollStep ==
  ASSUME MaxDays <= 1095, RunnerInv, RollInv, [Next]_vars
  PROVE  RollInv'
<1>1. /\ queue \in Seq(Event) /\ Len(queue) <= QueueSize
      /\ active \in Codes /\ wnext \in Codes \cup {None} /\ None \notin Codes
      /\ subs \in Codes \cup {None} /\ late \subseteq Codes
      /\ order = None \/ order \in [sym : Codes, qty : {-1, 1}]
  BY RolloverAssumption DEF RunnerInv, TypeOK
<1>2. /\ active \in Known /\ Goal \in Known
      /\ Place(active) <= Place(Goal) /\ Place(Goal) <= Horizon
      /\ wnext # None => wnext \in Known /\ Place(wnext) <= Today
      /\ Lined(queue, Place(Goal), Horizon)
  BY DEF RollInv
<1>3. DateInv /\ Today \in Nat
  BY TodayKnown DEF RunnerInv
<1>4. /\ Place(active) \in Nat /\ Place(Goal) \in Nat /\ (wnext # None => Place(wnext) \in Nat)
      /\ Horizon \in Nat /\ Horizon <= Today
  <2>1. \A c \in Known : Place(c) \in Nat
    BY KnownPlaces
  <2> QED  BY <1>2, <1>3, <2>1 DEF Horizon
<1>5. ASSUME NEW q, queue' = q, Lined(q, Place(Goal), Horizon),
             active' = active, Goal' = Goal, wnext' = wnext, date' = date
      PROVE  RollInv'
  <2>1. Today' = Today
    BY <1>5 DEF Today
  <2>2. Horizon' = Horizon
    BY <1>5, <2>1 DEF Horizon
  <2> QED  BY <1>2, <1>5, <2>1, <2>2 DEF RollInv
<1>6. ASSUME NEW e \in Event, e.kind # "roll", Push(e),
             active' = active, Goal' = Goal, wnext' = wnext, date' = date
      PROVE  RollInv'
  <2>1. queue' = queue \/ queue' = Append(queue, e)
    BY <1>1, <1>6, PushKeeps
  <2>2. Lined(Append(queue, e), Place(Goal), Horizon)
    BY <1>1, <1>2, <1>4, <1>6, LinedOther
  <2> QED  BY ZenonT(60), <1>2, <1>5, <1>6, <2>1, <2>2
<1>7. ASSUME NEW k, Pop(k), active' = active, Goal' = Goal, wnext' = wnext, date' = date
      PROVE  RollInv'
  <2>1. queue' = Tail(queue) /\ Len(queue) > 0
    BY <1>1, <1>7, PopKeeps
  <2>2. Lined(Tail(queue), Place(Goal), Horizon)
    BY <1>1, <1>2, <1>4, <2>1, LinedTail
  <2> QED  BY <1>5, <1>7, <2>1, <2>2
<1>8. ASSUME UNCHANGED <<active, queue, spc, rollTo>>, wnext' = None, Today' = Today
      PROVE  RollInv'
  <2>1. Goal' = Goal /\ Horizon' = Today
    BY <1>8 DEF Goal, Horizon
  <2>2. Lined(queue, Place(Goal), Today)
    BY <1>1, <1>2, <1>3, <1>4, LinedWider
  <2>3. Place(Goal) <= Today
    BY <1>2, <1>3, <1>4
  <2> QED  BY <1>2, <1>8, <2>1, <2>2, <2>3 DEF RollInv
<1> USE DEF strategy, feed, roll, clock
<1>9. CASE NextDay
  <2>1. Today <= Today' /\ Today' \in Nat
    <3>1. DateInv'
      BY <1>3, <1>9, NextDate
    <3>2. Today' \in Nat
      BY <3>1, TodayNat DEF DateInv, Today
    <3> QED  BY <1>3, <1>9, <3>2, TodayGrows
  <2>2. UNCHANGED <<active, queue, spc, rollTo, wnext>>
    BY <1>9 DEF NextDay
  <2>3. Goal' = Goal
    BY <2>2 DEF Goal
  <2>4. CASE wnext # None
    <3>1. Horizon' = Horizon /\ Place(wnext) <= Today'
      BY <1>2, <1>3, <1>4, <2>1, <2>2, <2>4 DEF Horizon
    <3> QED  BY <1>2, <2>2, <2>3, <3>1 DEF RollInv
  <2>5. CASE wnext = None
    <3>1. Horizon = Today /\ Horizon' = Today'
      BY <2>2, <2>5 DEF Horizon
    <3>2. Lined(queue, Place(Goal), Today')
      BY <1>1, <1>2, <1>4, <2>1, <3>1, LinedWider
    <3>3. Place(Goal) <= Today'
      BY <1>2, <1>3, <1>4, <2>1, <3>1
    <3> QED  BY <1>2, <2>2, <2>3, <2>5, <3>1, <3>2, <3>3 DEF RollInv
  <2> QED  BY <2>4, <2>5
<1>10. CASE WatchdogNearest
  <2>1. wnext = None /\ wnext' = NearestContract(date, RolloverDays) /\ date' = date
    BY <1>10 DEF WatchdogNearest
  <2>2. UNCHANGED <<active, queue, spc, rollTo>>
    BY <1>10 DEF WatchdogNearest
  <2>3. wnext' \in Known /\ Place(wnext') = Today
    BY <1>3, <2>1, TodayKnown
  <2>4. Goal' = Goal /\ Today' = Today
    BY <2>1, <2>2 DEF Goal, Today
  <2>5. wnext' # None
    BY <1>1, <1>3, <2>1, NearestHasCode DEF DateInv
  <2>6. Horizon = Today /\ Horizon' = Today
    BY <2>1, <2>3, <2>4, <2>5 DEF Horizon
  <2> QED  BY <1>2, <1>3, <2>2, <2>3, <2>4, <2>6 DEF RollInv
<1>11. CASE WatchdogSame \/ WatchdogDrop
  BY <1>8, <1>11 DEF WatchdogSame, WatchdogDrop, Today
<1>12. CASE WatchdogPush
  <2> DEFINE e == [kind |-> "roll", sym |-> wnext]
  <2>1. /\ wnext # None /\ wnext' = None /\ Push(e) /\ date' = date
        /\ UNCHANGED <<active, spc, rollTo>>
    BY <1>12 DEF WatchdogPush
  <2>2. e \in Event /\ e.kind = "roll" /\ e.sym = wnext
    BY <1>1, <2>1, MakeEvent
  <2> HIDE DEF e
  <2>3. queue' = queue \/ queue' = Append(queue, e)
    BY <1>1, <2>1, <2>2, PushKeeps
  <2>4. Horizon = Place(wnext) /\ wnext \in Known
    BY <1>2, <2>1 DEF Horizon
  <2>5. Lined(Append(queue, e), Place(Goal), Horizon)
    BY <1>1, <1>2, <1>4, <2>2, <2>4, LinedRoll
  <2>6. Lined(queue', Place(Goal), Horizon) /\ queue' \in Seq(Event)
    BY ZenonT(60), <1>1, <1>2, <2>1, <2>2, <2>3, <2>5, PushKeeps
  <2>7. Lined(queue', Place(Goal), Today)
    BY <1>3, <1>4, <2>6, LinedWider
  <2>8. Goal' = Goal /\ Horizon' = Today /\ Today' = Today
    BY <2>1 DEF Goal, Horizon, Today
  <2>9. Place(Goal) <= Today
    BY <1>2, <1>3, <1>4
  <2> QED  BY <1>2, <2>1, <2>7, <2>8, <2>9 DEF RollInv
<1>13. CASE PushQuote
  <2>1. [kind |-> "quote", sym |-> subs] \in Event
    BY <1>1, <1>13, MakeEvent DEF PushQuote
  <2>2. active' = active /\ Goal' = Goal /\ wnext' = wnext /\ date' = date
    BY <1>13 DEF PushQuote, Goal
  <2> QED  BY <1>6, <1>13, <2>1, <2>2 DEF PushQuote
<1>14. ASSUME NEW s \in late, PushLateQuote(s) PROVE RollInv'
  <2>1. [kind |-> "quote", sym |-> s] \in Event
    BY <1>1, <1>14, MakeEvent
  <2>2. active' = active /\ Goal' = Goal /\ wnext' = wnext /\ date' = date
    BY <1>14 DEF PushLateQuote, Goal
  <2> QED  BY <1>6, <1>14, <2>1, <2>2 DEF PushLateQuote
<1>15. CASE DispatchQuote
  <2>1. active' = active /\ Goal' = Goal /\ wnext' = wnext /\ date' = date /\ Pop("quote")
    BY <1>15 DEF DispatchQuote, Goal
  <2> QED  BY <1>7, <2>1
<1>16. CASE DispatchFill
  <2>1. active' = active /\ Goal' = Goal /\ wnext' = wnext /\ date' = date /\ Pop("fill")
    BY <1>16 DEF DispatchFill, Goal
  <2> QED  BY <1>7, <2>1
<1>17. CASE Enter
  <2>1. /\ active' = active /\ Goal' = Goal /\ wnext' = wnext /\ date' = date
        /\ queue' = queue
    BY <1>17 DEF Enter, Goal
  <2> QED  BY <1>2, <1>5, <2>1
<1>18. CASE RollReset
  <2>1. /\ Pop("roll") /\ rollTo' = Head(queue).sym /\ spc' = "activate"
        /\ active' = active /\ wnext' = wnext /\ date' = date
    BY <1>18 DEF RollReset
  <2>2. /\ queue' = Tail(queue) /\ Len(queue) > 0 /\ Head(queue) = queue[1]
        /\ queue[1].kind = "roll" /\ spc = "idle"
    BY <1>1, <2>1, PopKeeps
  <2> DEFINE c == queue[1].sym
  <2>3. /\ c \in Known /\ Place(Goal) <= Place(c) /\ Place(c) <= Horizon
        /\ Lined(queue', Place(c), Horizon)
    BY <1>1, <1>2, <1>4, <2>2, LinedTail
  <2>4. Goal' = c /\ Goal = active
    BY <2>1, <2>2 DEF Goal
  <2>5. Today' = Today /\ Horizon' = Horizon
    BY <2>1 DEF Today, Horizon
  <2> HIDE DEF c
  <2> QED  BY <1>2, <2>1, <2>3, <2>4, <2>5 DEF RollInv
<1>19. CASE RollActivate
  <2>1. /\ spc = "activate" /\ active' = rollTo /\ spc' = "subscribe"
        /\ wnext' = wnext /\ date' = date /\ queue' = queue
    BY <1>19 DEF RollActivate
  <2>2. Goal = rollTo /\ Goal' = rollTo
    BY <2>1 DEF Goal
  <2>3. Today' = Today /\ Horizon' = Horizon
    BY <2>1 DEF Today, Horizon
  <2> QED  BY <1>2, <1>4, <2>1, <2>2, <2>3 DEF RollInv
<1>20. CASE RollSubscribe
  <2>1. /\ active' = active /\ Goal' = Goal /\ wnext' = wnext /\ date' = date
        /\ queue' = queue
    BY <1>20 DEF RollSubscribe, Goal
  <2> QED  BY <1>2, <1>5, <2>1
<1>21. CASE OrderFilled
  <2>1. active' = active /\ Goal' = Goal /\ wnext' = wnext /\ date' = date
    BY <1>21 DEF OrderFilled, Goal
  <2>2. CASE order.sym = active
    <3>1. [kind |-> "fill", qty |-> order.qty] \in Event
      BY <1>1, <1>21, MakeEvent DEF OrderFilled
    <3> QED  BY <1>6, <1>21, <2>1, <2>2, <3>1 DEF OrderFilled
  <2>3. CASE order.sym # active
    BY <1>2, <1>5, <1>21, <2>1, <2>3 DEF OrderFilled
  <2> QED  BY <2>2, <2>3
<1>22. CASE UNCHANGED vars
  <2>1. /\ active' = active /\ Goal' = Goal /\ wnext' = wnext /\ date' = date
        /\ queue' = queue
    BY <1>22 DEF vars, Goal
  <2> QED  BY <1>2, <1>5, <2>1
<1> QED
  BY <1>9, <1>10, <1>11, <1>12, <1>13, <1>14, <1>15, <1>16, <1>17, <1>18, <1>19, <1>20,
     <1>21, <1>22 DEF Next, Watchdog, Dispatch

\* strategy_runner.hpp:165 -- the runner only ever rolls to a later contract, for every
\* start date, window and size of queue, however long events wait in the queue, in a
\* process that runs for up to three years (its codes have one digit of the year).
THEOREM NeverRollsBack == MaxDays <= 1095 /\ Spec => RollsForward
<1> SUFFICES ASSUME MaxDays <= 1095 PROVE Spec => RollsForward
  OBVIOUS
<1> DEFINE Inv == RunnerInv /\ RollInv
           Forward ==
             active' # active =>
               LET old == ExpiryOf(active, date.year)
                   new == ExpiryOf(active', date.year)
               IN  12 * new.year + new.month > 12 * old.year + old.month
<1>1. Init => Inv
  BY RunnerInit, RollInit
<1>2. Inv /\ [Next]_vars => Inv'
  BY RunnerStep, RollStep
<1>3. Inv /\ [Next]_vars => [Forward]_vars
  <2> SUFFICES ASSUME Inv, [Next]_vars, active' # active
               PROVE  12 * ExpiryOf(active', date.year).year + ExpiryOf(active', date.year).month
                        > 12 * ExpiryOf(active, date.year).year
                            + ExpiryOf(active, date.year).month
    OBVIOUS
  <2>1. RollActivate
    BY ZenonT(60) DEF Next, Dispatch, Watchdog, NextDay, WatchdogNearest, WatchdogSame, WatchdogPush,
         WatchdogDrop, PushQuote, PushLateQuote, DispatchQuote, DispatchFill, Enter,
         RollReset, RollSubscribe, OrderFilled, vars
  <2>2. active' = Goal
    BY <2>1 DEF RollActivate, Goal
  <2>3. /\ active \in Known /\ active' \in Known /\ Place(active) <= Place(active')
    BY <2>2 DEF RollInv
  <2>4. date.year \in Start.year..(Start.year + 3)
    BY YearsAhead DEF RunnerInv
  <2>5. /\ Place(active) \in Nat /\ Place(active') \in Nat /\ Place(active) # Place(active')
        /\ Rank(ExpiryOf(active, date.year)) = Place(active)
        /\ Rank(ExpiryOf(active', date.year)) = Place(active')
    BY <2>3, <2>4, KnownPlaces
  <2>6. Rank(ExpiryOf(active', date.year)) > Rank(ExpiryOf(active, date.year))
    BY <2>3, <2>5
  <2> QED  BY <2>6 DEF Rank
<1> QED  BY <1>1, <1>2, <1>3, PTL DEF Spec, RollsForward
=============================================================================
