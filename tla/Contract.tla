------------------------------ MODULE Contract ------------------------------
(***************************************************************************)
(* core/contract.hpp: which quarterly future is traded on a date, how its  *)
(* exchange code is formed, and what expiry day is read back from a code.  *)
(*                                                                         *)
(* A date is a record of year, month and day; an expiry is a year and a    *)
(* quarterly month.  A code keeps what the characters of {ROOT}{LETTER}{Y} *)
(* tell apart: the letter, the one digit of the year, and whether it has   *)
(* the separators of the older form ROOT-M.YY.                             *)
(***************************************************************************)
EXTENDS Integers, FiniteSetsExt

-----------------------------------------------------------------------------
(* std::chrono's calendar, for 2020..2099 *)

Leap(y) == y % 4 = 0

MonthLength(y, m) ==
  CASE m \in {4, 6, 9, 11} -> 30 [] m = 2 -> (IF Leap(y) THEN 29 ELSE 28) [] OTHER -> 31

\* Days of a common year before the first of each month.
DaysBefore == <<0, 31, 59, 90, 120, 151, 181, 212, 243, 273, 304, 334>>

\* sys_days: days since 2020-01-01
DayNumber(y, m, d) ==
  365 * (y - 2020) + (y - 2017) \div 4
    + DaysBefore[m] + (IF Leap(y) /\ m > 2 THEN 1 ELSE 0) + d - 1

\* weekday::c_encoding(): 0 is Sunday; 2020-01-01 was a Wednesday
Weekday(y, m, d) == (DayNumber(y, m, d) + 3) % 7

-----------------------------------------------------------------------------

\* Mutant of ThirdFriday: a month that begins on a Saturday is not treated apart.
ThirdFridaySaturday(y, m) == 1 + (5 - Weekday(y, m, 1)) + 14

ThirdFriday(y, m) ==
  LET wdi == Weekday(y, m, 1)
  IN  1 + (IF wdi <= 5 THEN 5 - wdi ELSE 12 - wdi) + 14

QuarterlyMonths == {3, 6, 9, 12}

IsQuarterly(m) == m \in QuarterlyMonths

NextQuarterlyMonth(m) ==
  LET later == {q \in QuarterlyMonths : q > m} IN IF later = {} THEN 3 ELSE Min(later)

\* Mutant of NextQuarterly: the year is not advanced.
NextQuarterlySameYear(e) == [e EXCEPT !.month = NextQuarterlyMonth(e.month)]

NextQuarterly(e) ==
  LET next == NextQuarterlyMonth(e.month)
  IN  [year |-> IF next <= e.month THEN e.year + 1 ELSE e.year, month |-> next]

QuarterLetter(m) == CASE m = 3 -> "H" [] m = 6 -> "M" [] m = 9 -> "U" [] m = 12 -> "Z"

\* Mutant of NearestExpiry: the window opens one day late.
NearestExpiryLate(date, rolloverDays) ==
  LET cur == [year |-> date.year, month |-> date.month]
      e   == IF IsQuarterly(date.month) THEN cur ELSE NextQuarterly(cur)
  IN  IF e = cur /\ date.day > ThirdFriday(e.year, e.month) - rolloverDays
      THEN NextQuarterly(e) ELSE e

\* nearest_contract()'s exp_year and exp_month
NearestExpiry(date, rolloverDays) ==
  LET cur == [year |-> date.year, month |-> date.month]
      e   == IF IsQuarterly(date.month) THEN cur ELSE NextQuarterly(cur)
  IN  IF e = cur /\ date.day >= ThirdFriday(e.year, e.month) - rolloverDays
      THEN NextQuarterly(e) ELSE e

\* {ROOT}{LETTER}{Y}, Y the last digit of the year
Code(e) == [letter |-> QuarterLetter(e.month), digit |-> e.year % 10, dashed |-> FALSE]

NearestContract(date, rolloverDays) == Code(NearestExpiry(date, rolloverDays))

MonthOf(letter) ==
  CASE letter = "H" -> 3 [] letter = "M" -> 6 [] letter = "U" -> 9 [] letter = "Z" -> 12

\* expiry_day(): the decade is taken to be 2020-2029
ExpiryDay(code) == ThirdFriday(2020 + code.digit, MonthOf(code.letter))

Letters == {"H", "M", "U", "Z"}
Codes == [letter : Letters, digit : 0..9, dashed : BOOLEAN]
=============================================================================
