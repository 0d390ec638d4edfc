---------------------------- MODULE SearchProofs ----------------------------
(***************************************************************************)
(* Theorems about what htsearch selects and shows.  For every form with a  *)
(* range of dates, filled in in any way: what is selected are the          *)
(* documents between the dates that were asked for.  For every list of     *)
(* matches, every database that lacks some of their records, and every     *)
(* size and number of pages: who follows the links misses no match.        *)
(***************************************************************************)
EXTENDS Display, DateRange, FiniteSetTheorems, WellFoundedInduction, TLAPS

-----------------------------------------------------------------------------
(* Induction over the numbers.                                             *)

(* Pairs of numbers, the first of which is smaller. *)
Below == {p \in Nat \X Nat : p[1] < p[2]}

(* A set of numbers has a least one. *)
LEMMA LeastOf ==
    ASSUME NEW T, T \subseteq Nat, T # {}
    PROVE  \E x \in T : \A y \in T : x <= y
<1>1. OpToRel(<, Nat) = Below
  BY DEF OpToRel, Below
<1>2. IsWellFoundedOn(Below, Nat)
  BY <1>1, NatLessThanWellFounded
<1>3. PICK x \in T : \A y \in T : ~(<<y, x>> \in Below)
  BY <1>2, WFMin
<1>4. \A y \in T : y < x => <<y, x>> \in Below
  BY DEF Below
<1>5. \A y \in T : ~(y < x)
  BY <1>3, <1>4
<1>6. x \in Nat /\ \A y \in T : y \in Nat
  OBVIOUS
<1> QED
  BY <1>5, <1>6

(* Induction over the numbers, for sets of them. *)
LEMMA FromZero ==
    ASSUME NEW S, 0 \in S, \A n \in S \cap Nat : n + 1 \in S
    PROVE  Nat \subseteq S
<1> SUFFICES ASSUME Nat \ S # {} PROVE FALSE
  OBVIOUS
<1>1. PICK x \in Nat \ S : \A y \in Nat \ S : x <= y
  BY LeastOf
<1>2. x - 1 \in S \cap Nat
  BY <1>1
<1> QED
  BY <1>1, <1>2

-----------------------------------------------------------------------------
(* The calendar.                                                           *)

(* How long a year is. *)
YearLength(y) == IF Leap(y) THEN 366 ELSE 365

(* The leap years up to n. *)
Leaps(n) == n \div 4 - n \div 100 + n \div 400

(* The sum that the time functions compute is 365 days a year and a day    *)
(* for each leap year since 1970. *)
LEMMA YearBegins ==
    \A y \in Int : DaysBeforeYear(y) = 365 * (y - 1970) + Leaps(y - 1) - 477
<1>1. Leaps(1969) = 477
  BY DEF Leaps
<1> QED
  BY <1>1 DEF DaysBeforeYear, Leaps

(* The next year begins a year later. *)
LEMMA NextYear ==
    ASSUME NEW y \in Int
    PROVE  DaysBeforeYear(y + 1) = DaysBeforeYear(y) + YearLength(y)
<1>1. DaysBeforeYear(y + 1) = 365 * (y - 1969) + Leaps(y) - 477
  BY YearBegins
<1>2. y \div 4 - (y - 1) \div 4 = IF y % 4 = 0 THEN 1 ELSE 0
  OBVIOUS
<1>3. y \div 100 - (y - 1) \div 100 = IF y % 100 = 0 THEN 1 ELSE 0
  OBVIOUS
<1>4. y \div 400 - (y - 1) \div 400 = IF y % 400 = 0 THEN 1 ELSE 0
  OBVIOUS
<1>5. (y % 400 = 0 => y % 100 = 0) /\ (y % 100 = 0 => y % 4 = 0)
  OBVIOUS
<1>6. Leaps(y) - Leaps(y - 1) = IF Leap(y) THEN 1 ELSE 0
  BY <1>2, <1>3, <1>4, <1>5 DEF Leaps, Leap
<1>7. Leaps(y) \in Int /\ Leaps(y - 1) \in Int
  BY DEF Leaps
<1>8. DaysBeforeYear(y) = 365 * (y - 1970) + Leaps(y - 1) - 477
  BY YearBegins
<1>9. 365 * (y - 1969) = 365 * (y - 1970) + 365
  OBVIOUS
<1>10. Leaps(y) = Leaps(y - 1) + (IF Leap(y) THEN 1 ELSE 0)
  BY <1>6, <1>7
<1> QED
  BY <1>1, <1>7, <1>8, <1>9, <1>10 DEF YearLength

(* Years follow one another. *)
LEMMA YearsInOrder ==
    ASSUME NEW x \in Int, NEW y \in Int, x < y
    PROVE  DaysBeforeYear(x) + YearLength(x) <= DaysBeforeYear(y)
<1>1. CASE y = x + 1
  <2>1. DaysBeforeYear(y) = DaysBeforeYear(x) + YearLength(x)
    BY <1>1, NextYear
  <2>2. DaysBeforeYear(x) \in Int /\ DaysBeforeYear(y) \in Int
    BY YearBegins DEF Leaps
  <2> QED
    BY <2>1, <2>2 DEF YearLength
<1>2. CASE y # x + 1
  <2>1. DaysBeforeYear(y) - DaysBeforeYear(x + 1) = 365 * (y - x - 1) + Leaps(y - 1) - Leaps(x)
    BY YearBegins DEF Leaps
  <2>2. Leaps(y - 1) - Leaps(x) >= -10
    BY DEF Leaps
  <2>3. Leaps(y - 1) - Leaps(x) \in Int /\ DaysBeforeYear(y) \in Int
        /\ DaysBeforeYear(x + 1) \in Int
    BY YearBegins DEF Leaps
  <2>4. 365 * (y - x - 1) >= 365
    BY <1>2
  <2>5. DaysBeforeYear(x + 1) <= DaysBeforeYear(y)
    BY <2>1, <2>2, <2>3, <2>4
  <2> QED
    BY <2>5, NextYear DEF YearLength
<1> QED
  BY <1>1, <1>2

(* The days of a year before each of its months, and the days of the year. *)
MonthBegins(y, m) ==
    CASE m = 0 -> 0 [] m = 1 -> 31 [] m = 2 -> 31 + DaysIn(y, 2)
      [] m = 3 -> 62 + DaysIn(y, 2) [] m = 4 -> 92 + DaysIn(y, 2) [] m = 5 -> 123 + DaysIn(y, 2)
      [] m = 6 -> 153 + DaysIn(y, 2) [] m = 7 -> 184 + DaysIn(y, 2) [] m = 8 -> 215 + DaysIn(y, 2)
      [] m = 9 -> 245 + DaysIn(y, 2) [] m = 10 -> 276 + DaysIn(y, 2) [] m = 11 -> 306 + DaysIn(y, 2)
      [] m = 12 -> 337 + DaysIn(y, 2)

(* How long the months are. *)
LEMMA MonthLengths ==
    ASSUME NEW y
    PROVE  /\ DaysIn(y, 1) = 31 /\ DaysIn(y, 2) = YearLength(y) - 337 /\ DaysIn(y, 3) = 31
           /\ DaysIn(y, 4) = 30 /\ DaysIn(y, 5) = 31 /\ DaysIn(y, 6) = 30
           /\ DaysIn(y, 7) = 31 /\ DaysIn(y, 8) = 31 /\ DaysIn(y, 9) = 30
           /\ DaysIn(y, 10) = 31 /\ DaysIn(y, 11) = 30 /\ DaysIn(y, 12) = 31
           /\ YearLength(y) \in {365, 366}
BY DEF DaysIn, MonthDays, YearLength

(* What DaysBeforeMonth is the sum of. *)
LEMMA SumOfMonths ==
    ASSUME NEW y, NEW m \in 1..13
    PROVE  DaysBeforeMonth(y, m) = MonthBegins(y, m - 1)
<1> DEFINE Is(s) == s = [k \in 0..12 |-> IF k = 0 THEN 0 ELSE s[k - 1] + DaysIn(y, k)]
           sum == CHOOSE s : Is(s)
           w == [k \in 0..12 |-> MonthBegins(y, k)]
<1>1. Is(w)
  <2> SUFFICES ASSUME NEW k \in 0..12
               PROVE  w[k] = IF k = 0 THEN 0 ELSE w[k - 1] + DaysIn(y, k)
    OBVIOUS
  <2>1. k \in {0, 1, 2, 3, 4, 5, 6, 7, 8, 9, 10, 11, 12}
    OBVIOUS
  <2>2. k # 0 => w[k - 1] = MonthBegins(y, k - 1)
    OBVIOUS
  <2>3. w[k] = MonthBegins(y, k)
    OBVIOUS
  <2> HIDE DEF w
  <2> QED
    BY <2>1, <2>2, <2>3, MonthLengths DEF MonthBegins
<1>2. Is(sum)
  BY <1>1
<1>4. DaysBeforeMonth(y, m) = sum[m - 1]
  BY DEF DaysBeforeMonth
<1> HIDE DEF sum
<1>3. sum[0] = 0 /\ \A k \in 1..12 : sum[k] = sum[k - 1] + DaysIn(y, k)
  BY <1>2
<1>5. sum[1] = 31 /\ sum[2] = sum[1] + DaysIn(y, 2) /\ sum[3] = sum[2] + 31
      /\ sum[4] = sum[3] + 30 /\ sum[5] = sum[4] + 31 /\ sum[6] = sum[5] + 30
      /\ sum[7] = sum[6] + 31 /\ sum[8] = sum[7] + 31 /\ sum[9] = sum[8] + 30
      /\ sum[10] = sum[9] + 31 /\ sum[11] = sum[10] + 30 /\ sum[12] = sum[11] + 31
  BY <1>3, MonthLengths
<1>6. m - 1 \in {0, 1, 2, 3, 4, 5, 6, 7, 8, 9, 10, 11, 12}
  OBVIOUS
<1>7. sum[m - 1] = MonthBegins(y, m - 1)
  BY <1>3, <1>5, <1>6, MonthLengths DEF MonthBegins
<1> QED
  BY <1>4, <1>7

(* Months follow one another. *)
LEMMA NextMonth ==
    ASSUME NEW y, NEW m \in 1..12
    PROVE  /\ DaysBeforeMonth(y, m) \in Nat /\ DaysIn(y, m) \in 28..31
           /\ DaysBeforeMonth(y, m + 1) = DaysBeforeMonth(y, m) + DaysIn(y, m)
           /\ DaysBeforeMonth(y, m + 1) <= YearLength(y)
           /\ m = 1 => DaysBeforeMonth(y, m) = 0
           /\ m = 12 => DaysBeforeMonth(y, m + 1) = YearLength(y)
<1>1. m \in {1, 2, 3, 4, 5, 6, 7, 8, 9, 10, 11, 12}
  OBVIOUS
<1>2. /\ DaysBeforeMonth(y, m) = MonthBegins(y, m - 1)
      /\ DaysBeforeMonth(y, m + 1) = MonthBegins(y, m)
  BY SumOfMonths
<1> QED
  BY <1>1, <1>2, MonthLengths DEF MonthBegins

(* A month is over before a later one of the year begins. *)
LEMMA MonthsInOrder ==
    ASSUME NEW y, NEW m \in 1..12, NEW n \in 1..12, m < n
    PROVE  DaysBeforeMonth(y, m) + DaysIn(y, m) <= DaysBeforeMonth(y, n)
<1>1. /\ m \in {1, 2, 3, 4, 5, 6, 7, 8, 9, 10, 11, 12}
      /\ n \in {1, 2, 3, 4, 5, 6, 7, 8, 9, 10, 11, 12}
  OBVIOUS
<1>2. /\ DaysBeforeMonth(y, m + 1) = MonthBegins(y, m)
      /\ DaysBeforeMonth(y, n) = MonthBegins(y, n - 1)
  BY SumOfMonths
<1>3. MonthBegins(y, m) <= MonthBegins(y, n - 1)
  BY <1>1, MonthLengths DEF MonthBegins
<1> QED
  BY <1>2, <1>3, NextMonth

(* A date of the calendar. *)
IsDate(d) ==
    d.year \in Int /\ d.month \in 1..12 /\ d.day \in 1..DaysIn(d.year, d.month)

(* It is a day of its year. *)
LEMMA InItsYear ==
    ASSUME NEW d, IsDate(d)
    PROVE  /\ DayOf(d) \in Int /\ DaysBeforeYear(d.year) \in Int
           /\ DaysBeforeYear(d.year) <= DayOf(d)
           /\ DayOf(d) < DaysBeforeYear(d.year) + YearLength(d.year)
<1>1. DaysBeforeYear(d.year) \in Int
  BY YearBegins DEF IsDate, Leaps
<1> QED
  BY <1>1, NextMonth, MonthLengths DEF IsDate, DayOf

(* Days count dates in their order. *)
LEMMA DatesInOrder ==
    ASSUME NEW d, NEW e, IsDate(d), IsDate(e)
    PROVE  Earlier(d, e) <=> DayOf(d) <= DayOf(e)
<1>1. ASSUME NEW f, NEW g, IsDate(f), IsDate(g), f.year < g.year
      PROVE  DayOf(f) < DayOf(g)
  <2>1. DaysBeforeYear(f.year) + YearLength(f.year) <= DaysBeforeYear(g.year)
    BY <1>1, YearsInOrder DEF IsDate
  <2> QED
    BY <1>1, <2>1, InItsYear, MonthLengths
<1>2. ASSUME NEW f, NEW g, IsDate(f), IsDate(g), f.year = g.year, f.month < g.month
      PROVE  DayOf(f) < DayOf(g)
  <2>1. DaysBeforeMonth(f.year, f.month) + DaysIn(f.year, f.month)
            <= DaysBeforeMonth(f.year, g.month)
    BY <1>2, MonthsInOrder DEF IsDate
  <2>2. /\ DaysBeforeMonth(f.year, f.month) \in Nat /\ DaysIn(f.year, f.month) \in 28..31
        /\ DaysBeforeMonth(f.year, g.month) \in Nat
    BY <1>2, NextMonth DEF IsDate
  <2>3. DaysBeforeYear(f.year) \in Int /\ f.day \in Int /\ g.day \in Nat
        /\ f.day <= DaysIn(f.year, f.month) /\ g.day >= 1
    BY <1>2, InItsYear, <2>2, NextMonth DEF IsDate
  <2> QED
    BY <1>2, <2>1, <2>2, <2>3 DEF DayOf
<1>3. ASSUME d.year = e.year, d.month = e.month
      PROVE  d.day <= e.day <=> DayOf(d) <= DayOf(e)
  <2>1. /\ DaysBeforeMonth(d.year, d.month) \in Nat /\ DaysBeforeYear(d.year) \in Int
        /\ d.day \in Int /\ e.day \in Int
    BY <1>3, NextMonth, InItsYear DEF IsDate
  <2> QED
    BY <1>3, <2>1 DEF DayOf
<1>4. DayOf(d) \in Int /\ DayOf(e) \in Int /\ d.year \in Int /\ e.year \in Int
      /\ d.month \in Int /\ e.month \in Int
  BY InItsYear DEF IsDate
<1>5. CASE d.year < e.year
  BY <1>1, <1>4, <1>5 DEF Earlier
<1>6. CASE e.year < d.year
  BY <1>1, <1>4, <1>6 DEF Earlier
<1>7. CASE d.year = e.year /\ d.month < e.month
  BY <1>2, <1>4, <1>7 DEF Earlier
<1>8. CASE d.year = e.year /\ e.month < d.month
  BY <1>2, <1>4, <1>8 DEF Earlier
<1>9. CASE d.year = e.year /\ e.month = d.month
  BY <1>3, <1>4, <1>9 DEF Earlier
<1> QED
  BY <1>4, <1>5, <1>6, <1>7, <1>8, <1>9

(* The last day that DateOf knows, from 1970 on. *)
LastKnown == DaysBeforeYear(2101) - 1

(* Every one of them has its date (localtime). *)
LEMMA DateOfDay ==
    ASSUME NEW n \in 0..LastKnown
    PROVE  /\ IsDate(DateOf(n)) /\ DayOf(DateOf(n)) = n
           /\ DateOf(n) = [year |-> DateOf(n).year, month |-> DateOf(n).month,
                           day |-> DateOf(n).day]
           /\ DateOf(n).year \in 1970..2100
<1> DEFINE InYear(y) == DaysBeforeYear(y) <= n /\ n < DaysBeforeYear(y + 1)
           after == {y \in 1971..2101 : n < DaysBeforeYear(y)}
<1>1. DaysBeforeYear(2101) = 47847 /\ DaysBeforeYear(1970) = 0
  BY YearBegins DEF Leaps
<1>2. PICK z \in after : \A y \in after : z <= y
  <2>1. 2101 \in after
    <3>1. n < DaysBeforeYear(2101)
      BY <1>1 DEF LastKnown
    <3> QED
      BY <3>1
  <2>2. after \subseteq Nat
    OBVIOUS
  <2>3. after # {}
    BY <2>1
  <2> HIDE DEF after
  <2> QED
    BY <2>2, <2>3, LeastOf
<1>3. z - 1 \in 1970..2100 /\ InYear(z - 1)
  <2>1. z \in 1971..2101 /\ n < DaysBeforeYear(z)
    OBVIOUS
  <2>2. DaysBeforeYear(z - 1) \in Int
    BY <2>1, YearBegins DEF Leaps
  <2>3. CASE z = 1971
    BY <1>1, <2>1, <2>3
  <2>4. CASE z # 1971
    <3>1. z - 1 \notin after
      BY <1>2, <2>1, SMTT(30)
    <3> QED
      BY <2>1, <2>2, <2>4, <3>1
  <2> QED
    BY <2>3, <2>4
<1> HIDE DEF after
<1> DEFINE year == CHOOSE y \in 1902..2100 : InYear(y)
<1>4. year \in 1902..2100 /\ InYear(year)
  <2>1. \E y \in 1902..2100 : InYear(y)
    BY <1>3
  <2> HIDE DEF InYear
  <2> QED
    BY <2>1
<1> HIDE DEF year
<1>5. /\ DaysBeforeYear(year) \in Int
      /\ DaysBeforeYear(year + 1) = DaysBeforeYear(year) + YearLength(year)
  <2>1. year \in Int
    BY <1>4
  <2>2. DaysBeforeYear(year) \in Int
    BY <2>1, YearBegins DEF Leaps
  <2> QED
    BY <2>1, <2>2, NextYear
<1>6. year >= 1970
  <2> SUFFICES ASSUME year < 1970 PROVE FALSE
    BY <1>4
  <2>1. DaysBeforeYear(year) + YearLength(year) <= DaysBeforeYear(1970)
    BY <1>4, YearsInOrder
  <2>2. DaysBeforeYear(year + 1) <= 0
    BY <1>1, <1>5, <2>1
  <2>3. n < DaysBeforeYear(year + 1)
    BY <1>4
  <2>4. DaysBeforeYear(year + 1) \in Int
    BY <1>4, YearBegins DEF Leaps
  <2> QED
    BY <2>2, <2>3, <2>4
<1> DEFINE InMonth(y, m) ==
              /\ DaysBeforeYear(y) + DaysBeforeMonth(y, m) <= n
              /\ n < DaysBeforeYear(y) + DaysBeforeMonth(y, m) + DaysIn(y, m)
           late == {m \in 1..12 : n < DaysBeforeYear(year) + DaysBeforeMonth(year, m + 1)}
<1>7. PICK k \in late : \A m \in late : k <= m
  <2>1. 12 \in late
    BY <1>4, <1>5, NextMonth
  <2>2. late \subseteq Nat
    OBVIOUS
  <2> HIDE DEF late
  <2> QED
    BY <2>1, <2>2, LeastOf
<1>8. InMonth(year, k)
  <2>1. /\ DaysBeforeMonth(year, k) \in Nat /\ DaysIn(year, k) \in 28..31
        /\ DaysBeforeMonth(year, k + 1) = DaysBeforeMonth(year, k) + DaysIn(year, k)
        /\ k \in 1..12
    BY NextMonth
  <2>2. CASE k = 1
    BY <1>4, <1>5, <2>1, <2>2, NextMonth
  <2>3. CASE k # 1
    <3>1. k - 1 \notin late /\ k - 1 \in 1..12
      BY <1>7, <2>1, <2>3
    <3> QED
      BY <1>5, <2>1, <3>1
  <2> QED
    BY <2>2, <2>3
<1> DEFINE month == CHOOSE m \in 1..12 : InMonth(year, m)
<1>9. month \in 1..12 /\ InMonth(year, month)
  <2>1. \E m \in 1..12 : InMonth(year, m)
    BY <1>8
  <2> HIDE DEF InMonth
  <2> QED
    BY <2>1
<1> DEFINE day == n - DaysBeforeYear(year) - DaysBeforeMonth(year, month) + 1
<1>10. DateOf(n) = [year |-> year, month |-> month, day |-> day]
  BY DEF DateOf, year
<1> HIDE DEF month
<1>11. DaysBeforeMonth(year, month) \in Nat /\ DaysIn(year, month) \in 28..31
  BY <1>9, NextMonth
<1>12. /\ day \in 1..DaysIn(year, month)
       /\ n = DaysBeforeYear(year) + DaysBeforeMonth(year, month) + day - 1
  BY <1>5, <1>9, <1>11
<1> HIDE DEF day
<1> QED
  BY <1>4, <1>6, <1>9, <1>10, <1>12 DEF IsDate, DayOf

-----------------------------------------------------------------------------
(* The range.                                                              *)

(* A time_t of 32 bits, which ends in January 2038. *)
EndsIn2038 ==
    /\ LastDay \in Int /\ DaysBeforeYear(2038) <= LastDay /\ LastDay < DaysBeforeYear(2039)
    /\ Eternities = {LastDay * PerDay + LastSecond}

(* Months of the calendar, and a start before the year in which time ends: *)
(* a later one counts as no start at all. *)
SaneForms ==
    \A f \in Forms : f.start.month <= 12 /\ f.end.month <= 12 /\ FullYear(f.start.year) <= 2037

(* What setting a field of a date gives. *)
LEMMA FieldSet ==
    ASSUME NEW a, NEW b, NEW c, NEW x
    PROVE  LET d == [year |-> a, month |-> b, day |-> c]
           IN /\ [d EXCEPT !.day = x] = [year |-> a, month |-> b, day |-> x]
              /\ [d EXCEPT !.month = x] = [year |-> a, month |-> x, day |-> c]
              /\ [d EXCEPT !.year = x] = [year |-> x, month |-> b, day |-> c]
OBVIOUS

(* Without relative fields the dates are those that were asked for. *)
LEMMA DatesAsAsked ==
    ASSUME EndsIn2038, form \in Forms, eternity \in Eternities,
           ~Relative(form.start), ~Relative(form.end)
    PROVE  StartDate(form.start) = AskedStart /\ EndDate(form.end) = AskedEnd
<1>1. \A x \in FieldNames : /\ form.start[x] \in Int /\ form.start[x] >= 0
                            /\ form.end[x] \in Int /\ form.end[x] >= 0
  BY DateAssumption DEF Relative
<1>2. /\ form.start.day \in Nat /\ form.start.month \in Nat /\ form.start.year \in Nat
      /\ form.end.day \in Nat /\ form.end.month \in Nat /\ form.end.year \in Nat
  BY <1>1 DEF FieldNames
<1>3. DaysBeforeYear(2038) = 24837 /\ DaysBeforeYear(2039) = 25202
  BY YearBegins DEF Leaps
<1>4. /\ LastDay \in Int /\ 24837 <= LastDay /\ LastDay <= 25201
      /\ LastDay \in 0..LastKnown /\ LastKnown \in Int
  <2>1. LastKnown \in Int /\ LastKnown > 25201
    BY YearBegins DEF LastKnown, Leaps
  <2> QED
    BY <1>3, <2>1 DEF EndsIn2038
<1>5. Today \in 0..LastKnown
  BY <1>4, DateAssumption
<1> DEFINE d == DateOf(Today)
<1>6. d = [year |-> d.year, month |-> d.month, day |-> d.day]
  BY <1>5, DateOfDay
<1>7. RelativeDay(form.start) = d /\ RelativeDay(form.end) = d
  <2>1. Today + 0 = Today
    BY <1>5
  <2> QED
    BY <1>2, <2>1 DEF RelativeDay
<1>8. EndOfTime.year = 2038
  <2>1. eternity = LastDay * 3 + 2
    BY DEF EndsIn2038, PerDay, LastSecond
  <2>2. eternity \div 3 = LastDay
    BY <1>4, <2>1
  <2>3. EndOfTime = DateOf(LastDay)
    BY <2>2 DEF EndOfTime, PerDay, LastSecond
  <2> DEFINE e == DateOf(LastDay)
  <2>4. IsDate(e) /\ DayOf(e) = LastDay
    BY <1>4, DateOfDay
  <2>5. /\ DaysBeforeYear(e.year) <= LastDay
        /\ LastDay < DaysBeforeYear(e.year) + YearLength(e.year)
        /\ e.year \in Int /\ DaysBeforeYear(e.year) \in Int
    BY <2>4, InItsYear DEF IsDate
  <2> HIDE DEF e
  <2>6. ~(e.year < 2038)
    <3> SUFFICES ASSUME e.year < 2038 PROVE FALSE
      OBVIOUS
    <3>1. DaysBeforeYear(e.year) + YearLength(e.year) <= DaysBeforeYear(2038)
      BY <2>5, YearsInOrder
    <3> QED
      BY <3>1, <2>5, <1>3, <1>4, MonthLengths
  <2>7. ~(e.year > 2038)
    <3> SUFFICES ASSUME 2038 < e.year PROVE FALSE
      BY <2>5
    <3>1. DaysBeforeYear(2038) + YearLength(2038) <= DaysBeforeYear(e.year)
      BY <2>5, YearsInOrder
    <3>2. DaysBeforeYear(2039) = DaysBeforeYear(2038) + YearLength(2038)
      BY NextYear, <1>3
    <3> QED
      BY <3>1, <3>2, <2>5, <1>3, <1>4, MonthLengths
  <2> QED
    BY <2>3, <2>5, <2>6, <2>7 DEF e
<1> HIDE DEF d
<1>9. FullYear(1970) = 1970 /\ FullYear(2038) = 2038
  BY DEF FullYear
<1>10. StartDate(form.start) = AskedStart
  <2> DEFINE f == form.start
  <2>1. /\ f.day = 0 \/ f.day > 0
        /\ f.month = 0 \/ f.month > 0
        /\ f.year = 0 \/ f.year > 0
        /\ ~(f.day < 0) /\ ~(f.month < 0) /\ ~(f.year < 0)
    BY <1>2
  <2> DEFINE e == [d EXCEPT !.day = Given(f.day, 1)]
             g == [e EXCEPT !.month = Given(f.month, 1)]
             h == [g EXCEPT !.year = FullYear(Given(f.year, 1970))]
  <2>2. MonthSet(e, f, 1) = g
    BY <2>1, <1>2 DEF MonthSet, Given
  <2>3. YearSet(g, f, 1970) = h
    <3> HIDE DEF g
    <3>1. CASE f.year = 0
      BY <2>1, <3>1, <1>9 DEF YearSet, Given
    <3>2. CASE f.year > 0
      BY <1>2, <3>2 DEF YearSet, Given
    <3> QED
      BY <2>1, <3>1, <3>2
  <2>4. (CASE f.day > 0 -> [d EXCEPT !.day = f.day]
           [] f.day = 0 /\ ~Relative(f) -> [d EXCEPT !.day = 1]
           [] OTHER -> d) = e
    BY <2>1, <1>2 DEF Given
  <2>5. StartDate(f) = h
    BY <1>7, <2>2, <2>3, <2>4 DEF StartDate
  <2>6. h = [year |-> FullYear(Given(f.year, 1970)), month |-> Given(f.month, 1),
             day |-> Given(f.day, 1)]
    <3>1. e = [year |-> d.year, month |-> d.month, day |-> Given(f.day, 1)]
      BY <1>6, FieldSet
    <3> HIDE DEF e
    <3>2. g = [year |-> d.year, month |-> Given(f.month, 1), day |-> Given(f.day, 1)]
      BY <3>1, FieldSet
    <3> HIDE DEF g
    <3> QED
      BY <3>2, FieldSet
  <2> QED
    BY <2>5, <2>6 DEF AskedStart
<1>11. EndDate(form.end) = AskedEnd
  <2> DEFINE f == form.end
  <2>1. /\ f.day = 0 \/ f.day > 0
        /\ f.month = 0 \/ f.month > 0
        /\ f.year = 0 \/ f.year > 0
        /\ ~(f.day < 0) /\ ~(f.month < 0) /\ ~(f.year < 0)
    BY <1>2
  <2> DEFINE y == FullYear(Given(f.year, 2038))
             m == Given(f.month, 12)
             e == [d EXCEPT !.month = m]
             g == [e EXCEPT !.year = y]
             h == [g EXCEPT !.day = Given(f.day, DaysIn(y, m))]
  <2>2. MonthSet(d, f, 12) = e
    BY <2>1, <1>2 DEF MonthSet, Given
  <2>3. YearSet(e, f, 2038) = g
    <3> HIDE DEF e
    <3>1. CASE f.year = 0
      BY <2>1, <3>1, <1>9 DEF YearSet, Given
    <3>2. CASE f.year > 0
      BY <1>2, <3>2 DEF YearSet, Given
    <3> QED
      BY <2>1, <3>1, <3>2
  <2>4. g.year = y /\ g.month = m
    BY <1>6
  <2>5. EndDate(f) = h
    <3>1. YearSet(MonthSet(RelativeDay(f), f, 12), f, EndOfTime.year) = g
      BY <1>7, <1>8, <2>2, <2>3
    <3> HIDE DEF g
    <3>2. EndDate(f) = CASE f.day > 0 -> [g EXCEPT !.day = f.day]
                         [] f.day = 0 /\ ~Relative(f) ->
                               [g EXCEPT !.day = DaysIn(g.year, g.month)]
                         [] OTHER -> g
      BY <3>1 DEF EndDate
    <3> QED
      BY <2>1, <1>2, <2>4, <3>2 DEF Given
  <2>6. h = [year |-> y, month |-> m, day |-> Given(f.day, DaysIn(y, m))]
    <3>1. e = [year |-> d.year, month |-> m, day |-> d.day]
      BY <1>6, FieldSet
    <3> HIDE DEF e
    <3>2. g = [year |-> y, month |-> m, day |-> d.day]
      BY <3>1, FieldSet
    <3> HIDE DEF g
    <3> QED
      BY <3>2, FieldSet
  <2> QED
    BY <2>5, <2>6 DEF AskedEnd
<1> QED
  BY <1>10, <1>11

(* What ComputeRange leaves. *)
RangeInv ==
    /\ form \in Forms /\ eternity \in Eternities
    /\ ranged /\ DateGiven /\ ~Relative(form.start) /\ ~Relative(form.end)
          /\ Real(AskedStart) /\ Real(AskedEnd) /\ Earlier(AskedStart, AskedEnd) =>
          /\ from = DayOf(AskedStart) * PerDay
          /\ to = (IF DayOf(AskedEnd) > LastDay THEN LastDay ELSE DayOf(AskedEnd)) * PerDay
                      + LastSecond

(* The days that are asked for. *)
LEMMA AskedDays ==
    ASSUME EndsIn2038, SaneForms, form \in Forms, ~Relative(form.start), ~Relative(form.end),
           Real(AskedStart), Real(AskedEnd), Earlier(AskedStart, AskedEnd)
    PROVE  /\ IsDate(AskedStart) /\ IsDate(AskedEnd)
           /\ DayOf(AskedStart) \in 0..LastDay /\ DayOf(AskedEnd) \in Nat
           /\ DayOf(AskedStart) <= DayOf(AskedEnd)
<1>1. \A x \in FieldNames : /\ form.start[x] \in Int /\ form.start[x] >= 0
                            /\ form.end[x] \in Int /\ form.end[x] >= 0
  BY DateAssumption DEF Relative
<1>2. /\ form.start.day \in Nat /\ form.start.month \in Nat /\ form.start.year \in Nat
      /\ form.end.day \in Nat /\ form.end.month \in Nat /\ form.end.year \in Nat
      /\ form.start.month <= 12 /\ form.end.month <= 12
      /\ FullYear(form.start.year) <= 2037
  BY <1>1 DEF FieldNames, SaneForms
<1>3. AskedStart.year \in 1970..2037 /\ AskedStart.month \in 1..12 /\ AskedStart.day \in Nat
      /\ AskedStart.day >= 1
  <2>1. FullYear(Given(form.start.year, 1970)) \in Int
        /\ FullYear(Given(form.start.year, 1970)) <= 2037
    BY <1>2 DEF FullYear, Given
  <2>2. AskedStart.year = FullYear(Given(form.start.year, 1970))
        /\ AskedStart.month = Given(form.start.month, 1)
        /\ AskedStart.day = Given(form.start.day, 1)
    BY DEF AskedStart
  <2>3. AskedStart.year >= 1970
    BY DEF Real
  <2> QED
    BY <1>2, <2>1, <2>2, <2>3 DEF Given
<1>4. AskedEnd.year \in Int /\ AskedEnd.year >= 1970 /\ AskedEnd.month \in 1..12
      /\ AskedEnd.day \in Nat /\ AskedEnd.day >= 1
  <2> DEFINE y == FullYear(Given(form.end.year, 2038))
             m == Given(form.end.month, 12)
  <2>1. y \in Int /\ m \in 1..12
    BY <1>2 DEF FullYear, Given
  <2>2. AskedEnd.year = y /\ AskedEnd.month = m
        /\ AskedEnd.day = Given(form.end.day, DaysIn(y, m))
    BY DEF AskedEnd
  <2>3. AskedEnd.year >= 1970
    BY DEF Real
  <2> HIDE DEF y, m
  <2>4. DaysIn(y, m) \in 28..31
    BY <2>1, NextMonth
  <2> QED
    BY <1>2, <2>1, <2>2, <2>3, <2>4 DEF Given
<1>5. IsDate(AskedStart) /\ IsDate(AskedEnd)
  <2>1. AskedStart.day <= DaysIn(AskedStart.year, AskedStart.month)
        /\ AskedEnd.day <= DaysIn(AskedEnd.year, AskedEnd.month)
    BY DEF Real
  <2>2. DaysIn(AskedStart.year, AskedStart.month) \in 28..31
        /\ DaysIn(AskedEnd.year, AskedEnd.month) \in 28..31
    BY <1>3, <1>4, NextMonth
  <2> HIDE DEF AskedStart, AskedEnd
  <2> QED
    BY <1>3, <1>4, <2>1, <2>2 DEF IsDate
<1> DEFINE s == AskedStart
<1> HIDE DEF s
<1>6. DaysBeforeYear(1970) = 0 /\ DaysBeforeYear(2038) = 24837
  BY YearBegins DEF Leaps
<1>7. ASSUME NEW d, IsDate(d), d.year >= 1970
      PROVE  DayOf(d) \in Nat
  <2>1. d.year \in Int /\ DaysBeforeYear(d.year) \in Int /\ DaysBeforeYear(d.year) <= DayOf(d)
        /\ DayOf(d) \in Int
    BY <1>7, InItsYear DEF IsDate
  <2>2. CASE d.year = 1970
    BY <1>6, <2>1, <2>2
  <2>3. CASE d.year # 1970
    <3>1. DaysBeforeYear(1970) + YearLength(1970) <= DaysBeforeYear(d.year)
      BY <1>7, <2>1, <2>3, YearsInOrder
    <3> QED
      BY <1>6, <2>1, <3>1, MonthLengths
  <2> QED
    BY <2>2, <2>3
<1>8. DayOf(AskedStart) \in Nat /\ DayOf(AskedEnd) \in Nat
  BY <1>3, <1>4, <1>5, <1>7
<1>9. DayOf(AskedStart) <= LastDay
  <2>1. DayOf(AskedStart) < DaysBeforeYear(AskedStart.year) + YearLength(AskedStart.year)
    BY <1>5, InItsYear
  <2>2. DaysBeforeYear(AskedStart.year) + YearLength(AskedStart.year) <= DaysBeforeYear(2038)
    BY <1>3, YearsInOrder
  <2>3. DaysBeforeYear(AskedStart.year) \in Int /\ YearLength(AskedStart.year) \in Int
    BY <1>5, InItsYear, MonthLengths
  <2>4. DayOf(AskedStart) < 24837
    BY <1>6, <1>8, <2>1, <2>2, <2>3
  <2>5. 24837 <= LastDay /\ LastDay \in Int
    BY <1>6 DEF EndsIn2038
  <2> QED
    BY <1>8, <2>4, <2>5
<1>10. DayOf(AskedStart) <= DayOf(AskedEnd)
  BY <1>5, DatesInOrder
<1>11. LastDay \in Int
  BY DEF EndsIn2038
<1> QED
  BY <1>5, <1>8, <1>9, <1>10, <1>11

(* The range is the one that was asked for. *)
LEMMA RangeComputed ==
    ASSUME EndsIn2038, SaneForms, RangeInv, [ComputeRange]_rangeVars
    PROVE  RangeInv'
<1>1. CASE UNCHANGED rangeVars
  BY <1>1 DEF rangeVars, RangeInv, DateGiven, AskedStart, AskedEnd
<1>2. CASE ComputeRange
  <2>1. form' = form /\ eternity' = eternity /\ form \in Forms /\ eternity \in Eternities
    BY <1>2 DEF ComputeRange, RangeInv
  <2>2. AskedStart' = AskedStart /\ AskedEnd' = AskedEnd /\ DateGiven' = DateGiven
    BY <2>1 DEF AskedStart, AskedEnd, DateGiven
  <2> SUFFICES ASSUME DateGiven, ~Relative(form.start), ~Relative(form.end),
                      Real(AskedStart), Real(AskedEnd), Earlier(AskedStart, AskedEnd)
               PROVE  /\ from' = DayOf(AskedStart) * PerDay
                      /\ to' = (IF DayOf(AskedEnd) > LastDay THEN LastDay ELSE DayOf(AskedEnd))
                                   * PerDay + LastSecond
    BY <2>1, <2>2 DEF RangeInv
  <2> DEFINE a == DayOf(AskedStart)  b == DayOf(AskedEnd)
  <2>3. a \in 0..LastDay /\ b \in Nat /\ a <= b
    BY <2>1, AskedDays
  <2>4. StartDate(form.start) = AskedStart /\ EndDate(form.end) = AskedEnd
    BY <2>1, DatesAsAsked
  <2>5. eternity = LastDay * PerDay + LastSecond /\ LastDay \in Int
    BY <2>1 DEF EndsIn2038
  <2> DEFINE s == MkTime(StartDate(form.start), 0)
             e == MkTime(EndDate(form.end), LastSecond)
             last == (IF b > LastDay THEN LastDay ELSE b) * PerDay + LastSecond
  <2>6. s = (IF a < 0 \/ a > LastDay THEN -1 ELSE a * PerDay + 0)
        /\ e = (IF b < 0 \/ b > LastDay THEN -1 ELSE b * PerDay + LastSecond)
    BY <2>4 DEF MkTime
  <2> HIDE DEF a, b
  <2>7. s = a * PerDay
    BY <2>3, <2>5, <2>6 DEF PerDay, LastSecond
  <2>8. (IF e < 0 THEN eternity ELSE e) = last
    BY <2>3, <2>5, <2>6 DEF PerDay, LastSecond
  <2>9. ~(s < 0) /\ ~(last < s)
    BY <2>3, <2>5, <2>7 DEF PerDay, LastSecond
  <2>10. LET start == IF s < 0 THEN 0 ELSE s
             end == IF e < 0 THEN eternity ELSE e
         IN IF end < start THEN from' = end /\ to' = start
            ELSE from' = start /\ to' = end
    BY <1>2 DEF ComputeRange
  <2> HIDE DEF s, e, last
  <2>11. from' = s /\ to' = last
    BY <2>8, <2>9, <2>10
  <2> QED
    BY <2>7, <2>11 DEF a, b, last
<1> QED
  BY <1>1, <1>2

(* Dates without relative fields that are real and in order select, to the *)
(* second, the documents of the days from the first to the last, whatever  *)
(* fields are left empty and in whatever year. *)
THEOREM RangeIsAsAsked ==
    ASSUME EndsIn2038, SaneForms
    PROVE  RangeSpec => []RangeAsAsked
<1>1. RangeInit => RangeInv
  BY DEF RangeInit, RangeInv
<1>2. RangeInv /\ [ComputeRange]_rangeVars => RangeInv'
  BY RangeComputed
<1>3. ASSUME RangeInv
      PROVE  RangeAsAsked
  <2> SUFFICES ASSUME ranged, DateGiven, ~Relative(form.start), ~Relative(form.end),
                      Real(AskedStart), Real(AskedEnd), Earlier(AskedStart, AskedEnd),
                      NEW n \in DaysToTry, NEW part \in 0..LastSecond
               PROVE  InRange(n * PerDay + part) <=>
                         Earlier(AskedStart, DateOf(n)) /\ Earlier(DateOf(n), AskedEnd)
    BY DEF RangeAsAsked
  <2> DEFINE a == DayOf(AskedStart)  b == DayOf(AskedEnd)
  <2>1. IsDate(AskedStart) /\ IsDate(AskedEnd) /\ a \in 0..LastDay /\ b \in Nat /\ a <= b
    BY <1>3, AskedDays DEF RangeInv
  <2>2. n \in 0..LastDay
    BY DEF DaysToTry
  <2>3. n \in 0..LastKnown /\ LastDay \in Int
    <3>1. LastDay \in Int /\ LastDay < 25202
      BY YearBegins DEF Leaps, EndsIn2038
    <3>2. LastKnown \in Int /\ LastKnown > 25201
      BY YearBegins DEF LastKnown, Leaps
    <3> QED
      BY <2>2, <3>1, <3>2
  <2>4. IsDate(DateOf(n)) /\ DayOf(DateOf(n)) = n
    BY <2>3, DateOfDay
  <2>5. Earlier(AskedStart, DateOf(n)) <=> a <= n
    BY <2>1, <2>4, DatesInOrder
  <2>6. Earlier(DateOf(n), AskedEnd) <=> n <= b
    BY <2>1, <2>4, DatesInOrder
  <2>7. from = a * PerDay /\ to = (IF b > LastDay THEN LastDay ELSE b) * PerDay + LastSecond
    BY <1>3 DEF RangeInv
  <2> HIDE DEF a, b
  <2>8. from = a * 3 /\ to = (IF b > LastDay THEN LastDay ELSE b) * 3 + 2 /\ part \in 0..2
    BY <2>7 DEF PerDay, LastSecond
  <2>9. to > 0
    BY <2>1, <2>3, <2>8
  <2>10. (from <= n * 3 + part /\ n * 3 + part <= to) <=> a <= n /\ n <= b
    BY <2>1, <2>2, <2>3, <2>8
  <2>11. PerDay = 3 /\ ~(to <= 0)
    BY <2>1, <2>3, <2>8, <2>9 DEF PerDay, LastSecond
  <2> QED
    BY <2>5, <2>6, <2>10, <2>11 DEF InRange
<1> QED
  BY <1>1, <1>2, <1>3, PTL DEF RangeSpec

-----------------------------------------------------------------------------
(* The list of matches.                                                    *)

(* The elements of a finite set of numbers have the ranks from 1 on. *)
LEMMA Ranks ==
    ASSUME NEW M \in SUBSET Nat, IsFiniteSet(M)
    PROVE  /\ Cardinality(M) \in Nat
           /\ \A d \in M : Cardinality({e \in M : e <= d}) \in 1..Cardinality(M)
           /\ \A d, e \in M : Cardinality({x \in M : x <= d}) = Cardinality({x \in M : x <= e})
                                 => d = e
           /\ \A i \in 1..Cardinality(M) :
                 \E d \in M : Cardinality({e \in M : e <= d}) = i
<1> DEFINE n == Cardinality(M)
           upto(d) == {e \in M : e <= d}
           rank(d) == Cardinality(upto(d))
<1>1. n \in Nat
  BY FS_CardinalityType
<1>2. ASSUME NEW d \in M
      PROVE  IsFiniteSet(upto(d)) /\ rank(d) \in 1..n
  <2>1. upto(d) \in SUBSET M /\ d \in upto(d)
    OBVIOUS
  <2> HIDE DEF upto
  <2>2. IsFiniteSet(upto(d)) /\ Cardinality(upto(d)) <= n /\ Cardinality(upto(d)) \in Nat
    BY <2>1, FS_Subset, FS_CardinalityType
  <2>3. Cardinality(upto(d)) # 0
    BY <2>1, <2>2, FS_EmptySet
  <2> QED
    BY <1>1, <2>2, <2>3
<1>3. ASSUME NEW d \in M, NEW e \in M, d < e
      PROVE  rank(d) < rank(e)
  <2>1. upto(d) \in SUBSET upto(e) /\ e \in upto(e) /\ e \notin upto(d)
    <3>1. \A x \in M : x \in Nat
      OBVIOUS
    <3>2. d \in Nat /\ e \in Nat /\ ~(e <= d) /\ \A x \in M : x <= d => x <= e
      BY <1>3, <3>1
    <3>3. e <= e /\ d \in M /\ e \in M
      BY <3>2
    <3>4. \A x \in upto(d) : x \in upto(e)
      BY <3>2
    <3> QED
      BY <3>2, <3>3, <3>4
  <2>2. IsFiniteSet(upto(e)) /\ rank(d) \in 1..n /\ rank(e) \in 1..n
    BY <1>2
  <2> HIDE DEF upto
  <2>3. Cardinality(upto(d)) <= Cardinality(upto(e))
        /\ Cardinality(upto(d)) # Cardinality(upto(e))
    BY <2>1, <2>2, FS_Subset
  <2> QED
    BY <1>1, <2>2, <2>3
<1>4. ASSUME NEW d \in M, NEW e \in M, rank(d) = rank(e)
      PROVE  d = e
  <2>1. rank(d) \in Int /\ rank(e) \in Int /\ ~(d < e) /\ ~(e < d)
    BY <1>1, <1>2, <1>3, <1>4
  <2> QED
    BY <2>1
<1> DEFINE f == [d \in M |-> rank(d)]
<1> HIDE DEF rank
<1>5. f \in Injection(M, 1..n)
  BY <1>2, <1>4 DEF Injection, IsInjective
<1>6. IsFiniteSet(1..n) /\ Cardinality(1..n) = n
  BY <1>1, FS_Interval
<1>7. f \in Surjection(M, 1..n)
  BY <1>5, <1>6, FS_Injection
<1>8. \A i \in 1..n : \E d \in M : f[d] = i
  BY <1>7 DEF Surjection
<1>9. \A i \in 1..n : \E d \in M : rank(d) = i
  BY <1>8
<1> QED
  BY <1>1, <1>2, <1>4, <1>9 DEF rank

(* The list has every match once. *)
LEMMA ListHasMatches ==
    /\ Len(MatchList) \in Nat /\ Len(MatchList) = Cardinality(Matches)
    /\ DOMAIN MatchList = 1..Len(MatchList)
    /\ \A n \in 1..Len(MatchList) : MatchList[n] \in Matches
    /\ \A d \in Matches : \E n \in 1..Len(MatchList) : MatchList[n] = d
<1> DEFINE N == Cardinality(Matches)
           rank(d) == Cardinality({e \in Matches : e <= d})
<1>1. Matches \in SUBSET Nat /\ IsFiniteSet(Matches)
  <2>1. Matches \in SUBSET Results
    BY DEF Matches
  <2> QED
    BY <2>1, FS_Subset, DisplayAssumption
<1>2. /\ N \in Nat /\ \A d \in Matches : rank(d) \in 1..N
      /\ \A d, e \in Matches : rank(d) = rank(e) => d = e
      /\ \A i \in 1..N : \E d \in Matches : rank(d) = i
  BY <1>1, Ranks
<1>3. MatchList = [i \in 1..N |-> CHOOSE d \in Matches : rank(d) = i]
  BY DEF MatchList
<1> HIDE DEF rank, N
<1>4. Len(MatchList) = N /\ DOMAIN MatchList = 1..N
  BY <1>2, <1>3
<1>5. ASSUME NEW i \in 1..N
      PROVE  MatchList[i] \in Matches /\ rank(MatchList[i]) = i
  <2>1. \E d \in Matches : rank(d) = i
    BY <1>2
  <2> QED
    BY <1>3, <2>1
<1>6. \A d \in Matches : MatchList[rank(d)] = d
  BY <1>2, <1>5
<1> QED
  BY <1>2, <1>4, <1>5, <1>6 DEF N

-----------------------------------------------------------------------------
(* The window that a page shows.                                           *)

(* A match that is not missing is shown among these. *)
IsShown(n, shown) ==
    MatchList[n] \in absent \/ \E i \in 1..Len(shown) : shown[i].match = MatchList[n]

(* The first m matches of page p, with their numbers. *)
Part(p, m) ==
    [i \in 1..m |-> [match |-> MatchList[(p - 1) * PerPage + i], number |-> (p - 1) * PerPage + i]]

(* A page that was displayed shows all matches of its window, and just     *)
(* these if none is missing. *)
PageDone(p, shown) ==
    /\ \A n \in 1..Len(MatchList) :
          (p - 1) * PerPage < n /\ n <= p * PerPage => IsShown(n, shown)
    /\ absent = {} => shown = Part(p, LastDisplayed(p) - FirstDisplayed(p) + 1)

(* Where the loop is: it still skips what earlier pages show, or has shown *)
(* what it passed since, except for what is missing. *)
PageInv ==
    /\ page \in 1..NumPages
    /\ \/ currentMatch < StartAt /\ place = currentMatch /\ numberDisplayed = 0
       \/ currentMatch = StartAt + numberDisplayed /\ numberDisplayed <= place - StartAt
    /\ \A n \in StartAt + 1 .. place : IsShown(n, out)
    /\ absent = {} => currentMatch = place /\ out = Part(page, numberDisplayed)

PagesInv ==
    /\ DOMAIN pages \subseteq 1..NumPages
    /\ \A p \in DOMAIN pages : PageDone(p, pages[p])

DisplayInv ==
    /\ page \in Nat /\ place \in 0..Len(MatchList) /\ currentMatch \in Nat
    /\ numberDisplayed \in 0..PerPage
    /\ out \in Seq([match : Results, number : Nat]) /\ Len(out) = numberDisplayed
    /\ page # 0 => PageInv
    /\ page \in {0, 1} \/ 1 \in DOMAIN pages
    /\ page = 0 => 1 \in DOMAIN pages
    /\ PagesInv

(* The windows follow each other without a gap. *)
LEMMA Products ==
    ASSUME NEW p \in Int
    PROVE  /\ (p - 1) * PerPage \in Int /\ p * PerPage \in Int
           /\ (p - 1) * PerPage + PerPage = p * PerPage
           /\ p >= 1 => (p - 1) * PerPage >= 0
BY DisplayAssumption

(* There is always a page. *)
LEMMA PagesAreNumbers == NumPages \in Nat /\ NumPages >= 1
<1> DEFINE N == Len(MatchList) + PerPage - 1
<1>1. N \in Nat
  BY ListHasMatches, DisplayAssumption
<1> HIDE DEF N
<1>2. N \div PerPage \in Nat
  BY <1>1, DisplayAssumption
<1> QED
  BY <1>2, DisplayAssumption DEF NumPages, N

(* The first page begins. *)
LEMMA InitDisplay == DisplayInit => DisplayInv
<1> SUFFICES ASSUME DisplayInit PROVE DisplayInv
  OBVIOUS
<1>1. page = 1 /\ place = 0 /\ currentMatch = 0 /\ numberDisplayed = 0 /\ out = <<>>
      /\ pages = <<>>
  BY DEF DisplayInit
<1>2. StartAt = 0
  BY <1>1, DisplayAssumption DEF StartAt
<1>3. Part(1, 0) = <<>>
  BY DEF Part
<1>4. PageInv
  <2>1. \A n \in StartAt + 1 .. place : FALSE
    BY <1>1, <1>2
  <2>2. page \in 1..NumPages
    BY <1>1, PagesAreNumbers
  <2> QED
    BY <1>1, <1>2, <1>3, <2>1, <2>2 DEF PageInv
<1>5. DOMAIN pages = {}
  BY <1>1
<1> QED
  BY <1>1, <1>4, <1>5, ListHasMatches, DisplayAssumption DEF DisplayInv, PagesInv

(* The databases stand still, and with them the list. *)
LEMMA SameList ==
    ASSUME UNCHANGED world
    PROVE  /\ MatchList' = MatchList /\ absent' = absent /\ Matches' = Matches
           /\ NumPages' = NumPages
           /\ \A n, s : IsShown(n, s)' <=> IsShown(n, s)
           /\ \A p, m : Part(p, m)' = Part(p, m)
           /\ \A p : LastDisplayed(p)' = LastDisplayed(p)
           /\ \A p, s : PageDone(p, s)' <=> PageDone(p, s)
<1>1. absent' = absent /\ Matches' = Matches
  BY DEF world, Matches
<1>2. MatchList' = MatchList
  BY <1>1 DEF MatchList
<1> QED
  BY <1>1, <1>2 DEF NumPages, IsShown, Part, LastDisplayed, PageDone

(* And what the pages show of it. *)
LEMMA SamePages ==
    ASSUME UNCHANGED world, UNCHANGED pages, PagesInv
    PROVE  PagesInv'
<1>1. /\ MatchList' = MatchList /\ absent' = absent /\ NumPages' = NumPages
      /\ \A p, m : Part(p, m)' = Part(p, m)
      /\ \A p : LastDisplayed(p)' = LastDisplayed(p)
  BY SameList
<1>2. \A p \in DOMAIN pages : PageDone(p, pages[p])'
  BY <1>1 DEF PageDone, IsShown, PagesInv, FirstDisplayed
<1> QED
  BY <1>1, <1>2 DEF PagesInv

(* A longer list shows what a shorter one shows. *)
LEMMA ShownMore ==
    ASSUME NEW S, NEW s \in Seq(S), NEW x \in S, NEW n, IsShown(n, s)
    PROVE  IsShown(n, Append(s, x))
<1>1. Len(Append(s, x)) = Len(s) + 1 /\ Len(s) \in Nat
      /\ \A i \in 1..Len(s) : Append(s, x)[i] = s[i]
  OBVIOUS
<1>2. CASE MatchList[n] \in absent
  BY <1>2 DEF IsShown
<1>3. CASE \E i \in 1..Len(s) : s[i].match = MatchList[n]
  <2>1. PICK i \in 1..Len(s) : s[i].match = MatchList[n]
    BY <1>3
  <2>2. i \in 1..Len(Append(s, x)) /\ Append(s, x)[i].match = MatchList[n]
    BY <1>1, <2>1
  <2> QED
    BY <2>2 DEF IsShown
<1> QED
  BY <1>2, <1>3 DEF IsShown

(* What earlier pages show is passed over. *)
LEMMA SkipEarlierStep ==
    ASSUME DisplayInv, SkipEarlier
    PROVE  DisplayInv'
<1>1. /\ UNCHANGED world /\ page' = page /\ numberDisplayed' = numberDisplayed /\ out' = out
      /\ pages' = pages /\ place' = place + 1 /\ currentMatch' = currentMatch + 1
      /\ currentMatch < StartAt /\ page # 0 /\ place < Len(MatchList)
  BY DEF SkipEarlier, Displaying
<1>2. StartAt' = StartAt /\ StartAt \in Int
  BY <1>1, Products DEF StartAt, DisplayInv
<1>3. PageInv /\ place \in Nat /\ currentMatch \in Nat /\ numberDisplayed \in Nat
  BY <1>1, ListHasMatches, DisplayAssumption DEF DisplayInv
<1>4. place = currentMatch /\ numberDisplayed = 0
  BY <1>1, <1>2, <1>3 DEF PageInv
<1>5. PageInv'
  <2>1. \A n \in (StartAt + 1 .. place)' : FALSE
    BY <1>1, <1>2, <1>4, <1>3
  <2>2. (\/ currentMatch < StartAt /\ place = currentMatch /\ numberDisplayed = 0
         \/ currentMatch = StartAt + numberDisplayed /\ numberDisplayed <= place - StartAt)'
    BY <1>1, <1>2, <1>3, <1>4
  <2>3. (absent = {} => currentMatch = place /\ out = Part(page, numberDisplayed))'
    BY <1>1, <1>3, <1>4, SameList DEF PageInv
  <2>4. (page \in 1..NumPages)'
    BY <1>1, <1>3, SameList DEF PageInv
  <2> QED
    BY <2>1, <2>2, <2>3, <2>4 DEF PageInv
<1>6. place' \in 0..Len(MatchList)'
  BY <1>1, <1>3, SameList, ListHasMatches
<1> QED
  BY <1>1, <1>3, <1>5, <1>6, SamePages DEF DisplayInv

(* What is missing is passed over without being counted. *)
LEMMA SkipAbsentStep ==
    ASSUME DisplayInv, SkipAbsent
    PROVE  DisplayInv'
<1>1. /\ UNCHANGED world /\ page' = page /\ numberDisplayed' = numberDisplayed /\ out' = out
      /\ pages' = pages /\ place' = place + 1 /\ currentMatch' = currentMatch
      /\ currentMatch >= StartAt /\ page # 0 /\ place < Len(MatchList)
      /\ MatchList[place + 1] \in absent
  BY DEF SkipAbsent, Displaying, NextMatch
<1>2. StartAt' = StartAt /\ StartAt \in Int
  BY <1>1, Products DEF StartAt, DisplayInv
<1>3. PageInv /\ place \in Nat /\ currentMatch \in Nat /\ numberDisplayed \in Nat
  BY <1>1, ListHasMatches, DisplayAssumption DEF DisplayInv
<1>4. currentMatch = StartAt + numberDisplayed /\ numberDisplayed <= place - StartAt
  BY <1>1, <1>2, <1>3 DEF PageInv
<1>5. PageInv'
  <2>1. \A n \in (StartAt + 1 .. place)' : IsShown(n, out)'
    <3> SUFFICES ASSUME NEW n \in StartAt + 1 .. place + 1
                 PROVE  IsShown(n, out)
      BY <1>1, <1>2, SameList
    <3>1. CASE n \in StartAt + 1 .. place
      BY <1>3, <3>1 DEF PageInv
    <3>2. CASE n = place + 1
      BY <1>1, <3>2 DEF IsShown
    <3> QED
      BY <1>2, <1>3, <3>1, <3>2
  <2>2. (\/ currentMatch < StartAt /\ place = currentMatch /\ numberDisplayed = 0
         \/ currentMatch = StartAt + numberDisplayed /\ numberDisplayed <= place - StartAt)'
    BY <1>1, <1>2, <1>3, <1>4
  <2>3. absent' # {}
    BY <1>1, SameList
  <2>4. (page \in 1..NumPages)'
    BY <1>1, <1>3, SameList DEF PageInv
  <2> QED
    BY <2>1, <2>2, <2>3, <2>4 DEF PageInv
<1>6. place' \in 0..Len(MatchList)'
  BY <1>1, <1>3, SameList, ListHasMatches
<1> QED
  BY <1>1, <1>3, <1>5, <1>6, SamePages DEF DisplayInv

(* A match is added to the page, with the next number. *)
LEMMA DisplayMatchStep ==
    ASSUME DisplayInv, DisplayMatch
    PROVE  DisplayInv'
<1> DEFINE line == [match |-> MatchList[place + 1], number |-> currentMatch + 1]
<1>1. /\ UNCHANGED world /\ page' = page /\ numberDisplayed' = numberDisplayed + 1
      /\ out' = Append(out, line)
      /\ pages' = pages /\ place' = place + 1 /\ currentMatch' = currentMatch + 1
      /\ currentMatch >= StartAt /\ page # 0 /\ place < Len(MatchList)
      /\ numberDisplayed < PerPage
  BY DEF DisplayMatch, Displaying, NextMatch
<1>2. StartAt' = StartAt /\ StartAt \in Int
  BY <1>1, Products DEF StartAt, DisplayInv
<1>3. /\ PageInv /\ place \in Nat /\ currentMatch \in Nat /\ numberDisplayed \in Nat
      /\ out \in Seq([match : Results, number : Nat]) /\ Len(out) = numberDisplayed
  BY <1>1, ListHasMatches, DisplayAssumption DEF DisplayInv
<1>4. currentMatch = StartAt + numberDisplayed /\ numberDisplayed <= place - StartAt
  BY <1>1, <1>2, <1>3 DEF PageInv
<1>5. line \in [match : Results, number : Nat]
  <2>1. MatchList[place + 1] \in Matches
    BY <1>1, <1>3, ListHasMatches
  <2>2. MatchList[place + 1] \in Results
    BY <2>1 DEF Matches
  <2> QED
    BY <1>3, <2>2
<1> HIDE DEF line
<1>6. /\ out' \in Seq([match : Results, number : Nat]) /\ Len(out') = numberDisplayed + 1
      /\ DOMAIN out' = 1..numberDisplayed + 1 /\ DOMAIN out = 1..numberDisplayed
      /\ \A i \in 1..numberDisplayed : out'[i] = out[i]
      /\ out'[numberDisplayed + 1] = line
  BY <1>1, <1>3, <1>5
<1>7. PageInv'
  <2>1. \A n \in (StartAt + 1 .. place)' : IsShown(n, out)'
    <3> SUFFICES ASSUME NEW n \in StartAt + 1 .. place + 1
                 PROVE  IsShown(n, Append(out, line))
      BY <1>1, <1>2, SameList DEF IsShown
    <3>1. CASE n \in StartAt + 1 .. place
      <4>1. IsShown(n, out)
        BY <1>3, <3>1 DEF PageInv
      <4> QED
        BY <1>3, <1>5, <4>1, ShownMore
    <3>2. CASE n = place + 1
      <4>1. line.match = MatchList[n]
        BY <3>2 DEF line
      <4>2. numberDisplayed + 1 \in 1..Len(out') /\ out'[numberDisplayed + 1].match = MatchList[n]
        BY <1>3, <1>6, <4>1
      <4> QED
        BY <1>1, <4>2 DEF IsShown
    <3> QED
      BY <1>2, <1>3, <3>1, <3>2
  <2>2. (\/ currentMatch < StartAt /\ place = currentMatch /\ numberDisplayed = 0
         \/ currentMatch = StartAt + numberDisplayed /\ numberDisplayed <= place - StartAt)'
    BY <1>1, <1>2, <1>3, <1>4
  <2>3. (absent = {} => currentMatch = place /\ out = Part(page, numberDisplayed))'
    <3> SUFFICES ASSUME absent = {}
                 PROVE  currentMatch + 1 = place + 1 /\ out' = Part(page, numberDisplayed + 1)
      BY <1>1, SameList
    <3>1. currentMatch = place /\ out = Part(page, numberDisplayed)
      BY <1>3 DEF PageInv
    <3> DEFINE new == Part(page, numberDisplayed + 1)
    <3>2. DOMAIN new = 1..numberDisplayed + 1
      BY DEF Part
    <3>3. \A i \in 1..numberDisplayed : out[i] = new[i]
      BY <1>3, <3>1 DEF Part
    <3>4. new[numberDisplayed + 1] = line
      BY <1>3, <1>4, <3>1, <1>2 DEF Part, line, StartAt
    <3>5. \A i \in 1..numberDisplayed + 1 : out'[i] = new[i]
      <4> SUFFICES ASSUME NEW i \in 1..numberDisplayed + 1 PROVE out'[i] = new[i]
        OBVIOUS
      <4> HIDE DEF new
      <4>1. CASE i = numberDisplayed + 1
        BY <1>6, <3>4, <4>1
      <4>2. CASE i # numberDisplayed + 1
        <5>1. i \in 1..numberDisplayed
          BY <1>3, <4>2
        <5> QED
          BY <1>6, <3>3, <5>1
      <4> QED
        BY <4>1, <4>2
    <3>6. /\ out' = [i \in 1..numberDisplayed + 1 |-> out'[i]]
          /\ new = [i \in 1..numberDisplayed + 1 |-> new[i]]
      BY <1>6, <3>2 DEF Part
    <3> HIDE DEF new
    <3> QED
      BY <3>1, <3>5, <3>6 DEF new
  <2>4. (page \in 1..NumPages)'
    BY <1>1, <1>3, SameList DEF PageInv
  <2> QED
    BY <2>1, <2>2, <2>3, <2>4 DEF PageInv
<1>8. place' \in 0..Len(MatchList)'
  BY <1>1, <1>3, SameList, ListHasMatches
<1>9. numberDisplayed' \in 0..PerPage /\ Len(out') = numberDisplayed'
  BY <1>1, <1>3, <1>6, DisplayAssumption
<1>10. currentMatch' \in Nat /\ page' \in Nat
  BY <1>1, <1>3 DEF DisplayInv
<1>11. /\ PagesInv'
       /\ page' \in {0, 1} \/ 1 \in DOMAIN pages'
       /\ page' = 0 => 1 \in DOMAIN pages'
  BY <1>1, SamePages DEF DisplayInv
<1> QED
  BY <1>6, <1>7, <1>8, <1>9, <1>10, <1>11 DEF DisplayInv

(* The page that is done shows its window. *)
LEMMA WindowShown ==
    ASSUME PageInv, ~Displaying, page # 0, place \in 0..Len(MatchList), currentMatch \in Nat,
           numberDisplayed \in 0..PerPage
    PROVE  PageDone(page, out)
<1> DEFINE N == Len(MatchList)
           top == page * PerPage
<1>1. /\ N \in Nat /\ place \in Nat /\ place <= N /\ numberDisplayed \in Nat
      /\ PerPage \in Nat /\ PerPage >= 1 /\ numberDisplayed <= PerPage
  BY ListHasMatches, DisplayAssumption
<1>2. page \in Int
  BY PagesAreNumbers DEF PageInv
<1>3. StartAt \in Int /\ top \in Int /\ StartAt + PerPage = top
  BY <1>2, Products DEF StartAt
<1>4. place = N \/ numberDisplayed = PerPage
  BY <1>1 DEF Displaying
<1>5. FirstDisplayed(page) = StartAt + 1 /\ LastDisplayed(page) = IF top > N THEN N ELSE top
  BY DEF FirstDisplayed, LastDisplayed, StartAt
<1> HIDE DEF N, top
<1>6. CASE currentMatch < StartAt /\ place = currentMatch /\ numberDisplayed = 0
  <2>1. N < StartAt /\ top > N
    BY <1>1, <1>3, <1>4, <1>6
  <2>2. \A n \in 1..N : ~(StartAt < n)
    BY <1>1, <1>3, <2>1
  <2>3. ASSUME absent = {} PROVE out = Part(page, LastDisplayed(page) - FirstDisplayed(page) + 1)
    <3>1. out = Part(page, 0)
      BY <1>6, <2>3 DEF PageInv
    <3>2. 1..(LastDisplayed(page) - FirstDisplayed(page) + 1) = {} /\ 1..0 = {}
      BY <1>1, <1>3, <1>5, <2>1
    <3> QED
      BY <3>1, <3>2 DEF Part
  <2> QED
    BY <2>2, <2>3 DEF PageDone, N, StartAt
<1>7. CASE currentMatch = StartAt + numberDisplayed /\ numberDisplayed <= place - StartAt
  <2>1. \A n \in 1..N : StartAt < n /\ n <= top => n \in StartAt + 1 .. place
    BY <1>1, <1>3, <1>4, <1>7
  <2>2. \A n \in 1..N : StartAt < n /\ n <= top => IsShown(n, out)
    BY <2>1 DEF PageInv
  <2>3. ASSUME absent = {} PROVE out = Part(page, LastDisplayed(page) - FirstDisplayed(page) + 1)
    <3>1. currentMatch = place /\ out = Part(page, numberDisplayed)
      BY <2>3 DEF PageInv
    <3>2. LastDisplayed(page) - FirstDisplayed(page) + 1 = numberDisplayed
      BY <1>1, <1>3, <1>4, <1>5, <1>7, <3>1
    <3> QED
      BY <3>1, <3>2
  <2> QED
    BY <2>2, <2>3 DEF PageDone, N, top, StartAt
<1> QED
  BY <1>6, <1>7 DEF PageInv

(* The page joins those that were seen. *)
LEMMA EndPageStep ==
    ASSUME DisplayInv, EndPage
    PROVE  DisplayInv'
<1>1. /\ UNCHANGED world /\ page' = 0 /\ numberDisplayed' = numberDisplayed /\ out' = out
      /\ pages' = [p \in DOMAIN pages \cup {page} |-> IF p = page THEN out ELSE pages[p]]
      /\ place' = place /\ currentMatch' = currentMatch
      /\ page # 0 /\ ~Displaying
  BY DEF EndPage
<1>2. PageInv /\ PagesInv /\ place \in 0..Len(MatchList) /\ currentMatch \in Nat
      /\ numberDisplayed \in 0..PerPage
  BY <1>1 DEF DisplayInv
<1>3. PageDone(page, out)
  BY <1>1, <1>2, WindowShown
<1>4. DOMAIN pages' = DOMAIN pages \cup {page}
  BY <1>1
<1>5. \A p \in DOMAIN pages' : PageDone(p, pages'[p])
  BY <1>1, <1>2, <1>3, <1>4 DEF PagesInv
<1>6. /\ MatchList' = MatchList /\ absent' = absent /\ NumPages' = NumPages
      /\ \A p, m : Part(p, m)' = Part(p, m)
      /\ \A p : LastDisplayed(p)' = LastDisplayed(p)
  BY <1>1, SameList
<1>7. \A p \in DOMAIN pages' : PageDone(p, pages[p])'
  BY <1>5, <1>6 DEF PageDone, IsShown, FirstDisplayed
<1>8. DOMAIN pages' \subseteq 1..NumPages'
  BY <1>2, <1>4, <1>6 DEF PagesInv, PageInv
<1>9. PagesInv'
  BY <1>7, <1>8 DEF PagesInv
<1>10. 1 \in DOMAIN pages'
  BY <1>1, <1>4 DEF DisplayInv
<1> QED
  BY <1>1, <1>6, <1>9, <1>10 DEF DisplayInv

(* A link leads to one of the pages, which starts from the first match. *)
LEMMA FollowLinkStep ==
    ASSUME DisplayInv, FollowLink
    PROVE  DisplayInv'
<1>1. /\ UNCHANGED world /\ pages' = pages /\ page = 0
      /\ place' = 0 /\ currentMatch' = 0 /\ numberDisplayed' = 0 /\ out' = <<>>
  BY DEF FollowLink, Show
<1>4. page' \in 1..NumPages /\ page' \in Int /\ page' >= 1
  <2>1. PICK p \in DOMAIN pages : \E n \in Links(p) \ DOMAIN pages : Show(n)
    BY DEF FollowLink
  <2>2. PICK n \in Links(p) \ DOMAIN pages : Show(n)
    BY <2>1
  <2>3. Links(p) \subseteq 1..NumPages
    BY PagesAreNumbers, DisplayAssumption DEF Links
  <2>4. page' \in 1..NumPages
    BY <2>2, <2>3 DEF Show
  <2> QED
    BY <2>4, PagesAreNumbers
<1>5. /\ MatchList' = MatchList /\ absent' = absent /\ NumPages' = NumPages
      /\ \A q, m : Part(q, m)' = Part(q, m)
  BY <1>1, SameList
<1>6. StartAt' \in Int /\ StartAt' >= 0
  <2>1. StartAt' = (page' - 1) * PerPage
    BY DEF StartAt
  <2> QED
    BY <1>4, <2>1, Products
<1>7. PageInv'
  <2>1. (page \in 1..NumPages)'
    BY <1>4, <1>5
  <2>2. (\/ currentMatch < StartAt /\ place = currentMatch /\ numberDisplayed = 0
         \/ currentMatch = StartAt + numberDisplayed /\ numberDisplayed <= place - StartAt)'
    <3>1. \A s \in Int : s >= 0 => 0 < s \/ (0 = s + 0 /\ 0 <= 0 - s)
      OBVIOUS
    <3> QED
      BY <1>1, <1>6, <3>1
  <2>3. \A i \in (StartAt + 1 .. place)' : FALSE
    <3>1. \A s \in Int : s >= 0 => s + 1 .. 0 = {}
      OBVIOUS
    <3> QED
      BY <1>1, <1>6, <3>1
  <2>4. Part(page, numberDisplayed)' = <<>>
    BY <1>1 DEF Part
  <2>5. (absent = {} => currentMatch = place /\ out = Part(page, numberDisplayed))'
    BY <1>1, <2>4
  <2> QED
    BY <2>1, <2>2, <2>3, <2>5 DEF PageInv
<1>8. PagesInv' /\ 1 \in DOMAIN pages'
  BY <1>1, SamePages DEF DisplayInv
<1>9. page' \in Nat /\ 0 \in 0..Len(MatchList)' /\ 0 \in 0..PerPage
  BY <1>4, <1>5, PagesAreNumbers, ListHasMatches, DisplayAssumption
<1>10. <<>> \in Seq([match : Results, number : Nat]) /\ Len(<<>>) = 0
  OBVIOUS
<1> QED
  BY <1>1, <1>7, <1>8, <1>9, <1>10 DEF DisplayInv

(* Every step keeps the invariant. *)
LEMMA DisplayInductive == DisplayInv /\ [DisplayNext]_displayVars => DisplayInv'
<1> SUFFICES ASSUME DisplayInv, [DisplayNext]_displayVars PROVE DisplayInv'
  OBVIOUS
<1>1. CASE DisplayNext
  BY <1>1, SkipEarlierStep, SkipAbsentStep, DisplayMatchStep, EndPageStep, FollowLinkStep
     DEF DisplayNext
<1>2. CASE UNCHANGED displayVars
  <2>1. /\ UNCHANGED world /\ page' = page /\ numberDisplayed' = numberDisplayed /\ out' = out
        /\ pages' = pages /\ place' = place /\ currentMatch' = currentMatch
    BY <1>2 DEF displayVars
  <2>2. MatchList' = MatchList /\ absent' = absent /\ NumPages' = NumPages /\ StartAt' = StartAt
    BY <2>1, SameList DEF StartAt
  <2>3. PageInv => PageInv'
    BY <2>1, <2>2 DEF PageInv, IsShown, Part
  <2>4. PagesInv'
    BY <2>1, SamePages DEF DisplayInv
  <2> QED
    BY <2>1, <2>2, <2>3, <2>4 DEF DisplayInv
<1> QED
  BY <1>1, <1>2

-----------------------------------------------------------------------------
(* Who follows all links has seen all pages, and they hold the list.       *)

(* What division leaves. *)
LEMMA DivisionLeaves ==
    ASSUME NEW a \in Nat, NEW b \in Nat \ {0}
    PROVE  /\ a \div b \in Nat
           /\ (a \div b) * b \in Nat
           /\ (a \div b) * b <= a /\ a < (a \div b) * b + b
OBVIOUS

(* More pages hold more. *)
LEMMA MorePages ==
    ASSUME NEW a \in Nat, NEW b \in Nat, NEW c \in Nat, a <= b
    PROVE  a * c \in Nat /\ b * c \in Nat /\ a * c <= b * c
OBVIOUS

(* The pages have room for the whole list, or for all that maximum_pages   *)
(* allows. *)
LEMMA PagesEnough ==
    /\ NumPages * PerPage \in Nat /\ Len(MatchList) \in Nat /\ Room \in Nat
    /\ NumPages * PerPage >= Len(MatchList) \/ NumPages * PerPage = Room
<1> DEFINE N == Len(MatchList)
           all == (N + PerPage - 1) \div PerPage
<1>1. N \in Nat /\ N + PerPage - 1 \in Nat /\ PerPage \in Nat \ {0} /\ MaxPages \in Nat
  BY ListHasMatches, DisplayAssumption
<1>2. NumPages = IF (IF all > MaxPages THEN MaxPages ELSE all) < 1 THEN 1
                 ELSE (IF all > MaxPages THEN MaxPages ELSE all)
  BY DEF NumPages
<1>3. Room = PerPage * (IF MaxPages < 1 THEN 1 ELSE MaxPages)
  BY DEF Room
<1> HIDE DEF N
<1>4. all \in Nat /\ all * PerPage \in Nat /\ N + PerPage - 1 < all * PerPage + PerPage
  BY <1>1, DivisionLeaves
<1> HIDE DEF all
<1>5. all * PerPage >= N
  BY <1>1, <1>4
<1>6. CASE NumPages = all
  BY <1>1, <1>3, <1>4, <1>5, <1>6 DEF N
<1>7. CASE MaxPages >= 1 /\ NumPages = MaxPages
  BY <1>1, <1>3, <1>7 DEF N
<1>8. CASE MaxPages < 1 /\ NumPages = 1
  BY <1>1, <1>3, <1>8 DEF N
<1>9. CASE all < 1 /\ NumPages = 1
  <2>1. N = 0
    <3>1. all = 0
      BY <1>4, <1>9
    <3> QED
      BY <1>1, <1>5, <3>1
  <2>2. NumPages * PerPage >= 0
    BY <1>1, <1>9
  <2> QED
    BY <1>1, <1>3, <1>9, <2>1, <2>2 DEF N
<1> QED
  BY <1>1, <1>2, <1>4, <1>6, <1>7, <1>8, <1>9

(* From the first page every next one was reached. *)
LEMMA AllPagesSeen ==
    ASSUME DisplayInv, SeenAll
    PROVE  DOMAIN pages = 1..NumPages
<1>1. 1 \in DOMAIN pages /\ DOMAIN pages \subseteq 1..NumPages
  BY DEF DisplayInv, SeenAll, PagesInv
<1>2. NumPages \in Nat
  BY PagesAreNumbers
<1> DEFINE S == {k \in Nat : k + 1 <= NumPages => k + 1 \in DOMAIN pages}
<1>3. 0 \in S
  BY <1>1
<1>4. ASSUME NEW k \in S \cap Nat PROVE k + 1 \in S
  <2>1. SUFFICES ASSUME (k + 1) + 1 <= NumPages PROVE (k + 1) + 1 \in DOMAIN pages
    OBVIOUS
  <2>2. k + 1 \in DOMAIN pages
    BY <1>2, <2>1
  <2>3. (k + 1) + 1 \in Links(k + 1)
    BY <1>2, <2>1 DEF Links
  <2> QED
    BY <2>2, <2>3 DEF SeenAll
<1> HIDE DEF S
<1>5. Nat \subseteq S
  BY <1>3, <1>4, FromZero
<1>6. ASSUME NEW p \in 1..NumPages PROVE p \in DOMAIN pages
  <2>1. p - 1 \in S /\ (p - 1) + 1 = p /\ p <= NumPages
    BY <1>2, <1>5
  <2> QED
    BY <2>1 DEF S
<1> QED
  BY <1>1, <1>6

(* There is a page for every place of the list that has room. *)
LEMMA PageOfPlace ==
    ASSUME NEW n \in 1..Len(MatchList), n <= Room
    PROVE  \E p \in 1..NumPages : (p - 1) * PerPage < n /\ n <= p * PerPage
<1> DEFINE k == (n - 1) \div PerPage
<1>1. n - 1 \in Nat /\ n \in Nat /\ PerPage \in Nat \ {0} /\ NumPages \in Nat
  BY ListHasMatches, DisplayAssumption, PagesAreNumbers
<1>2. k \in Nat /\ k * PerPage \in Nat /\ k * PerPage <= n - 1 /\ n - 1 < k * PerPage + PerPage
  BY <1>1, DivisionLeaves
<1> HIDE DEF k
<1>3. (k + 1) - 1 = k /\ (k + 1) * PerPage = k * PerPage + PerPage
  BY <1>1, <1>2
<1>4. k + 1 <= NumPages
  <2>1. SUFFICES ASSUME NumPages <= k PROVE FALSE
    BY <1>1, <1>2
  <2>2. NumPages * PerPage <= k * PerPage
    BY <1>1, <1>2, <2>1, MorePages
  <2>3. NumPages * PerPage >= n
    BY <1>1, PagesEnough
  <2> QED
    BY <1>1, <1>2, <2>2, <2>3, PagesEnough
<1>5. k + 1 \in 1..NumPages /\ k * PerPage < n /\ n <= (k + 1) * PerPage
  BY <1>1, <1>2, <1>3, <1>4
<1> QED
  BY <1>3, <1>5

(* The invariant says that no match is skipped. *)
LEMMA InvNothingSkipped == DisplayInv => NothingSkipped
<1> SUFFICES ASSUME DisplayInv, SeenAll, NEW d \in Wanted
             PROVE  \E n \in 1..Len(MatchList) :
                       /\ MatchList[n] = d
                       /\ n <= Room => \E p \in DOMAIN pages :
                                           \E i \in 1..Len(pages[p]) : pages[p][i].match = d
  BY DEF NothingSkipped
<1>1. d \in Matches /\ d \notin absent
  BY DEF Wanted, Matches
<1>2. PICK n \in 1..Len(MatchList) : MatchList[n] = d
  BY <1>1, ListHasMatches
<1>3. ASSUME n <= Room
      PROVE  \E p \in DOMAIN pages : \E i \in 1..Len(pages[p]) : pages[p][i].match = d
  <2>1. PICK p \in 1..NumPages : (p - 1) * PerPage < n /\ n <= p * PerPage
    BY <1>3, PageOfPlace
  <2>2. p \in DOMAIN pages
    BY AllPagesSeen
  <2>3. PageDone(p, pages[p])
    BY <2>2 DEF DisplayInv, PagesInv
  <2>4. IsShown(n, pages[p])
    BY <2>1, <2>3 DEF PageDone
  <2> QED
    BY <1>1, <1>2, <2>2, <2>4 DEF IsShown
<1> QED
  BY <1>2, <1>3

(* And that the pages are the list when no document is missing. *)
LEMMA InvPagesAreTheList == DisplayInv => PagesAreTheList
<1> SUFFICES ASSUME DisplayInv, SeenAll, absent = {}
             PROVE  /\ \A n \in 1..Len(MatchList) : MatchList[n] \in Wanted
                    /\ DOMAIN pages = 1..NumPages
                    /\ \A p \in 1..NumPages :
                          pages[p] = [i \in 1..LastDisplayed(p) - FirstDisplayed(p) + 1 |->
                                         LET n == FirstDisplayed(p) + i - 1
                                         IN [match |-> MatchList[n], number |-> n]]
                    /\ Len(MatchList) <= Room => LastDisplayed(NumPages) = Cardinality(Wanted)
  BY DEF PagesAreTheList
<1>1. Matches = Wanted
  BY DEF Matches, Wanted
<1>2. \A n \in 1..Len(MatchList) : MatchList[n] \in Wanted
  BY <1>1, ListHasMatches
<1>3. DOMAIN pages = 1..NumPages
  BY AllPagesSeen
<1>4. ASSUME NEW p \in 1..NumPages
      PROVE  pages[p] = [i \in 1..LastDisplayed(p) - FirstDisplayed(p) + 1 |->
                            LET n == FirstDisplayed(p) + i - 1
                            IN [match |-> MatchList[n], number |-> n]]
  <2>1. PageDone(p, pages[p])
    BY <1>3 DEF DisplayInv, PagesInv
  <2>2. pages[p] = Part(p, LastDisplayed(p) - FirstDisplayed(p) + 1)
    BY <2>1 DEF PageDone
  <2>3. p \in Int /\ (p - 1) * PerPage \in Int
    <3>1. p \in Int
      BY PagesAreNumbers
    <3> QED
      BY <3>1, Products
  <2>4. \A m : \A i \in 1..m : i \in Int
    OBVIOUS
  <2>5. \A m : \A i \in 1..m : (p - 1) * PerPage + i = FirstDisplayed(p) + i - 1
    BY <2>3, <2>4 DEF FirstDisplayed
  <2>6. \A m : Part(p, m) = [i \in 1..m |->
                               LET n == FirstDisplayed(p) + i - 1
                               IN [match |-> MatchList[n], number |-> n]]
    BY <2>5 DEF Part
  <2> QED
    BY <2>2, <2>6
<1>5. ASSUME Len(MatchList) <= Room PROVE LastDisplayed(NumPages) = Cardinality(Wanted)
  <2>1. NumPages * PerPage >= Len(MatchList) /\ NumPages * PerPage \in Nat
        /\ Len(MatchList) \in Nat
    BY <1>5, PagesEnough
  <2>2. LastDisplayed(NumPages) = Len(MatchList)
    BY <2>1 DEF LastDisplayed
  <2> QED
    BY <1>1, <2>2, ListHasMatches
<1> QED
  BY <1>2, <1>3, <1>4, <1>5

(* Whatever the databases lack or exclude, and whatever matches_per_page,  *)
(* maximum_pages and maximum_page_buttons are: who follows the links until *)
(* no new page is left has seen every match for which the pages have room, *)
(* and, when no document is missing, the pages are the list, numbered      *)
(* through. *)
THEOREM EveryMatchIsShown == DisplaySpec => []EveryMatchShown
<1>1. DisplayInv => EveryMatchShown
  BY InvNothingSkipped, InvPagesAreTheList DEF EveryMatchShown
<1> QED
  BY <1>1, InitDisplay, DisplayInductive, PTL DEF DisplaySpec

=============================================================================
