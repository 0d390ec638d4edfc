----------------------------- MODULE DateRange -----------------------------
(***************************************************************************)
(* The range of dates a search is restricted to: buildMatchList makes two  *)
(* times of the fields that the user filled in, and drops matches outside  *)
(* of them.  A field is 0 when it was left empty and negative when it is   *)
(* relative to today.  Times are counted in parts of a day: 0 is its first *)
(* second and LastSecond its last.                                         *)
(***************************************************************************)
EXTENDS Integers, FiniteSets

CONSTANTS
    Forms,      \* the fields users fill in
    Today,      \* a day, counted from 1 January 1970
    LastDay,    \* the last one that fits a time_t
    Eternities  \* what the compiler may make of the expression for `eternity'

LastSecond == 2
PerDay == LastSecond + 1

FieldNames == {"day", "month", "year"}

ASSUME DateAssumption ==
    /\ \A f \in Forms : f \in [start : [FieldNames -> Int], end : [FieldNames -> Int]]
    /\ Today \in 0..LastDay
    /\ Eternities \subseteq Int

VARIABLES
    form, eternity,
    from, to,       \* timet_startdate, timet_enddate
    ranged          \* they were computed

rangeVars == <<form, eternity, from, to, ranged>>

-----------------------------------------------------------------------------
(* The calendar: what localtime, gmtime and mktime know.  *)

Leap(y) == (y % 4 = 0 /\ y % 100 # 0) \/ y % 400 = 0
MonthDays == <<31, 28, 31, 30, 31, 30, 31, 31, 30, 31, 30, 31>>
DaysIn(y, m) == IF m = 2 /\ Leap(y) THEN 29 ELSE MonthDays[m]

DaysBeforeMonth(y, m) ==
    LET sum[k \in 0..12] == IF k = 0 THEN 0 ELSE sum[k - 1] + DaysIn(y, k) IN sum[m - 1]
DaysBeforeYear(y) ==
    LET leaps(n) == n \div 4 - n \div 100 + n \div 400
    IN 365 * (y - 1970) + leaps(y - 1) - leaps(1969)

(* mktime takes days beyond the end of a month. *)
DayOf(d) == DaysBeforeYear(d.year) + DaysBeforeMonth(d.year, d.month) + d.day - 1

DateOf(n) ==
    LET y == CHOOSE y \in 1902..2100 : DaysBeforeYear(y) <= n /\ n < DaysBeforeYear(y + 1)
        m == CHOOSE m \in 1..12 : /\ DaysBeforeYear(y) + DaysBeforeMonth(y, m) <= n
                                  /\ n < DaysBeforeYear(y) + DaysBeforeMonth(y, m) + DaysIn(y, m)
    IN [year |-> y, month |-> m, day |-> n - DaysBeforeYear(y) - DaysBeforeMonth(y, m) + 1]

(* -1 when the time does not fit.  *)
MkTime(d, part) ==
    IF DayOf(d) < 0 \/ DayOf(d) > LastDay THEN -1 ELSE DayOf(d) * PerDay + part

(* gmtime(&eternity): the second before 1970 is in 1969.  *)
EndOfTime == DateOf(eternity \div PerDay)

-----------------------------------------------------------------------------
(* The fields, as the code goes through them.  *)

Relative(f) == \E x \in FieldNames : f[x] < 0

DateGiven == \E x \in FieldNames : form.start[x] # 0 \/ form.end[x] # 0

(* Months before January are in an earlier year.  *)
Normal(d) == [d EXCEPT !.month = ((d.month - 1) % 12) + 1, !.year = d.year + (d.month - 1) \div 12]

(* Years of two digits.  *)
FullYear(y) == IF y < 69 THEN y + 2000 ELSE IF y < 1900 THEN y + 1900 ELSE y

(* A field counts back from today, or is taken as it is, or has a default  *)
(* unless others are relative. *)
MonthSet(d, f, default) ==
    CASE f.month < 0 -> Normal([d EXCEPT !.month = @ + f.month])
      [] f.month > 0 -> [d EXCEPT !.month = f.month]
      [] f.month = 0 -> IF Relative(f) THEN d ELSE [d EXCEPT !.month = default]

YearSet(d, f, default) ==
    CASE f.year < 0 -> [d EXCEPT !.year = @ + f.year]
      [] f.year > 0 -> [d EXCEPT !.year = FullYear(f.year)]
      [] f.year = 0 -> IF Relative(f) THEN d ELSE [d EXCEPT !.year = default]

RelativeDay(f) == DateOf(Today + (IF f.day < 0 THEN f.day ELSE 0))

StartDate(f) ==
    LET d == RelativeDay(f)
        e == CASE f.day > 0 -> [d EXCEPT !.day = f.day]
               [] f.day = 0 /\ ~Relative(f) -> [d EXCEPT !.day = 1]
               [] OTHER -> d
    IN YearSet(MonthSet(e, f, 1), f, 1970)

(* Mutant: no leap years. *)
EndDateCommon(f) ==
    LET d == YearSet(MonthSet(RelativeDay(f), f, 12), f, EndOfTime.year)
    IN CASE f.day > 0 -> [d EXCEPT !.day = f.day]
         [] f.day = 0 /\ ~Relative(f) -> [d EXCEPT !.day = MonthDays[d.month]]
         [] OTHER -> d

(* The end of the month needs the month and the year first.  *)
EndDate(f) ==
    LET d == YearSet(MonthSet(RelativeDay(f), f, 12), f, EndOfTime.year)
    IN CASE f.day > 0 -> [d EXCEPT !.day = f.day]
         [] f.day = 0 /\ ~Relative(f) -> [d EXCEPT !.day = DaysIn(d.year, d.month)]
         [] OTHER -> d

RangeInit ==
    /\ form \in Forms /\ eternity \in Eternities
    /\ from = 0 /\ to = eternity /\ ranged = FALSE

(* Invalid times are replaced by the ends of time, times in the wrong      *)
(* order are swapped. *)
ComputeRange ==
    /\ ~ranged /\ ranged' = TRUE
    /\ IF DateGiven
       THEN LET s == MkTime(StartDate(form.start), 0)
                e == MkTime(EndDate(form.end), LastSecond)
                start == IF s < 0 THEN 0 ELSE s
                end == IF e < 0 THEN eternity ELSE e
            IN IF end < start THEN from' = end /\ to' = start
               ELSE from' = start /\ to' = end
       ELSE UNCHANGED <<from, to>>
    /\ UNCHANGED <<form, eternity>>

RangeSpec == RangeInit /\ [][ComputeRange]_rangeVars

(* The check of a document, with the hack for an end of time of -1: "Gary  *)
(* finds a bug, timet_enddate === -1". *)
InRange(t) == to <= 0 \/ (from <= t /\ t <= to)

-----------------------------------------------------------------------------
Earlier(a, b) ==
    \/ a.year < b.year
    \/ a.year = b.year /\ a.month < b.month
    \/ a.year = b.year /\ a.month = b.month /\ a.day <= b.day

Real(d) == d.day <= DaysIn(d.year, d.month) /\ d.year >= 1970

Given(x, default) == IF x = 0 THEN default ELSE x

(* The dates a user asks for who gives no relative field.  *)
AskedStart ==
    [day |-> Given(form.start.day, 1), month |-> Given(form.start.month, 1),
     year |-> FullYear(Given(form.start.year, 1970))]
AskedEnd ==
    LET y == FullYear(Given(form.end.year, 2038))
        m == Given(form.end.month, 12)
    IN [day |-> Given(form.end.day, DaysIn(y, m)), month |-> m, year |-> y]

(* Days where ranges begin or end, and their neighbours. *)
DaysToTry ==
    0..LastDay \cap
        UNION {{DayOf(AskedStart) + i, DayOf(AskedEnd) + i, Today + i} : i \in -1..1}

(* Dates that are real and in order select the documents of the days from  *)
(* the first to the last, from the first second to the last, where fields  *)
(* left empty mean the earliest or the latest there is ("we take steps to  *)
(* make sure that the search range date starts at Feb 1", "31 days... we   *)
(* want to search until the end of may"). *)
RangeAsAsked ==
    ranged /\ DateGiven /\ ~Relative(form.start) /\ ~Relative(form.end)
        /\ Real(AskedStart) /\ Real(AskedEnd) /\ Earlier(AskedStart, AskedEnd) =>
        \A n \in DaysToTry, part \in 0..LastSecond :
            InRange(n * PerDay + part) <=>
                Earlier(AskedStart, DateOf(n)) /\ Earlier(DateOf(n), AskedEnd)

=============================================================================
