------------------------------ MODULE Calendar ------------------------------
(***************************************************************************)
(* The calendar of the program: Date (utils/Date.cpp, Date.h) and the UTC  *)
(* conversions of TimeZone (utils/TimeZone.cpp), as functions, next to the *)
(* Gregorian calendar as it is counted: a behaviour goes through the days  *)
(* of a year one by one.                                                   *)
(*                                                                         *)
(* Division is that of C, which cuts off towards zero; times before 1970   *)
(* are negative.                                                           *)
(***************************************************************************)
EXTENDS Integers, FiniteSets

CONSTANTS
  Year,        \* the years looked at
  Second       \* seconds of a day at which a time is converted

Quot(a, b) == IF a < 0 /\ a % b # 0 THEN (a \div b) + 1 ELSE a \div b
Rem(a, b) == a - b * Quot(a, b)

kSecondsPerDay == 24 * 60 * 60

\* detail::getJulianDayNumber()
getJulianDayNumber(year, month, day) ==
  LET a == Quot(14 - month, 12)
      y == year + 4800 - a
      m == month + 12 * a - 3
  IN day + Quot(153 * m + 2, 5) + y * 365 + Quot(y, 4) - Quot(y, 100) + Quot(y, 400) - 32045

\* detail::getYearMonthDay()
getYearMonthDay(julianDayNumber) ==
  LET a == julianDayNumber + 32044
      b == Quot(4 * a + 3, 146097)
      c == a - Quot(b * 146097, 4)
      d == Quot(4 * c + 3, 1461)
      e == c - Quot(1461 * d, 4)
      m == Quot(5 * e + 2, 153)
  IN [year  |-> b * 100 + d - 4800 + Quot(m, 10),
      month |-> m + 3 - 12 * Quot(m, 10),
      day   |-> e - Quot(153 * m + 2, 5) + 1]

weekDay(julianDayNumber) == (julianDayNumber + 1) % 7

kJulianDayOf1970_01_01 == getJulianDayNumber(1970, 1, 1)

\* detail::fillHMS()
fillHMS(seconds) ==
  [tm_sec |-> seconds % 60, tm_min |-> (seconds \div 60) % 60, tm_hour |-> (seconds \div 60) \div 60]

\* Mutant: the remainder of a time before 1970 is made positive, the day is not
\* counted back.
SplitDaysAlways(seconds) ==
  LET rest == Rem(seconds, kSecondsPerDay)
  IN <<Quot(seconds, kSecondsPerDay), IF rest < 0 THEN rest + kSecondsPerDay ELSE rest>>

\* The days and the seconds of the day in toUtcTime().
SplitDays(seconds) ==
  LET rest == Rem(seconds, kSecondsPerDay)
      days == Quot(seconds, kSecondsPerDay)
  IN IF rest < 0 THEN <<days - 1, rest + kSecondsPerDay>> ELSE <<days, rest>>

\* toUtcTime(), with yday; a struct tm counts years from 1900 and months from 0.
toUtcTime(seconds) ==
  LET split == SplitDays(seconds)
      date == split[1] + kJulianDayOf1970_01_01
      ymd == getYearMonthDay(date)
  IN [hms |-> fillHMS(split[2]),
      tm_year |-> ymd.year - 1900, tm_mon |-> ymd.month - 1, tm_mday |-> ymd.day,
      tm_wday |-> weekDay(date),
      tm_yday |-> date - getJulianDayNumber(ymd.year, 1, 1)]

\* fromUtcTime()
fromUtcTime(tm) ==
  LET days == getJulianDayNumber(tm.tm_year + 1900, tm.tm_mon + 1, tm.tm_mday) - kJulianDayOf1970_01_01
  IN days * kSecondsPerDay + tm.hms.tm_hour * 3600 + tm.hms.tm_min * 60 + tm.hms.tm_sec
-----------------------------------------------------------------------------
(* The Gregorian calendar *)

IsLeap(y) == (y % 4 = 0 /\ y % 100 # 0) \/ y % 400 = 0
DaysOf(y, m) ==
  CASE m = 2 -> IF IsLeap(y) THEN 29 ELSE 28
    [] m \in {4, 6, 9, 11} -> 30
    [] OTHER -> 31

\* The days from 1 January 1970, a Thursday, to 1 January of a year.
LeapYears(from, upTo) == Cardinality({y \in from .. upTo - 1 : IsLeap(y)})
YearStart(y) ==
  IF y >= 1970 THEN 365 * (y - 1970) + LeapYears(1970, y)
  ELSE 365 * (y - 1970) - LeapYears(y, 1970)

VARIABLES
  date,   \* a day: [year, month, day]
  days,   \* the days from 1 January 1970 to it
  yday    \* and from 1 January of its year

vars == <<date, days, yday>>

Init ==
  /\ date \in {[year |-> y, month |-> 1, day |-> 1] : y \in Year}
  /\ days = YearStart(date.year) /\ yday = 0

\* The next day of the year.
NextDay ==
  /\ \/ /\ date.day < DaysOf(date.year, date.month)
        /\ date' = [date EXCEPT !.day = @ + 1]
     \/ /\ date.day = DaysOf(date.year, date.month) /\ date.month < 12
        /\ date' = [date EXCEPT !.month = @ + 1, !.day = 1]
  /\ days' = days + 1 /\ yday' = yday + 1

Next == NextDay
-----------------------------------------------------------------------------
(* Properties *)

\* The days for which a time fits into 32 bits: 14 December 1901 to 18 January 2038.
InTime == days \in -24854 .. 24854

\* Date and TimeZone agree with the calendar: a date and its Julian day number
\* are converted into each other, a day has its day of the week and of the year,
\* and a time, also before 1970, is split into its fields and put together again.
CalendarExact ==
  LET jdn == getJulianDayNumber(date.year, date.month, date.day) IN
  /\ jdn = days + 2440588
  /\ getYearMonthDay(jdn) = date
  /\ weekDay(jdn) = (4 + days) % 7
  /\ InTime => \A s \in Second :
       LET tm == toUtcTime(days * kSecondsPerDay + s) IN
       /\ tm.tm_year = date.year - 1900 /\ tm.tm_mon = date.month - 1 /\ tm.tm_mday = date.day
       /\ tm.tm_wday = (4 + days) % 7 /\ tm.tm_yday = yday
       /\ tm.hms = [tm_sec |-> s % 60, tm_min |-> (s % 3600) \div 60, tm_hour |-> s \div 3600]
       /\ fromUtcTime(tm) = days * kSecondsPerDay + s
=============================================================================
