-------------------------------- MODULE Date --------------------------------
(***************************************************************************)
(* muduo::Date and the UTC conversions of muduo::TimeZone                  *)
(* (src/muduo/base/Date.cc, TimeZone.cc), against a calendar that counts   *)
(* days: a step is the day after.  The divisions of non-negative numbers   *)
(* are \div; those of time_t values, which may be negative, truncate.      *)
(***************************************************************************)
EXTENDS Integers, FiniteSets

CONSTANTS Years,      \* years to walk through
          Epoch       \* of these, the ones for which seconds are in TLC's range

VARIABLE today        \* the counted date, and how many days after 1970-01-01 it is

IsLeap(y) == y % 4 = 0 /\ (y % 100 # 0 \/ y % 400 = 0)

DaysIn(y, m) ==
    CASE m = 2 -> IF IsLeap(y) THEN 29 ELSE 28
      [] m \in {4, 6, 9, 11} -> 30
      [] OTHER -> 31

\* Days from 1970-01-01 to January 1 of y, by counting leap years.
YearStart(y) ==
    365 * (y - 1970) + Cardinality({n \in 1970 .. (y - 1) : IsLeap(n)})
                     - Cardinality({n \in y .. 1969 : IsLeap(n)})

DateInit ==
    \E y \in Years : today = [year |-> y, month |-> 1, day |-> 1, nth |-> YearStart(y)]

NextDay ==
    \/ /\ today.day < DaysIn(today.year, today.month)
       /\ today' = [today EXCEPT !.day = @ + 1, !.nth = @ + 1]
    \/ /\ today.day = DaysIn(today.year, today.month) /\ today.month < 12
       /\ today' = [today EXCEPT !.day = 1, !.month = @ + 1, !.nth = @ + 1]

DateSpec == DateInit /\ [][NextDay]_today

-----------------------------------------------------------------------------
getJulianDayNumber(year, month, day) ==
    LET a == (14 - month) \div 12
        y == year + 4800 - a
        m == month + 12 * a - 3
    IN  day + (153 * m + 2) \div 5 + y * 365 + y \div 4 - y \div 100 + y \div 400 - 32045

\* Fault: centuries are taken to be of equal length.
Century(a) == a \div 36524

Centuries(a) == (4 * a + 3) \div 146097

getYearMonthDay(julianDayNumber) ==
    LET a == julianDayNumber + 32044
        b == Centuries(a)
        c == a - (b * 146097) \div 4
        d == (4 * c + 3) \div 1461
        e == c - (1461 * d) \div 4
        m == (5 * e + 2) \div 153
    IN  [year |-> b * 100 + d - 4800 + m \div 10,
         month |-> m + 3 - 12 * (m \div 10),
         day |-> e - (153 * m + 2) \div 5 + 1]

kJulianDayOf1970_01_01 == getJulianDayNumber(1970, 1, 1)

weekDay(julianDayNumber) == (julianDayNumber + 1) % 7

kSecondsPerDay == 24 * 60 * 60

\* C's / and %, which round towards zero.
Quotient(a, b) == IF a >= 0 THEN a \div b ELSE -((-a) \div b)
Remainder(a, b) == a - Quotient(a, b) * b

\* Fault: times before 1970 are not moved into their day.
Unsplit(t) == <<Quotient(t, kSecondsPerDay), Remainder(t, kSecondsPerDay)>>

\* Days and seconds of the day.
SplitTime(t) ==
    LET seconds == Remainder(t, kSecondsPerDay)
        days == Quotient(t, kSecondsPerDay)
    IN  IF seconds < 0 THEN <<days - 1, seconds + kSecondsPerDay>> ELSE <<days, seconds>>

\* fillHMS() takes the seconds as unsigned.
fillHMS(seconds) ==
    [hour |-> (seconds \div 60) \div 60, min |-> (seconds \div 60) % 60, sec |-> seconds % 60]

toUtcTime(t) ==
    LET days == SplitTime(t)[1]
        date == getYearMonthDay(days + kJulianDayOf1970_01_01)
    IN  [date |-> date,
         time |-> fillHMS(SplitTime(t)[2]),
         wday |-> weekDay(days + kJulianDayOf1970_01_01),
         yday |-> days + kJulianDayOf1970_01_01 - getJulianDayNumber(date.year, 1, 1)]

fromUtcTime(utc) ==
    (getJulianDayNumber(utc.date.year, utc.date.month, utc.date.day) - kJulianDayOf1970_01_01)
        * kSecondsPerDay
    + utc.time.hour * 3600 + utc.time.min * 60 + utc.time.sec

-----------------------------------------------------------------------------
Ymd == [year |-> today.year, month |-> today.month, day |-> today.day]

(***************************************************************************)
(* The two closed forms agree with counting the days, over leap years and  *)
(* ends of centuries, and are inverse to each other (Date.cc:20-42).       *)
(***************************************************************************)
CalendarAgrees ==
    LET julian == getJulianDayNumber(today.year, today.month, today.day) IN
    /\ julian - kJulianDayOf1970_01_01 = today.nth
    /\ getYearMonthDay(julian) = Ymd

(***************************************************************************)
(* toUtcTime() gives the date, the time, the day of the week (1970-01-01   *)
(* was a Thursday) and of the year of every time, those before 1970        *)
(* included, and fromUtcTime() leads back (TimeZone.cc:322-363).           *)
(***************************************************************************)
UtcAgrees ==
    today.year \in Epoch =>
        \A s \in {0, 1, 59, 3600, 43199, kSecondsPerDay - 1} :
            LET t == today.nth * kSecondsPerDay + s
                utc == toUtcTime(t)
            IN  /\ utc.date = Ymd
                /\ utc.time.hour * 3600 + utc.time.min * 60 + utc.time.sec = s
                /\ utc.time.hour \in 0 .. 23 /\ utc.time.min \in 0 .. 59
                /\ utc.time.sec \in 0 .. 59
                /\ utc.wday = (today.nth + 4) % 7
                /\ utc.yday = today.nth - YearStart(today.year)
                /\ fromUtcTime(utc) = t

(***************************************************************************)
(* The arithmetic of dates and of UTC times is that of the calendar.       *)
(***************************************************************************)
DateInv ==
    /\ CalendarAgrees
    /\ UtcAgrees
=============================================================================
