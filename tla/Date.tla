-------------------------------- MODULE Date --------------------------------
(***************************************************************************)
(* base/Date and the UTC half of base/TimeZone: dates as Julian day        *)
(* numbers, computed with integer arithmetic only, and the conversion      *)
(* between time_t and struct tm built on them.  The state is a calendar    *)
(* that is walked day by day, forwards and backwards from the epoch, with  *)
(* nothing but month lengths and the leap year rule: the reference that    *)
(* the closed formulas are compared with.                                  *)
(***************************************************************************)
EXTENDS CInteger

CONSTANTS
    FirstYear, LastYear,   \* the walk; Date.h promises 1900 to 2500
    SecondsOfDay,          \* the times of day tried with every day
    LastDay                \* days from the epoch whose time_t TLC can compute

\* From -4712 on the Julian day numbers are not negative.
ASSUME YearAssumption ==
    FirstYear \in Int /\ FirstYear >= -4712 /\ LastYear \in Int

VARIABLE date   \* [days since the epoch, year, month, day, wday, yday]

getJulianDayNumber(year, month, day) ==
    LET a == Quotient(14 - month, 12)
        y == year + 4800 - a
        m == month + 12 * a - 3
    IN  day + Quotient(153 * m + 2, 5) + y * 365 + Quotient(y, 4)
            - Quotient(y, 100) + Quotient(y, 400) - 32045

getYearMonthDay(julianDayNumber) ==
    LET a == julianDayNumber + 32044
        b == Quotient(4 * a + 3, 146097)
        c == a - Quotient(b * 146097, 4)
        d == Quotient(4 * c + 3, 1461)
        e == c - Quotient(1461 * d, 4)
        m == Quotient(5 * e + 2, 153)
    IN  [day |-> e - Quotient(153 * m + 2, 5) + 1,
         month |-> m + 3 - 12 * Quotient(m, 10),
         year |-> b * 100 + d - 4800 + Quotient(m, 10)]

kJulianDayOf1970_01_01 == getJulianDayNumber(1970, 1, 1)

weekDay(julianDayNumber) == Remainder(julianDayNumber + 1, 7)

kSecondsPerDay == 24 * 60 * 60

ASSUME TimeOfDayAssumption ==
    SecondsOfDay \subseteq 0..(kSecondsPerDay - 1) /\ LastDay \in Nat

fillHMS(seconds) ==
    [hour |-> (seconds \div 60) \div 60, min |-> (seconds \div 60) % 60,
     sec |-> seconds % 60]

\* The time of day and the day number a time_t is split into.
\* Mutant: the day is not corrected for times before the epoch.
splitDaysTruncating(t) ==
    LET seconds == Remainder(t, kSecondsPerDay)
        days == Quotient(t, kSecondsPerDay)
    IN  IF seconds < 0
        THEN [seconds |-> seconds + kSecondsPerDay, days |-> days]
        ELSE [seconds |-> seconds, days |-> days]

splitDays(t) ==
    LET seconds == Remainder(t, kSecondsPerDay)
        days == Quotient(t, kSecondsPerDay)
    IN  IF seconds < 0
        THEN [seconds |-> seconds + kSecondsPerDay, days |-> days - 1]
        ELSE [seconds |-> seconds, days |-> days]

\* struct tm as with yday = true, and with the year and the month as a reader
\* writes them.
toUtcTime(t) ==
    LET split == splitDays(t)
        jdn == split.days + kJulianDayOf1970_01_01
        ymd == getYearMonthDay(jdn)
    IN  [date |-> ymd, clock |-> fillHMS(split.seconds), wday |-> weekDay(jdn),
         yday |-> jdn - getJulianDayNumber(ymd.year, 1, 1)]

fromUtcTime(ymd, clock) ==
    (getJulianDayNumber(ymd.year, ymd.month, ymd.day) - kJulianDayOf1970_01_01)
        * kSecondsPerDay
        + clock.hour * 3600 + clock.min * 60 + clock.sec

-----------------------------------------------------------------------------
\* The reference calendar.
IsLeap(year) == year % 4 = 0 /\ (year % 100 = 0 => year % 400 = 0)

MonthDays(year, month) ==
    CASE month = 2 -> IF IsLeap(year) THEN 29 ELSE 28
      [] month \in {4, 6, 9, 11} -> 30
      [] OTHER -> 31

YearDays(year) == IF IsLeap(year) THEN 366 ELSE 365

NextDay ==
    LET tomorrow == [date EXCEPT !.days = @ + 1, !.wday = (@ + 1) % 7]
        last == MonthDays(date.year, date.month)
    IN  /\ date.days >= 0
        /\ \/ /\ date.day < last
              /\ date' = [tomorrow EXCEPT !.day = @ + 1, !.yday = @ + 1]
           \/ /\ date.day = last /\ date.month < 12
              /\ date' = [tomorrow EXCEPT !.month = @ + 1, !.day = 1, !.yday = @ + 1]
           \/ /\ date.day = last /\ date.month = 12 /\ date.year < LastYear
              /\ date' = [tomorrow EXCEPT !.year = @ + 1, !.month = 1, !.day = 1, !.yday = 0]

PreviousDay ==
    LET yesterday == [date EXCEPT !.days = @ - 1, !.wday = (@ + 6) % 7]
    IN  /\ date.days <= 0
        /\ \/ /\ date.day > 1
              /\ date' = [yesterday EXCEPT !.day = @ - 1, !.yday = @ - 1]
           \/ /\ date.day = 1 /\ date.month > 1
              /\ date' = [yesterday EXCEPT !.month = @ - 1,
                                      !.day = MonthDays(date.year, date.month - 1),
                                      !.yday = @ - 1]
           \/ /\ date.day = 1 /\ date.month = 1 /\ date.year > FirstYear
              /\ date' = [yesterday EXCEPT !.year = @ - 1, !.month = 12, !.day = 31,
                                      !.yday = YearDays(date.year - 1) - 1]

\* 1970-01-01 was a Thursday.
DateInit ==
    date = [days |-> 0, wday |-> 4, year |-> 1970, month |-> 1, day |-> 1,
            yday |-> 0]

DateNext == NextDay \/ PreviousDay

DateSpec == DateInit /\ [][DateNext]_date

-----------------------------------------------------------------------------
YearMonthDay == [year |-> date.year, month |-> date.month, day |-> date.day]

FormulasAgree ==
    LET jdn == getJulianDayNumber(date.year, date.month, date.day)
    IN  /\ jdn = kJulianDayOf1970_01_01 + date.days
        /\ getYearMonthDay(jdn) = YearMonthDay
        /\ weekDay(jdn) = date.wday

TimesAgree ==
    date.days \in -LastDay..(LastDay - 1) =>
        \A s \in SecondsOfDay :
            LET t == date.days * kSecondsPerDay + s
                tm == toUtcTime(t)
            IN  /\ tm.date = YearMonthDay
                /\ tm.wday = date.wday
                /\ tm.yday = date.yday
                /\ tm.clock.hour \in 0..23 /\ tm.clock.min \in 0..59
                /\ fromUtcTime(tm.date, tm.clock) = t

\* On every day of the years Date.h promises, centuries and leap years
\* included, the Julian day formulas, the weekday, toUtcTime() and
\* fromUtcTime() agree with the calendar, and the conversions are inverse,
\* also for the times before the epoch where C's remainder is negative.
CalendarAgrees == FormulasAgree /\ TimesAgree
=============================================================================
