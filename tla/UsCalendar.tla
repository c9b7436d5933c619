------------------------------ MODULE UsCalendar ------------------------------
(***************************************************************************)
(* The calendar of the American exchange as the overseas engine computes   *)
(* it: daylight saving time, the holidays of a year, and which phase of    *)
(* trading a moment falls in.  A date is the number of days since the      *)
(* first of January 1970, a moment the minutes since then in UTC.          *)
(***************************************************************************)
EXTENDS Integers

Hour == 60
Minutes == 24 * Hour

\* datetime.date: years begin in March for the count, so that a leap day is the last.
Date(y, m, d) ==
    LET year  == IF m <= 2 THEN y - 1 ELSE y
        month == (m + 9) % 12
    IN 365 * year + (year \div 4) - (year \div 100) + (year \div 400)
       + ((153 * month + 2) \div 5) + d - 1 - 719468

YearOf(date) ==
    CHOOSE y \in 1970 + (date \div 366) .. 1970 + (date \div 365) :
        Date(y, 1, 1) <= date /\ date < Date(y + 1, 1, 1)

Weekday(date) == (date + 3) % 7
Monday == 0
Thursday == 3
Saturday == 5
Sunday == 6

NthWeekday(y, m, w, n) ==
    Date(y, m, 1) + ((w - Weekday(Date(y, m, 1))) % 7) + 7 * (n - 1)

\* _nth_weekday with n = -1
LastWeekday(y, m, w) ==
    LET last == Date(y + (m \div 12), (m % 12) + 1, 1) - 1
    IN last - ((Weekday(last) - w) % 7)

Easter(y) ==
    LET a == y % 19
        b == y \div 100
        c == y % 100
        g == (b - ((b + 8) \div 25) + 1) \div 3
        h == (19 * a + b - (b \div 4) - g + 15) % 30
        l == (32 + 2 * (b % 4) + 2 * (c \div 4) - h - (c % 4)) % 7
        n == h + l - 7 * ((a + 11 * h + 22 * l) \div 451) + 114
    IN Date(y, n \div 31, (n % 31) + 1)

\* A holiday on a weekend is kept on the nearest weekday.
Observed(date) ==
    CASE Weekday(date) = Saturday -> date - 1
      [] Weekday(date) = Sunday   -> date + 1
      [] OTHER                    -> date

\* us_market_holidays: the days kept on a date, but for a New Year's Day that is a
\* Saturday, and the days kept on a weekday.
Holidays(y) ==
    LET newYear == Date(y, 1, 1)
        dated   == {Date(y, 7, 4), Date(y, 12, 25)}
                   \cup {d \in {newYear} : Weekday(d) # Saturday}
                   \cup {d \in {Date(y, 6, 19)} : y >= 2022}
    IN {Observed(d) : d \in dated}
       \cup {NthWeekday(y, 1, Monday, 3), NthWeekday(y, 2, Monday, 3), Easter(y) - 2,
             LastWeekday(y, 5, Monday), NthWeekday(y, 9, Monday, 1),
             NthWeekday(y, 11, Thursday, 4)}

------------------------------------------------------------------------------
\* Phases

\* _us_eastern_offset_hours, the rule the time zone's data follow as well.
EasternOffset(utc) ==
    LET y     == YearOf(utc \div Minutes)
        start == NthWeekday(y, 3, Sunday, 2) * Minutes + 7 * Hour
        end   == NthWeekday(y, 11, Sunday, 1) * Minutes + 6 * Hour
    IN IF start <= utc /\ utc < end THEN -4 ELSE -5

NewYork(utc) == utc + EasternOffset(utc) * Hour
Korean(utc) == (utc + 9 * Hour) \div Minutes

Between(ny, from, to) == from <= ny % Minutes /\ ny % Minutes < to
RegularHours(ny) == Between(ny, 9 * Hour + 30, 16 * Hour)

\* us_session: from eight in the evening it is the next day's session.
SessionDate(ny) == (ny \div Minutes) + IF ny % Minutes >= 20 * Hour THEN 1 ELSE 0

Closed(ny) ==
    LET date == SessionDate(ny)
    IN Weekday(date) >= Saturday \/ date \in Holidays(YearOf(date))

UsPhase(utc) ==
    LET ny == NewYork(utc) IN
    CASE Closed(ny)                            -> "closed"
      [] ~Closed(ny) /\ RegularHours(ny)       -> "regular"
      [] ~Closed(ny) /\ Between(ny, 16 * Hour, 20 * Hour)          -> "afterhours"
      [] ~Closed(ny) /\ Between(ny, 4 * Hour, 9 * Hour + 30)       -> "premarket"
      [] OTHER                                 -> "overnight"
=============================================================================
