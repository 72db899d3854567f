---------------------------- MODULE CalendarType ----------------------------
(***************************************************************************)
(* LocalDate and LocalTime (lib/types/local-date.js, local-time.js) with   *)
(* the calendar behind them (src/types/local_date.rs, local_time.rs).  A   *)
(* date is a number of days since 1970-01-01 or a year, month and day; a   *)
(* time is a number of nanoseconds since midnight.                         *)
(***************************************************************************)
EXTENDS Integers, Sequences, SequencesExt, FiniteSetsExt

CONSTANTS
    MaxJsDate,        \* MAX_JS_DATE: days that a Date of JavaScript can be away from 1970
    SecondDigits,     \* 9: decimal digits of the nanoseconds in a second
    MilliDigits       \* 6: decimal digits of the nanoseconds in a millisecond

Invalid == [ok |-> FALSE]

\* The quotient and the remainder of Rust and JavaScript, rounded towards zero
Quotient(a, b) == IF a < 0 THEN -((-a) \div b) ELSE a \div b
Remainder(a, b) == a - b * Quotient(a, b)
AbsoluteOf(a) == IF a < 0 THEN -a ELSE a

LeapYear1970 == 477
DayInMonth == <<0, 31, 59, 90, 120, 151, 181, 212, 243, 273, 304, 334>>

isLeapYear(year) == (year % 4 = 0 /\ year % 100 # 0) \/ year % 400 = 0
numberLeapYears(n) == Quotient(n, 4) - Quotient(n, 100) + Quotient(n, 400)
daysInYear(year) == IF isLeapYear(year) THEN 366 ELSE 365

daysInMonth(month, year) ==
    CASE month \in {1, 3, 5, 7, 8, 10, 12} -> 31
      [] month \in {4, 6, 9, 11} -> 30
      [] month = 2 -> IF isLeapYear(year) THEN 29 ELSE 28

\* Ymd::to_days
toDays(date) ==
    LET year == date.year
        numberDay == DayInMonth[date.month]
                     + (IF isLeapYear(year) /\ date.month > 2 THEN 1 ELSE 0) + date.day - 1
        toEnd == daysInYear(year) - numberDay
        between == (1970 - year - 1) * 365 + LeapYear1970
    IN  CASE year >= 1970 ->
                (year - 1970) * 365 + numberLeapYears(year - 1) - LeapYear1970 + numberDay
          [] year < 0 -> -toEnd - (between + numberLeapYears(AbsoluteOf(year + 1)) + 1)
          [] OTHER    -> -toEnd - (between - numberLeapYears(year + 1))

RECURSIVE Years(_, _)
\* The loop of Ymd::from_days: whole years are taken from n until less than one is left.
Years(year, n) ==
    IF AbsoluteOf(n) < 365 THEN [year |-> year, n |-> n]
    ELSE LET k == Quotient(n, 365)
             next == year + k
             yearZero == CASE year > 0 /\ next < 0 -> 1
                           [] year < 0 /\ next > 0 -> -1
                           [] OTHER -> 0
         IN  Years(next, n + yearZero
                           - (k * 365 - numberLeapYears(year - 1) + numberLeapYears(next - 1)))

\* Ymd::from_days, for a number of days within the range of Date
fromDays(days) ==
    LET loop == Years(1970, days)
        year == IF loop.n < 0 THEN loop.year - 1 ELSE loop.year
        n == IF loop.n < 0 THEN loop.n + daysInYear(year) ELSE loop.n
        m == IF isLeapYear(year) /\ n >= 60 THEN n - 1 ELSE n
        month == Max({i \in DOMAIN DayInMonth : DayInMonth[i] <= m})
    IN  IF isLeapYear(year) /\ n > 31 /\ n < 60
        THEN [year |-> year, month |-> 2, day |-> n - 30]
        ELSE [year |-> year, month |-> month, day |-> m - DayInMonth[month] + 1]

InJsDate(days) == days \in -MaxJsDate .. MaxJsDate

\* new LocalDate(year, month, day)
newDate(date) ==
    IF /\ date.month \in 1 .. 12
       /\ date.day \in 1 .. daysInMonth(date.month, date.year)
       /\ InJsDate(toDays(date))
    THEN [ok |-> TRUE, value |-> toDays(date)]
    ELSE Invalid

\* LocalDate.toString(): the date, or the number of days when it is too far away.
dateToString(days) == IF InJsDate(days) THEN <<"date", fromDays(days)>> ELSE <<"days", days>>

\* LocalDate.fromString(): months and days are only matched against 1-12 and 1-31.
dateFromString(text) == IF text[1] = "days" THEN text[2] ELSE toDays(text[2])

\* The day of the Gregorian calendar, extended to all years
DayNumber(date) ==
    LET y == IF date.month <= 2 THEN date.year - 1 ELSE date.year
        m == IF date.month <= 2 THEN date.month + 9 ELSE date.month - 3
    IN  365 * y + y \div 4 - y \div 100 + y \div 400 + (153 * m + 2) \div 5 + date.day - 719469

\* The years whose days are numbered as in the calendar: all but those from 0 to 1969 that
\* are followed by a leap year, which to_days counts among the years in between.
YearsNumbered(year) == year \in 0 .. 1969 => ~isLeapYear(year + 1)

-----------------------------------------------------------------------------
NanosInSecond == 10^SecondDigits
NanosInMilli == 10^MilliDigits
MaxNanos == 86400 * NanosInSecond - 1
MillisInDay == 86400 * 10^(SecondDigits - MilliDigits)

\* LocalTimeWrapper::convert_to_object
convertToObject(nanos) ==
    LET second == nanos \div NanosInSecond
    IN  [hour |-> (second \div 60) \div 60, minute |-> (second \div 60) % 60,
         second |-> second % 60, nanosecond |-> nanos - second * NanosInSecond]

\* new LocalTime(totalNanoseconds)
newTime(nanos) == IF nanos \in 0 .. MaxNanos THEN [ok |-> TRUE, value |-> nanos] ELSE Invalid

\* LocalTime.toString(): the fraction has leading zeros and no trailing ones.
timeToString(nanos) ==
    LET t == convertToObject(nanos)
        zeros == Max({k \in 0 .. SecondDigits : t.nanosecond % 10^k = 0})
    IN  [hour |-> t.hour, minute |-> t.minute, second |-> t.second,
         digits |-> IF t.nanosecond = 0 THEN 0 ELSE SecondDigits - zeros,
         fraction |-> t.nanosecond \div 10^zeros]

\* LocalTime.fromString(): the pattern lets the hour be 24.
timeFromString(text) ==
    newTime(((text.hour * 60 + text.minute) * 60 + text.second) * NanosInSecond
            + text.fraction * 10^(SecondDigits - text.digits))

\* LocalTime.fromDate(date, nanoseconds) of a date in milliseconds of local time: the
\* remainder has the sign of the date.
timeFromDate(millis, nanoseconds) ==
    newTime(Remainder(millis, MillisInDay) * NanosInMilli + nanoseconds)
=============================================================================
