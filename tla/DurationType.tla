---------------------------- MODULE DurationType ----------------------------
(***************************************************************************)
(* Duration (lib/types/duration.js): the Builder behind fromString() and   *)
(* the text that toString() makes.  A text is a sign, its format and a     *)
(* sequence of numbers with units; what the pattern of the standard format *)
(* passes over is Junk.                                                    *)
(***************************************************************************)
EXTENDS Integers, Sequences, SequencesExt

CONSTANTS
    maxInt32,   \* the greatest number of months, and of days
    maxLong,    \* Long.MAX_VALUE: the greatest number of nanoseconds
    nanosPer    \* nanoseconds of each unit from hours to nanoseconds

monthsPer == [y |-> 12, mo |-> 1]
daysPer == [w |-> 7, d |-> 1]

unitByIndex == <<"y", "mo", "w", "d", "h", "m", "s", "ms", "us", "ns">>
IndexOf(unit) == CHOOSE i \in DOMAIN unitByIndex : unitByIndex[i] = unit
Junk == <<0, "junk">>

Invalid == [ok |-> FALSE]

Builder == [ok |-> TRUE, unitIndex |-> 0, months |-> 0, days |-> 0, nanoseconds |-> 0]

\* _validateMonths and _validateDays
fits(n, total, per) == n <= (maxInt32 - total) \div per

\* The Long that an integer becomes, in Long.fromString() and in Long arithmetic
ToLong(n) == ((n + maxLong + 1) % (2 * (maxLong + 1))) - maxLong - 1

\* Long.divide() by a positive Long
divide(n, per) == IF n < 0 THEN -(-n \div per) ELSE n \div per

\* _validateNanos
fitsNanos(n, total, per) == n <= divide(ToLong(maxLong - total), per)

\* _validateOrder: a unit is smaller than the one before it.
inOrder(b, unit) == IndexOf(unit) > b.unitIndex

\* addYears() to addNanos(): a total past its limit is refused. A number of hours or
\* less is a Long before it is looked at.
addUnits(b, n, unit) ==
    CASE unit \in DOMAIN monthsPer /\ fits(n, b.months, monthsPer[unit]) ->
            [b EXCEPT !.months = @ + n * monthsPer[unit], !.unitIndex = IndexOf(unit)]
      [] unit \in DOMAIN daysPer /\ fits(n, b.days, daysPer[unit]) ->
            [b EXCEPT !.days = @ + n * daysPer[unit], !.unitIndex = IndexOf(unit)]
      [] unit \in DOMAIN nanosPer /\ fitsNanos(ToLong(n), b.nanoseconds, nanosPer[unit]) ->
            [b EXCEPT !.nanoseconds = ToLong(@ + ToLong(n) * nanosPer[unit]),
                      !.unitIndex = IndexOf(unit)]
      [] OTHER -> Invalid

\* Builder.add
add(b, part) == IF b.ok /\ inOrder(b, part[2]) THEN addUnits(b, part[1], part[2]) ELSE Invalid

build(b, negative) ==
    IF ~b.ok THEN b
    ELSE LET sign == IF negative THEN -1 ELSE 1
         IN  [ok |-> TRUE, months |-> sign * b.months, days |-> sign * b.days,
              nanoseconds |-> ToLong(sign * b.nanoseconds)]

isoUnits == <<"y", "mo", "d", "h", "m", "s">>
Units(parts) == [i \in DOMAIN parts |-> parts[i][2]]

\* Each unit is smaller than the one before.
Descending(parts) ==
    \A i, j \in DOMAIN parts : i < j => IndexOf(parts[i][2]) < IndexOf(parts[j][2])

\* What the pattern of each ISO 8601 format accepts.
Matches(form, parts) ==
    CASE form = "iso" -> /\ \A i \in DOMAIN parts : parts[i][2] \in ToSet(isoUnits)
                         /\ Descending(parts)
      [] form = "week" -> Units(parts) = <<"w">>
      [] form = "alternative" -> Units(parts) = isoUnits
      [] form = "standard" -> TRUE

\* Duration.fromString()
fromString(text) ==
    IF Matches(text.form, text.parts)
    THEN build(FoldLeft(add, Builder, SelectSeq(text.parts, LAMBDA p : p # Junk)), text.negative)
    ELSE Invalid

-----------------------------------------------------------------------------
Abs(n) == IF n < 0 THEN -n ELSE n

\* Number.toFixed(0) of a quotient rounds it.
toFixed(n, per) == (2 * n + per) \div (2 * per)

append(n, per, unit) == IF n < per THEN << >> ELSE <<<<toFixed(n, per), unit>>>>
append64(s, unit) ==
    IF s.rest < nanosPer[unit] THEN s
    ELSE [rest |-> s.rest % nanosPer[unit],
          parts |-> Append(s.parts, <<s.rest \div nanosPer[unit], unit>>)]

\* Duration.toString(): one sign for the whole, and the parts without theirs
toString(d) ==
    LET months == Abs(d.months)
        nanos == FoldLeft(append64, [rest |-> ToLong(Abs(d.nanoseconds)), parts |-> << >>],
                          <<"h", "m", "s", "ms", "us", "ns">>)
    IN  [negative |-> d.months < 0 \/ d.days < 0 \/ d.nanoseconds < 0,
         form |-> "standard",
         parts |-> append(months, monthsPer["y"], "y")
                   \o append(months % monthsPer["y"], 1, "mo")
                   \o append(Abs(d.days), 1, "d")
                   \o nanos.parts]

-----------------------------------------------------------------------------
\* What a text of the documented formats stands for: each unit once, from the greatest
\* to the smallest, and no total past its limit.
Reading(text) ==
    LET parts == SelectSeq(text.parts, LAMBDA p : p # Junk)
        Total(per) == FoldLeft(LAMBDA t, p : t + (IF p[2] \in DOMAIN per THEN p[1] * per[p[2]] ELSE 0),
                               0, parts)
        sign == IF text.negative THEN -1 ELSE 1
    IN  IF /\ Descending(parts)
           /\ Total(monthsPer) <= maxInt32
           /\ Total(daysPer) <= maxInt32
           /\ Total(nanosPer) <= maxLong
        THEN [ok |-> TRUE, months |-> sign * Total(monthsPer), days |-> sign * Total(daysPer),
              nanoseconds |-> sign * Total(nanosPer)]
        ELSE Invalid

\* Every number of hours or less is one that a Long can be.
NumbersAreLongs(text) ==
    \A i \in DOMAIN text.parts : text.parts[i][2] \in DOMAIN nanosPer => text.parts[i][1] <= maxLong

\* Its parts have one sign.
OneSign(d) ==
    \/ d.months >= 0 /\ d.days >= 0 /\ d.nanoseconds >= 0
    \/ d.months <= 0 /\ d.days <= 0 /\ d.nanoseconds <= 0

\* toFixed() does not take the part of a year below for one more, and no part is the
\* least of its type, whose negation is not one.
Printable(d) ==
    /\ Abs(d.months) % monthsPer["y"] < 6
    /\ Abs(d.months) <= maxInt32 /\ Abs(d.days) <= maxInt32 /\ Abs(d.nanoseconds) <= maxLong
=============================================================================
