------------------------------- MODULE Values -------------------------------
(***************************************************************************)
(* The value layer of the driver: the Integer class, the Encoder, its      *)
(* reading of type names, the makers of time based UUIDs and the classes   *)
(* for the other values that JavaScript has no type for.  They share no    *)
(* state, so a behaviour is of one of them.                                *)
(***************************************************************************)
EXTENDS Encoder, DecimalType, TypeNames, TimeUuid

CONSTANTS
    maxInt32, maxLong, nanosPer,           \* of DurationType
    MaxGroup,                              \* of InetType
    MaxJsDate, SecondDigits, MilliDigits,  \* of CalendarType
    PartBits, ChunkDigits,                 \* of MutableLongType
    Durations, DurationTexts,              \* durations, and texts that users write
    Decimals,                              \* unscaled values with scales
    Addresses, AddressTexts,               \* IPv6 addresses, and texts that users write
    Dates, Days,                           \* dates, and days since 1970
    Times, Millis,                         \* nanoseconds of a day, and Dates in milliseconds
    Longs, LongTexts                       \* parts of a MutableLong, and digits

Duration == INSTANCE DurationType
Inet == INSTANCE InetType
Calendar == INSTANCE CalendarType
MutableLong == INSTANCE MutableLongType

\* What a user makes of a value of the other types, with the argument in subject and the
\* answer in image
VARIABLES
    subject,    \* the use, and its arguments
    image       \* what it returns

typeVars == <<subject, image>>

TypesStart == subject = <<"nothing">> /\ image = <<"nothing">>

Use(what, arguments, answer) == subject' = <<what, arguments>> /\ image' = answer

PrintDuration(d) == Use("print duration", d, Duration!fromString(Duration!toString(d)))
ParseDuration(t) == Use("parse duration", t, Duration!fromString(t))

PrintDecimal(d) ==
    \E int \in {toString(d.intVal)} :
        \E text \in {decimalToString(int, d.scale)} :
            Use("print decimal", d, decimalFromString(text))
Calculate(a, b) ==
    Use("decimals", <<a, b>>, [plus |-> decimalAdd(a, b), minus |-> decimalSubtract(a, b),
                               order |-> decimalCompare(a, b)])

PrintAddress(a) == Use("print address", a, Inet!fromString(Inet!split(Inet!toString(a)), MaxGroup))
\* Groups that the text leaves out are whatever was in memory.
ParseAddress(parts) ==
    \E rest \in {0, MaxGroup} : Use("parse address", parts, Inet!fromString(parts, rest))

MakeDate(date) == Use("make date", date, Calendar!newDate(date))
PrintDate(days) == Use("print date", days, Calendar!dateToString(days))
PrintTime(nanos) == Use("print time", nanos, Calendar!timeFromString(Calendar!timeToString(nanos)))
TimeOfDate(millis) == Use("time of date", millis, Calendar!timeFromDate(millis, 0))

ParseLong(t) == Use("parse long", t, MutableLong!fromString(t.negative, t.digits))
LongArithmetic(a, b) ==
    Use("longs", <<a, b>>, [sum |-> MutableLong!add(a, b), product |-> MutableLong!multiply(a, b),
                            order |-> MutableLong!compare(a, b)])
LongShifts(a, n) ==
    Use("shifts", <<a, n>>, [left |-> MutableLong!shiftLeft(a, n),
                             right |-> MutableLong!shiftRightUnsigned(a, n)])

TypesNext ==
    /\ subject = <<"nothing">>
    /\ \/ \E d \in Durations : PrintDuration(d)
       \/ \E t \in DurationTexts : ParseDuration(t)
       \/ \E d \in Decimals : PrintDecimal(d)
       \/ \E a, b \in Decimals : Calculate(a, b)
       \/ \E a \in Addresses : PrintAddress(a)
       \/ \E p \in AddressTexts : ParseAddress(p)
       \/ \E d \in Dates : MakeDate(d)
       \/ \E d \in Days : PrintDate(d)
       \/ \E t \in Times : PrintTime(t)
       \/ \E m \in Millis : TimeOfDate(m)
       \/ \E t \in LongTexts : ParseLong(t)
       \/ \E a, b \in Longs : LongArithmetic(a, b)
       \/ \E a \in Longs, n \in 0 .. 4 * PartBits : LongShifts(a, n)

-----------------------------------------------------------------------------
VARIABLE layer      \* which of the five this behaviour is of

uuidVars == vars
valuesVars == <<integerVars, codecVars, nameVars, uuidVars, typeVars, layer>>

IntegerStart == acc = ZERO /\ exact = 0 /\ wide = FALSE /\ steps = 0
AnyOption == options = CHOOSE o \in Option : TRUE
CodecAtRest == AnyOption /\ CodecStart

\* The makers of UUIDs keep their counters in the module, so these start with it.
ValuesInit ==
    /\ Init
    /\ TypesStart
    /\ \/ layer = "integer" /\ IntegerInit /\ CodecAtRest /\ NamesStart
       \/ layer = "codec" /\ IntegerStart /\ CodecInit /\ NamesStart
       \/ layer \in {"names", "uuid", "types"} /\ IntegerStart /\ CodecAtRest /\ NamesStart

ValuesNext ==
    \/ /\ layer = "integer" /\ IntegerNext
       /\ UNCHANGED <<codecVars, nameVars, uuidVars, typeVars, layer>>
    \/ /\ layer = "codec" /\ CodecNext
       /\ UNCHANGED <<integerVars, nameVars, uuidVars, typeVars, layer>>
    \/ /\ layer = "names" /\ NamesNext
       /\ UNCHANGED <<integerVars, codecVars, uuidVars, typeVars, layer>>
    \/ /\ layer = "uuid" /\ Next
       /\ UNCHANGED <<integerVars, codecVars, nameVars, typeVars, layer>>
    \/ /\ layer = "types" /\ TypesNext
       /\ UNCHANGED <<integerVars, codecVars, nameVars, uuidVars, layer>>

ValuesSpec == ValuesInit /\ [][ValuesNext]_valuesVars

-----------------------------------------------------------------------------
Given == subject[2]
Uses(what) == subject[1] = what

\* A duration survives its text if its parts have one sign (the text has one for all),
\* toFixed() does not round its years up and no part is the least of its type. A text is
\* read as its format says, or refused, if its numbers of hours and less are Longs: a
\* greater one is taken modulo 2^64 by Long.fromString.
DurationsKept ==
    /\ Uses("print duration") /\ Duration!OneSign(Given) /\ Duration!Printable(Given) =>
            image = Given
    /\ Uses("parse duration") /\ Duration!NumbersAreLongs(Given) =>
            image = IF Duration!Matches(Given.form, Given.parts)
                    THEN Duration!Reading(Given) ELSE [ok |-> FALSE]

\* The power of ten that brings a decimal to a scale is a Number without rounding, and
\* the product is one that multiply computes right (see IntegerIsExact).
ScalesExactly(d, scale) ==
    /\ TenTo(scale - d.scale) = 10 ^ (scale - d.scale)
    /\ ~Wide(ValueOf(d.intVal), 10 ^ (scale - d.scale))

\* A decimal of a scale that is not negative survives its text. Sums, differences and
\* comparisons of decimals are exact, unless the power of ten between their scales is
\* rounded (from 10^23 on) or it and the unscaled value both have more than one word.
DecimalsExact ==
    /\ Uses("print decimal") /\ Given.scale >= 0 => image = Given
    /\ Uses("decimals") =>
         LET scale == IF Given[1].scale > Given[2].scale THEN Given[1].scale ELSE Given[2].scale
             a == ValueOf(Given[1].intVal) * 10 ^ (scale - Given[1].scale)
             b == ValueOf(Given[2].intVal) * 10 ^ (scale - Given[2].scale)
         IN  ScalesExactly(Given[1], scale) /\ ScalesExactly(Given[2], scale) =>
               /\ image.plus.scale = scale /\ ValueOf(image.plus.intVal) = a + b
               /\ image.minus.scale = scale /\ ValueOf(image.minus.intVal) = a - b
               /\ image.order = CASE a < b -> -1 [] a = b -> 0 [] a > b -> 1

\* An address survives its text if each run of zeros is longer than those before; others
\* can lose groups that are not zero. A text with an empty part is read the same whatever is
\* in memory; one without, and with fewer than eight groups, is accepted and its address
\* filled up with what is there.
AddressesKept ==
    /\ Uses("print address") /\ Inet!RunsGrow(Given) => image = [ok |-> TRUE, address |-> Given]
    /\ Uses("parse address") /\ (\E i \in DOMAIN Given : Given[i] = << >>) =>
            \A rest \in {0, MaxGroup} : image = Inet!fromString(Given, rest)

\* The days of a date are those of the calendar, in the years that local_date.rs numbers
\* right (YearsNumbered), and a day is the date that has its number, for days after the
\* year 0.
DatesKept ==
    /\ Uses("make date") /\ Calendar!YearsNumbered(Given.year) /\ image.ok =>
            image.value = Calendar!DayNumber(Given)
    /\ Uses("print date") /\ image[1] = "date" /\ image[2].year > 0 =>
            Calendar!DayNumber(image[2]) = Given
    /\ Uses("print date") /\ image[1] = "days" => Calendar!dateFromString(image) = Given

\* A time survives its text, and the time of a date is that of its day, from 1970 on.
TimesKept ==
    /\ Uses("print time") => image = [ok |-> TRUE, value |-> Given]
    /\ Uses("time of date") /\ Given >= 0 =>
            image.ok /\ image.value = (Given % Calendar!MillisInDay) * Calendar!NanosInMilli

\* The parts of a MutableLong are the integer modulo its width, through sums, products,
\* shifts, comparisons and the reading of digits.
LongsExact ==
    /\ Uses("longs") =>
         LET a == MutableLong!Signed(Given[1])
             b == MutableLong!Signed(Given[2])
         IN  /\ (MutableLong!Unsigned(image.sum) - a - b) % MutableLong!Bits = 0
             /\ (MutableLong!Unsigned(image.product) - a * b) % MutableLong!Bits = 0
             /\ image.order = CASE a < b -> -1 [] a = b -> 0 [] a > b -> 1
    /\ Uses("shifts") =>
         LET u == MutableLong!Unsigned(Given[1])
         IN  /\ MutableLong!Unsigned(image.left) = (u * 2^Given[2]) % MutableLong!Bits
             /\ MutableLong!Unsigned(image.right) = u \div 2^Given[2]
    /\ Uses("parse long") =>
         LET n == DecimalValue(Given.digits)
         IN  (MutableLong!Unsigned(image) - (IF Given.negative THEN -n ELSE n))
                 % MutableLong!Bits = 0

\* What a value is printed as reads back as the value, and what a text says is what is
\* read from it, but for the exceptions that each part names: durations of mixed signs, of
\* years that toFixed() rounds up or with numbers past a Long, addresses with a later run
\* of zeros that is not longer, dates of years that to_days misnumbers or before the year
\* 1, and times of dates before 1970.
TextsKept == DurationsKept /\ AddressesKept /\ DatesKept /\ TimesKept

\* What Ymd::to_days says of itself, that it counts the days since 01.01.1970, for the
\* value that a LocalDate of any year keeps and sends.
DateIsItsDay == Uses("make date") /\ image.ok => image.value = Calendar!DayNumber(Given)

\* The words of the Integer are in range and normal, the Encoder is in one of its
\* configurations and what it holds are bytes; the counters of the UUIDs are in range.
ValuesTypeOK == IntegerTypeOK /\ CodecTypeOK /\ TypeOK

\* An Integer of integer.js is the integer it stands for, seen through every way out
\* of the class: its words after any chain of operations, comparison with others, the
\* bytes of a varint and the decimal digits, until two Integers of more than one word
\* are multiplied.
IntegerExact == layer = "integer" => IntegerIsExact

\* Whatever a number of the driver is kept in, an Integer, the parts of a MutableLong or
\* the scaled Integer of a BigDecimal, it is computed with as the number it stands for.
\* Out of this are, by name, what follows a product of two Integers of more than one
\* word (wide), where a carry can be lost, and decimals that are scaled by such a product
\* or by a power of ten that no Number is (ScalesExactly).
NumbersExact == IntegerExact /\ LongsExact /\ DecimalsExact

\* Bytes stand for one value: all clients write the same ones for it, whatever their
\* options, except for a number past the range of a bigint, and the routing keys of two
\* partitions differ.
BytesIdentify == WireSameForAllClients /\ RoutingKeysDistinct

\* What encode() accepts reads back as it was written, and it throws exactly for the
\* values that Refused lists. The one value that is accepted and changed on the way is a
\* number past the range of a bigint (PastLong).
CodecFaithful == ValuesTypeOK /\ RoundTrip /\ ThrowsOnlyWhenRefused
=============================================================================
