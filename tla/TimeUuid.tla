------------------------------ MODULE TimeUuid ------------------------------
(***************************************************************************)
(* The generation of version 1 UUIDs (lib/types/time-uuid.js): the three   *)
(* counters the module keeps to tell apart values of the same millisecond, *)
(* and the layout of date and ticks in the 16 bytes.                       *)
(*                                                                         *)
(* All values are made with given node and clock identifiers, the case in  *)
(* which only date and ticks tell two of them apart. The callback variants *)
(* of now() and fromDate() obtain random identifiers first and then run    *)
(* the same code in one go.                                                *)
(***************************************************************************)
EXTENDS Integers, Sequences, FiniteSets

CONSTANTS
    Clock,            \* the readings of new Date() and the dates of users, in ms
    TicksInMs,        \* _ticksInMs, 10000 in the code
    UnixToGregorian,  \* _unixToGregorian
    LowBits,          \* 32: width of the time_low field
    MidBits,          \* 16: width of the time_mid field
    TopBits,          \* 12: width of the time_hi field below the version
    GivenTicks,       \* the ticks users give
    MaxCalls,         \* bound: values made
    NotGiven            \* an argument that is not given

ASSUME TimeUuidAssumption ==
    /\ Clock \subseteq Nat \ {0}
    /\ TicksInMs \in Nat \ {0}
    /\ UnixToGregorian \in Nat
    /\ LowBits \in Nat /\ MidBits \in Nat /\ TopBits \in Nat
    /\ GivenTicks \subseteq Nat
    /\ MaxCalls \in Nat
    /\ NotGiven \notin Nat

\* The timestamp field has room for the dates: with its 60 bits up to the year 5236.
ASSUME LayoutAssumption ==
    /\ 2^LowBits \in Nat \ {0} /\ 2^MidBits \in Nat \ {0} /\ 2^TopBits \in Nat \ {0}
    /\ \A time \in Clock :
          (time + UnixToGregorian + 1) * TicksInMs <= 2^LowBits * (2^MidBits * 2^TopBits)

VARIABLES
    ticks,                \* _ticks
    ticksForCurrentTime,  \* _ticksForCurrentTime
    lastTimestamp,        \* _lastTimestamp
    made,                 \* history: the values made from dates, in order
    draws,                \* history: how often the shared counter was moved
    last,                 \* history: date and ticks of the last now()
    burst,                \* history: calls of now() since its clock reading moved
    steady,               \* history: the clock of now() never went backwards
    calls                 \* number of values made

counters == <<ticks, ticksForCurrentTime, lastTimestamp>>
Maker == {"fromDate", "min"}

vars == <<counters, made, draws, last, burst, steady, calls>>

Init ==
    /\ ticks = 0
    /\ ticksForCurrentTime = 0
    /\ lastTimestamp = 0
    /\ made = << >>
    /\ draws = 0
    /\ last = [time |-> 0, ticks |-> 0]
    /\ burst = 0
    /\ steady = TRUE
    /\ calls = 0

-----------------------------------------------------------------------------
\* The layout of the bytes

\* The version nibble above time_hi is masked off.
Fields(f) == [f EXCEPT !.hi = @ % 2^TopBits]

\* writeTime() and the version byte of generateBuffer()
WriteTime(time, t) ==
    LET val == (time + UnixToGregorian) * TicksInMs + t
        timeHigh == val \div 2^LowBits
    IN  [low |-> val % 2^LowBits,
         mid |-> timeHigh % 2^MidBits,
         hi  |-> ((timeHigh \div 2^MidBits) % 2^TopBits) + 2^TopBits]

\* getDatePrecision()
DatePrecision(fields) ==
    LET f == Fields(fields)
        val == f.low + 2^LowBits * (f.mid + 2^MidBits * f.hi)
    IN  [time  |-> (val \div TicksInMs) - UnixToGregorian,
         ticks |-> val % TicksInMs]

-----------------------------------------------------------------------------
\* The counters

Generates(given) == given = NotGiven \/ given >= TicksInMs

\* Faulty: the counter skips half of its range.
NextTicks_ShortWrap == IF 2 * (ticks + 1) >= TicksInMs THEN 0 ELSE ticks + 1

\* The shared counter, one further.
NextTicks == IF ticks + 1 >= TicksInMs THEN 0 ELSE ticks + 1

\* getTicks(ticks)
GetTicks(given) == IF Generates(given) THEN NextTicks ELSE given

AdvanceTicks(given) ==
    IF Generates(given)
    THEN ticks' = NextTicks /\ draws' = draws + 1
    ELSE UNCHANGED <<ticks, draws>>

\* Faulty: the counter of the current time starts over only when it is full.
Restart_OnlyWhenFull(time, next) == next > TicksInMs

\* Whether getTimeWithTicks() starts the counter of the current time over.
Restart(time, next) == next > TicksInMs \/ time > lastTimestamp

\* now(): the current date, and the number of the value within it.
Now(time) ==
    LET next == ticksForCurrentTime + 1
        restart == Restart(time, next)
        current == IF restart THEN 0 ELSE next
    IN  /\ calls < MaxCalls
        /\ calls' = calls + 1
        /\ ticksForCurrentTime' = current
        /\ lastTimestamp' = IF restart THEN time ELSE lastTimestamp
        /\ AdvanceTicks(current)
        /\ last' = [time |-> time, ticks |-> GetTicks(current)]
        /\ burst' = IF time = last.time THEN burst + 1 ELSE 1
        /\ steady' = (steady /\ time >= last.time)
        /\ UNCHANGED made

\* fromDate() and min() on a valid date, with or without ticks. max() is min() with
\* other identifiers.
FromDate(how, time, given) ==
    /\ calls < MaxCalls
    /\ calls' = calls + 1
    /\ AdvanceTicks(given)
    /\ made' = Append(made, [how |-> how, time |-> time, ticks |-> GetTicks(given),
                             draw |-> IF Generates(given) THEN draws + 1 ELSE 0])
    /\ UNCHANGED <<ticksForCurrentTime, lastTimestamp, last, burst, steady>>

Next ==
    \E time \in Clock :
        \/ Now(time)
        \/ \E how \in Maker, given \in GivenTicks \cup {NotGiven} :
              FromDate(how, time, given)

Spec == Init /\ [][Next]_vars

-----------------------------------------------------------------------------
\* The counters stay within their ranges: getTicks() never hands out a tick that does
\* not fit into its millisecond.
TypeOK ==
    /\ ticks \in 0 .. TicksInMs - 1
    /\ ticksForCurrentTime \in 0 .. TicksInMs
    /\ lastTimestamp \in Nat
    /\ made \in Seq([how : Maker, time : Clock,
                     ticks : 0 .. TicksInMs - 1, draw : Nat])
    /\ draws \in 0 .. calls
    /\ last \in [time : Nat, ticks : 0 .. TicksInMs - 1]
    /\ burst \in 0 .. calls
    /\ steady \in BOOLEAN
    /\ calls \in 0 .. MaxCalls

\* The position of a value in time
Value(v) == v.time * TicksInMs + v.ticks

\* While the clock does not go backwards and no millisecond sees more than TicksInMs
\* values, every value of now() is greater than the one before, whatever fromDate()
\* and min() do to the shared counter in between: no two are equal.
NowIncreases ==
    [][steady' /\ burst' <= TicksInMs /\ last.time # 0 => Value(last') > Value(last)]_<<last, burst>>

\* A date and its ticks survive the way into the bytes of the uuid and back.
DecodesBack ==
    \A i \in DOMAIN made :
        DatePrecision(WriteTime(made[i].time, made[i].ticks))
            = [time |-> made[i].time, ticks |-> made[i].ticks]

\* The values of fromDate() for which no ticks were given
Generated == {i \in DOMAIN made : made[i].how = "fromDate" /\ made[i].draw # 0}

\* Values of fromDate() for which no ticks were given, of whatever date, differ when the
\* counter was moved fewer than TicksInMs times from one to the other, by min() without
\* ticks, or now() in a crowded millisecond, too: the counter runs through its whole
\* range.  Nothing is said of min() and max() without ticks, which are documented to be
\* the least and the greatest of their date and yet take the next tick of the counter.
GeneratedDiffer ==
    \A i, j \in Generated :
        i < j /\ made[j].draw - made[i].draw < TicksInMs => made[i].ticks # made[j].ticks

\* What a uuid says about its date and its place in the millisecond is true, and the
\* values that fromDate() makes without ticks are told apart.
UuidsTold == DecodesBack /\ GeneratedDiffer
=============================================================================
