------------------------- MODULE TimestampGenerator -------------------------
(***************************************************************************)
(* MonotonicTimestampGenerator of lib/policies/timestamp-generation.js:    *)
(* client-side write timestamps in microseconds, made from a clock that    *)
(* has millisecond precision and may stand still or run backwards.         *)
(* Timestamps decide which of two conflicting writes wins, so a repeated   *)
(* or decreasing one silently loses a write.                               *)
(***************************************************************************)
EXTENDS Integers

CONSTANTS
    Clock,              \* the readings Date.now() may give, in milliseconds
    MicrosPerMilli,     \* 1000 in the code
    MaxNumber,          \* 2^53: above it a Number no longer holds every integer
    MaxSafeNumberDate,  \* _maxSafeNumberDate
    WarningThreshold,   \* _warningThreshold
    MinLogInterval,     \* _minLogInterval
    MaxCalls            \* bound on the calls of next()

ASSUME ClockAssumption == Clock \subseteq Nat
ASSUME ScaleAssumption ==
    /\ MicrosPerMilli \in Nat \ {0}
    /\ MaxNumber \in Nat
    /\ MaxSafeNumberDate \in Nat
    /\ MaxSafeNumberDate * MicrosPerMilli <= MaxNumber
ASSUME LimitsAssumption ==
    /\ WarningThreshold \in Nat \ {0}
    /\ MinLogInterval \in Nat
    /\ MaxCalls \in Nat

VARIABLES
    micros,       \* _micros
    lastDate,     \* _lastDate
    lastLogDate,  \* _lastLogDate
    result,       \* the timestamp returned last, None before the first call
    maxReading,   \* history: the greatest clock reading so far
    calls         \* history: number of calls

vars == <<micros, lastDate, lastLogDate, result, maxReading, calls>>

None == -1

Init ==
    /\ micros = -1
    /\ lastDate = 0
    /\ lastLogDate = 0
    /\ result = None
    /\ maxReading = 0
    /\ calls = 0

-----------------------------------------------------------------------------
\* What a JavaScript Number makes of the integer x: from 2^53 on only the even
\* integers are left.
Number(x) == IF x <= MaxNumber THEN x ELSE x - (x % 2)

\* Faulty: a Number multiplication whatever the date: the timestamps of one millisecond
\* collapse once the product leaves the exact range.
GenerateMicroseconds_AlwaysNumber(date, us) ==
    Number(date * MicrosPerMilli + us)

\* _generateMicroseconds(): Number arithmetic while it is exact, Long arithmetic
\* (exact for every Date) from then on.
GenerateMicroseconds(date, us) ==
    LET value == date * MicrosPerMilli + us
    IN  IF date < MaxSafeNumberDate THEN Number(value) ELSE value

Record(date) ==
    /\ maxReading' = IF date > maxReading THEN date ELSE maxReading
    /\ calls' = calls + 1

\* next() when the clock has moved on since the last timestamp.
NextFresh(date) ==
    /\ calls < MaxCalls
    /\ date > lastDate
    /\ lastDate' = date
    /\ micros' = 0
    /\ result' = GenerateMicroseconds(date, 0)
    /\ UNCHANGED lastLogDate
    /\ Record(date)

\* How far the reading lies behind the last timestamp, the millisecond borrowed
\* when the microseconds overflow included.
Drifted(date, rollover) == (lastDate - date) + (IF rollover THEN 1 ELSE 0)

\* The warning about drift, at most one per interval; now is a second reading of
\* the clock.
LogDrift(drifted, now) ==
    lastLogDate' = IF /\ drifted >= WarningThreshold
                      /\ MinLogInterval > 0
                      /\ lastLogDate + MinLogInterval <= now
                   THEN now
                   ELSE lastLogDate

\* Faulty: every call in the held case borrows a millisecond.
NextHeld_AlwaysBorrow(date, now) ==
    /\ calls < MaxCalls
    /\ date <= lastDate
    /\ micros' = 0
    /\ lastDate' = lastDate + 1
    /\ LogDrift(Drifted(date, TRUE), now)
    /\ result' = GenerateMicroseconds(lastDate', micros')
    /\ Record(date)

\* next() when the clock stands still or went backwards: the last date is kept
\* and the microsecond counter moves, borrowing a millisecond when it is full.
NextHeld(date, now) ==
    /\ calls < MaxCalls
    /\ date <= lastDate
    /\ LET rollover == micros + 1 = MicrosPerMilli
       IN  /\ micros' = IF rollover THEN 0 ELSE micros + 1
           /\ lastDate' = IF rollover THEN lastDate + 1 ELSE lastDate
           /\ LogDrift(Drifted(date, rollover), now)
    /\ result' = GenerateMicroseconds(lastDate', micros')
    /\ Record(date)

Next ==
    \E date \in Clock :
        \/ NextFresh(date)
        \/ \E now \in Clock : NextHeld(date, now)

Spec == Init /\ [][Next]_vars

-----------------------------------------------------------------------------
\* The microseconds stay below a millisecond, and every field holds a value of its kind.
TypeOK ==
    /\ micros \in -1 .. MicrosPerMilli - 1
    /\ lastDate \in Nat
    /\ lastLogDate \in Nat
    /\ result \in Nat \cup {None}
    /\ maxReading \in Nat
    /\ calls \in 0 .. MaxCalls

\* Every timestamp next() returns is greater than all the ones before it,
\* whatever the clock does and on both sides of the switch from Number to Long.
StrictlyIncreasing == [][result' > result]_calls

\* Borrowed milliseconds are paid for: next() is ahead of the latest clock
\* reading it has ever seen by at most one millisecond per MicrosPerMilli calls.
BoundedAhead == (lastDate - maxReading) * MicrosPerMilli <= calls
=============================================================================
