--------------------------- MODULE TimeUuidProofs ---------------------------
(***************************************************************************)
(* Type correctness of the TimeUuid counters and the order of the values   *)
(* of now(), for every clock and every number of ticks in a millisecond.   *)
(***************************************************************************)
EXTENDS TimeUuid, TLAPS

\* getTicks() stays within a millisecond, whatever it is given.
LEMMA GetTicksInRange ==
    ASSUME ticks \in 0 .. TicksInMs - 1, NEW given \in Nat \cup {NotGiven}
    PROVE  /\ NextTicks \in 0 .. TicksInMs - 1
           /\ GetTicks(given) \in 0 .. TicksInMs - 1
  <1>1. NextTicks \in 0 .. TicksInMs - 1
    BY TimeUuidAssumption DEF NextTicks
  <1>2. CASE Generates(given)
    BY <1>1, <1>2 DEF GetTicks
  <1>3. CASE ~Generates(given)
    BY <1>1, <1>3, TimeUuidAssumption DEF GetTicks, Generates
  <1> QED
    BY <1>2, <1>3

\* The counters keep their ranges: ticks that do not fit into a millisecond never get
\* into a uuid.
THEOREM TypeCorrect == Spec => []TypeOK
  <1>1. Init => TypeOK
    BY TimeUuidAssumption DEF Init, TypeOK
  <1>2. ASSUME TypeOK, [Next]_vars
        PROVE  TypeOK'
    <2> USE <1>2, TimeUuidAssumption
    <2>1. ASSUME NEW time \in Clock, Now(time)
          PROVE  TypeOK'
      <3> DEFINE next == ticksForCurrentTime + 1
                 current == IF Restart(time, next) THEN 0 ELSE next
      <3>1. current \in 0 .. TicksInMs
        BY DEF TypeOK, Restart
      <3>2. /\ ticksForCurrentTime' = current
            /\ calls < MaxCalls /\ calls' = calls + 1
            /\ lastTimestamp' = IF Restart(time, next) THEN time ELSE lastTimestamp
            /\ AdvanceTicks(current)
            /\ last' = [time |-> time, ticks |-> GetTicks(current)]
            /\ burst' = IF time = last.time THEN burst + 1 ELSE 1
            /\ steady' = (steady /\ time >= last.time)
            /\ made' = made
        BY <2>1 DEF Now
      <3>3. GetTicks(current) \in 0 .. TicksInMs - 1 /\ NextTicks \in 0 .. TicksInMs - 1
        <4> HIDE DEF current
        <4>1. current \in Nat \cup {NotGiven}
          BY <3>1
        <4> QED
          BY <4>1, GetTicksInRange DEF TypeOK
      <3>4. ticks' \in 0 .. TicksInMs - 1 /\ draws' \in 0 .. calls'
        BY <3>2, <3>3 DEF TypeOK, AdvanceTicks
      <3>5. last' \in [time : Nat, ticks : 0 .. TicksInMs - 1]
        BY <3>2, <3>3 DEF TypeOK
      <3>6. burst' \in 0 .. calls' /\ calls' \in 0 .. MaxCalls /\ lastTimestamp' \in Nat
        BY <3>2 DEF TypeOK
      <3>7. steady' \in BOOLEAN
        BY <3>2 DEF TypeOK
      <3> QED
        BY <3>1, <3>2, <3>4, <3>5, <3>6, <3>7 DEF TypeOK
    <2>2. ASSUME NEW time \in Clock, NEW how \in Maker, NEW given \in GivenTicks \cup {NotGiven},
                 FromDate(how, time, given)
          PROVE  TypeOK'
      <3>1. GetTicks(given) \in 0 .. TicksInMs - 1 /\ NextTicks \in 0 .. TicksInMs - 1
        BY GetTicksInRange DEF TypeOK
      <3>2. ticks' \in 0 .. TicksInMs - 1 /\ draws' \in 0 .. calls'
        BY <2>2, <3>1 DEF TypeOK, FromDate, AdvanceTicks
      <3>3. [how |-> how, time |-> time, ticks |-> GetTicks(given),
             draw |-> IF Generates(given) THEN draws + 1 ELSE 0]
              \in [how : Maker, time : Clock, ticks : 0 .. TicksInMs - 1, draw : Nat]
        BY <3>1 DEF TypeOK
      <3>4. made' \in Seq([how : Maker, time : Clock, ticks : 0 .. TicksInMs - 1, draw : Nat])
        BY <2>2, <3>3 DEF TypeOK, FromDate
      <3> QED
        BY <2>2, <3>2, <3>4 DEF TypeOK, FromDate
    <2>3. CASE UNCHANGED vars
      BY <2>3 DEF TypeOK, vars, counters
    <2> QED
      BY <2>1, <2>2, <2>3 DEF Next
  <1> QED
    BY <1>1, <1>2, PTL DEF Spec

\* As long as the clock has been steady the counter of the current time belongs to the
\* last reading, and as long as the millisecond is not full it numbers the values made
\* in it.
Numbered ==
    steady =>
        /\ lastTimestamp = last.time
        /\ last.time # 0 /\ burst <= TicksInMs =>
              /\ burst >= 1
              /\ ticksForCurrentTime = burst - 1
              /\ last.ticks = burst - 1

\* Init establishes Numbered and every step keeps it.
LEMMA NumberedInvariant == Spec => []Numbered
  <1>1. Init => Numbered
    BY DEF Init, Numbered
  <1>2. ASSUME TypeOK, Numbered, [Next]_vars
        PROVE  Numbered'
    <2> USE <1>2, TimeUuidAssumption
    <2>1. ASSUME NEW time \in Clock, Now(time)
          PROVE  Numbered'
      <3> SUFFICES ASSUME steady'
                   PROVE  /\ lastTimestamp' = last'.time
                          /\ last'.time # 0 /\ burst' <= TicksInMs =>
                                /\ burst' >= 1
                                /\ ticksForCurrentTime' = burst' - 1
                                /\ last'.ticks = burst' - 1
        BY DEF Numbered
      <3>1. steady /\ time >= last.time /\ last'.time = time
        BY <2>1 DEF Now
      <3>2. lastTimestamp = last.time /\ last.time \in Nat /\ time \in Nat \ {0}
        BY <3>1 DEF Numbered, TypeOK
      <3>3. CASE time > last.time
        BY <2>1, <3>1, <3>2, <3>3 DEF Now, Restart, GetTicks, Generates, TypeOK
      <3>4. CASE time = last.time
        BY <2>1, <3>1, <3>2, <3>4 DEF Now, Restart, GetTicks, Generates, TypeOK, Numbered
      <3> QED
        BY <3>1, <3>2, <3>3, <3>4
    <2>2. ASSUME NEW time \in Clock, NEW how \in Maker, NEW given \in GivenTicks \cup {NotGiven},
                 FromDate(how, time, given)
          PROVE  Numbered'
      BY <2>2 DEF FromDate, Numbered
    <2>3. CASE UNCHANGED vars
      BY <2>3 DEF Numbered, vars, counters
    <2> QED
      BY <2>1, <2>2, <2>3 DEF Next
  <1> QED
    BY <1>1, <1>2, TypeCorrect, PTL DEF Spec

\* A later millisecond, or a later tick in the same one, is a greater value.
LEMMA LaterIsGreater ==
    ASSUME NEW t1 \in Nat, NEW t2 \in Nat, NEW k1 \in 0 .. TicksInMs - 1,
           NEW k2 \in 0 .. TicksInMs - 1,
           t2 > t1 \/ (t2 = t1 /\ k2 > k1)
    PROVE  t2 * TicksInMs + k2 > t1 * TicksInMs + k1
  <1> USE TimeUuidAssumption
  <1>1. CASE t2 = t1 /\ k2 > k1
    <2>1. t1 * TicksInMs \in Nat
      OBVIOUS
    <2> QED
      BY <1>1, <2>1
  <1>2. CASE t2 > t1
    <2>1. PICK d \in Nat : t2 = t1 + 1 + d
      <3>1. t2 - t1 - 1 \in Nat /\ t2 = t1 + 1 + (t2 - t1 - 1)
        BY <1>2
      <3> QED
        BY <3>1
    <2>2. t2 * TicksInMs = t1 * TicksInMs + TicksInMs + d * TicksInMs
      BY <2>1
    <2>3. d * TicksInMs \in Nat /\ t1 * TicksInMs \in Nat
      BY <2>1
    <2> QED
      BY <2>2, <2>3
  <1> QED
    BY <1>1, <1>2

\* The values of now() increase from call to call while the clock is steady and no
\* millisecond is asked for more than TicksInMs values.
THEOREM NowIsMonotonic == Spec => NowIncreases
  <1>1. ASSUME TypeOK, Numbered, [Next]_vars,
               ~UNCHANGED <<last, burst>>,
               steady', burst' <= TicksInMs, last.time # 0
        PROVE  Value(last') > Value(last)
    <2> USE <1>1, TimeUuidAssumption
    <2>1. PICK time \in Clock : Now(time)
      BY DEF Next, FromDate, vars, counters
    <2>2. /\ last'.time = time /\ steady /\ time >= last.time
          /\ time \in Nat /\ last.time \in Nat /\ last.ticks \in 0 .. TicksInMs - 1
          /\ lastTimestamp = last.time
      BY <2>1 DEF Now, TypeOK, Numbered
    <2>3. last'.ticks \in 0 .. TicksInMs - 1
      <3>1. (IF Restart(time, ticksForCurrentTime + 1) THEN 0 ELSE ticksForCurrentTime + 1) \in Nat
        BY DEF TypeOK
      <3> QED
        BY <2>1, <3>1, GetTicksInRange DEF Now, TypeOK
    <2>4. time > last.time \/ (time = last.time /\ last'.ticks > last.ticks)
      <3>1. CASE time = last.time
        <4>1. burst' = burst + 1 /\ burst \in Nat /\ burst < TicksInMs
          BY <2>1, <3>1 DEF Now, TypeOK
        <4>2. ticksForCurrentTime = burst - 1 /\ last.ticks = burst - 1
          BY <2>2, <4>1 DEF Numbered
        <4>3. ~Restart(time, ticksForCurrentTime + 1)
          BY <2>2, <3>1, <4>1, <4>2 DEF Restart
        <4>4. last'.ticks = GetTicks(ticksForCurrentTime + 1)
          BY <2>1, <4>3 DEF Now
        <4>5. ~Generates(ticksForCurrentTime + 1)
          BY <4>1, <4>2 DEF Generates
        <4> QED
          BY <3>1, <4>1, <4>2, <4>4, <4>5 DEF GetTicks
      <3> QED
        BY <2>2, <3>1
    <2> QED
      BY <2>2, <2>3, <2>4, LaterIsGreater DEF Value
  <1>2. TypeOK /\ Numbered /\ [Next]_vars =>
          [steady' /\ burst' <= TicksInMs /\ last.time # 0 => Value(last') > Value(last)]_<<last, burst>>
    BY <1>1
  <1> QED
    BY <1>2, TypeCorrect, NumberedInvariant, PTL DEF Spec, NowIncreases

-----------------------------------------------------------------------------
(* What a uuid tells.                                                      *)

\* A quotient and a remainder make up the number.
LEMMA Division ==
    ASSUME NEW n \in Nat, NEW d \in Nat \ {0}
    PROVE  n \div d \in Nat /\ n % d \in 0 .. d - 1 /\ n = d * (n \div d) + (n % d)
  OBVIOUS

\* One more in the quotient is at least the divisor more.
LEMMA Multiples ==
    ASSUME NEW d \in Nat \ {0}, NEW a \in Nat, NEW b \in Nat, a < b
    PROVE  d * a + d <= d * b
<1>1. PICK c \in Nat : b = a + 1 + c
  <2>1. b - a - 1 \in Nat /\ b = a + 1 + (b - a - 1)
    OBVIOUS
  <2> QED
    BY <2>1
<1>2. d * b = d * a + d + d * c /\ d * c \in Nat /\ d * a \in Nat
  BY <1>1
<1> QED
  BY <1>2

\* No other quotient and remainder do.
LEMMA Divided ==
    ASSUME NEW d \in Nat \ {0}, NEW q \in Nat, NEW r \in 0 .. d - 1
    PROVE  (d * q + r) \div d = q /\ (d * q + r) % d = r
<1> DEFINE n == d * q + r
           p == n \div d
           s == n % d
<1>1. n \in Nat
  OBVIOUS
<1>2. p \in Nat /\ s \in 0 .. d - 1 /\ n = d * p + s
  BY <1>1, Division
<1>3. d * p \in Nat /\ d * q \in Nat /\ d * p + s = d * q + r
  BY <1>2
<1> HIDE DEF n, p, s
<1>4. ~(p < q)
  BY <1>2, <1>3, Multiples
<1>5. ~(q < p)
  BY <1>2, <1>3, Multiples
<1>6. p = q
  BY <1>2, <1>4, <1>5
<1>7. s = r
  BY <1>2, <1>3, <1>6
<1> QED
  BY <1>6, <1>7 DEF n, p, s

\* A number below the product of two is below each in its two digits.
LEMMA DigitBound ==
    ASSUME NEW n \in Nat, NEW d \in Nat \ {0}, NEW e \in Nat \ {0}, n < d * e
    PROVE  n \div d < e
<1>1. n \div d \in Nat /\ n % d \in 0 .. d - 1 /\ n = d * (n \div d) + (n % d)
  BY Division
<1>2. d * (n \div d) \in Nat /\ d * e \in Nat
  BY <1>1
<1>3. ~(e < n \div d)
  BY <1>1, <1>2, Multiples
<1>4. n \div d # e
  BY <1>1, <1>2
<1> QED
  BY <1>1, <1>3, <1>4

\* writeTime() and getDatePrecision() are inverse to one another as long as the timestamp
\* field has room for the date.
LEMMA DecodesWhatWasWritten ==
    ASSUME NEW time \in Clock, NEW t \in 0 .. TicksInMs - 1
    PROVE  DatePrecision(WriteTime(time, t)) = [time |-> time, ticks |-> t]
<1> DEFINE L == 2^LowBits
           M == 2^MidBits
           H == 2^TopBits
           days == time + UnixToGregorian
           val == days * TicksInMs + t
           high == val \div L
           f == WriteTime(time, t)
<1>1. /\ L \in Nat \ {0} /\ M \in Nat \ {0} /\ H \in Nat \ {0} /\ TicksInMs \in Nat \ {0}
      /\ time \in Nat /\ days \in Nat /\ UnixToGregorian \in Nat
      /\ (days + 1) * TicksInMs <= L * (M * H)
  BY TimeUuidAssumption, LayoutAssumption
<1>2. /\ f.low = val % L /\ f.mid = high % M /\ f.hi = ((high \div M) % H) + H
      /\ DOMAIN f = {"low", "mid", "hi"}
      /\ f = [low |-> val % L, mid |-> high % M, hi |-> ((high \div M) % H) + H]
  BY DEF WriteTime
<1>3. /\ Fields(f).low = f.low /\ Fields(f).mid = f.mid /\ Fields(f).hi = f.hi % H
  BY <1>2 DEF Fields
<1>4. DatePrecision(f) =
        LET v == f.low + L * (f.mid + M * (f.hi % H))
        IN  [time |-> (v \div TicksInMs) - UnixToGregorian, ticks |-> v % TicksInMs]
  BY <1>3 DEF DatePrecision
<1>5. t \in Nat /\ t < TicksInMs
  BY <1>1
<1> HIDE DEF L, M, H, days, f
<1>6. val \in Nat /\ val < L * (M * H)
  <2>1. days * TicksInMs \in Nat /\ (days + 1) * TicksInMs = days * TicksInMs + TicksInMs
    BY <1>1
  <2> QED
    BY <1>1, <1>5, <2>1
<1> HIDE DEF val
<1>7. M * H \in Nat \ {0}
  BY <1>1
<1>8. high \in Nat /\ high < M * H /\ val = L * high + (val % L) /\ val % L \in 0 .. L - 1
  <2>1. val \div L < M * H
    BY <1>1, <1>6, <1>7, DigitBound
  <2> QED
    BY <1>1, <1>6, <2>1, Division
<1> HIDE DEF high
<1>9. /\ high \div M \in Nat /\ high \div M < H
      /\ high = M * (high \div M) + (high % M) /\ high % M \in 0 .. M - 1
  BY <1>1, <1>8, Division, DigitBound
<1>10. (high \div M) % H = high \div M /\ f.hi % H = high \div M
  <2> DEFINE q == high \div M
  <2>1. q \in 0 .. H - 1 /\ q = H * 0 + q /\ q + H = H * 1 + q
    BY <1>1, <1>9
  <2> HIDE DEF q
  <2>2. q % H = q /\ (q + H) % H = q
    BY <1>1, <2>1, Divided
  <2>3. f.hi = (q % H) + H
    BY <1>2 DEF q
  <2> QED
    BY <2>2, <2>3 DEF q
<1>11. f.low + L * (f.mid + M * (f.hi % H)) = val
  <2>1. f.mid + M * (f.hi % H) = high
    BY <1>1, <1>2, <1>9, <1>10
  <2> QED
    <3>1. f.low = val % L /\ val % L \in Nat /\ L * high \in Nat
      BY <1>1, <1>2, <1>8
    <3>2. f.low + L * (f.mid + M * (f.hi % H)) = (val % L) + L * high
      BY <2>1, <3>1
    <3> QED
      BY <1>8, <3>1, <3>2
<1>12. val \div TicksInMs = days /\ val % TicksInMs = t
  <2>1. val = TicksInMs * days + t
    BY <1>1 DEF val
  <2> QED
    BY <1>1, <2>1, Divided
<1>13. days - UnixToGregorian = time
  BY <1>1 DEF days
<1> QED
  BY <1>4, <1>11, <1>12, <1>13 DEF f

\* The values made have their parts.
LEMMA MadeHaveParts ==
    ASSUME TypeOK
    PROVE  /\ made \in Seq([how : Maker, time : Clock, ticks : 0 .. TicksInMs - 1, draw : Nat])
           /\ DOMAIN made = 1 .. Len(made) /\ Len(made) \in Nat
           /\ \A i \in DOMAIN made :
                 made[i].time \in Clock /\ made[i].ticks \in 0 .. TicksInMs - 1 /\ made[i].draw \in Nat
<1> DEFINE Uuids == [how : Maker, time : Clock, ticks : 0 .. TicksInMs - 1, draw : Nat]
<1>1. made \in Seq(Uuids)
  BY DEF TypeOK
<1>2. \A v \in Uuids : v.time \in Clock /\ v.ticks \in 0 .. TicksInMs - 1 /\ v.draw \in Nat
  OBVIOUS
<1> HIDE DEF Uuids
<1>3. \A i \in DOMAIN made : made[i] \in Uuids
  BY <1>1
<1>4. DOMAIN made = 1 .. Len(made) /\ Len(made) \in Nat
  BY <1>1
<1>5. made \in Seq([how : Maker, time : Clock, ticks : 0 .. TicksInMs - 1, draw : Nat])
  BY DEF TypeOK
<1> QED
  BY <1>2, <1>3, <1>4, <1>5

\* The values that drew their ticks from the shared counter, those of min() too
Counted == {i \in DOMAIN made : made[i].draw # 0}

\* The shared counter is the number of the draws so far, modulo its range; a value drawn from
\* it has the number of its draw, and the draws are numbered in the order of the values.
Drawn ==
    /\ ticks = draws % TicksInMs
    /\ \A i \in DOMAIN made :
          made[i].draw # 0 => made[i].draw <= draws /\ made[i].ticks = made[i].draw % TicksInMs
    /\ \A i, j \in Counted : i < j => made[i].draw < made[j].draw

\* Moving the counter is adding one to the number of draws.
LEMMA DrawMoves ==
    ASSUME TypeOK, ticks = draws % TicksInMs
    PROVE  NextTicks = (draws + 1) % TicksInMs
<1> USE TimeUuidAssumption
<1> DEFINE q == draws \div TicksInMs
<1>1. draws \in Nat /\ ticks \in 0 .. TicksInMs - 1
  BY DEF TypeOK
<1>2. q \in Nat /\ draws = TicksInMs * q + ticks
  BY <1>1, Division
<1> HIDE DEF q
<1>5. TicksInMs * q \in Nat
  BY <1>2
<1>3. CASE ticks + 1 < TicksInMs
  <2>1. draws + 1 = TicksInMs * q + (ticks + 1) /\ ticks + 1 \in 0 .. TicksInMs - 1
    BY <1>1, <1>2, <1>3, <1>5
  <2> QED
    <3>1. (TicksInMs * q + (ticks + 1)) % TicksInMs = ticks + 1
      BY <1>2, <2>1, Divided
    <3>2. NextTicks = ticks + 1
      BY <1>1, <1>3 DEF NextTicks
    <3> QED
      BY <2>1, <3>1, <3>2
<1>4. CASE ~(ticks + 1 < TicksInMs)
  <2>1. draws + 1 = TicksInMs * (q + 1) + 0 /\ q + 1 \in Nat /\ 0 \in 0 .. TicksInMs - 1
    BY <1>1, <1>2, <1>4
  <2> QED
    BY <1>1, <1>4, <2>1, Divided DEF NextTicks
<1> QED
  BY <1>3, <1>4

\* Init establishes Drawn and every step keeps it.
LEMMA DrawnInvariant == Spec => []Drawn
<1>1. Init => Drawn
  <2>1. 0 % TicksInMs = 0
    BY TimeUuidAssumption
  <2> QED
    BY <2>1 DEF Init, Drawn, Counted
<1>2. ASSUME TypeOK, Drawn, [Next]_vars
      PROVE  Drawn'
  <2> USE <1>2, TimeUuidAssumption
  <2>1. ASSUME NEW given, AdvanceTicks(given)
        PROVE  ticks' = draws' % TicksInMs /\ draws' >= draws /\ draws' \in Nat
    BY <2>1, DrawMoves DEF AdvanceTicks, Drawn, TypeOK
  <2>2. ASSUME NEW time \in Clock, Now(time)
        PROVE  Drawn'
    <3>1. made' = made /\ \E current : AdvanceTicks(current)
      BY <2>2 DEF Now
    <3>2. ticks' = draws' % TicksInMs /\ draws' >= draws /\ draws' \in Nat
      BY <2>1, <3>1
    <3>3. \A i \in DOMAIN made : made[i].draw \in Nat /\ draws \in Nat
      BY MadeHaveParts DEF TypeOK
    <3>4. \A i \in DOMAIN made : made[i].draw # 0 => made[i].draw <= draws'
      BY <3>2, <3>3 DEF Drawn
    <3> QED
      BY <3>1, <3>2, <3>4 DEF Drawn, Counted
  <2>3. ASSUME NEW time \in Clock, NEW how \in Maker, NEW given \in GivenTicks \cup {NotGiven},
               FromDate(how, time, given)
        PROVE  Drawn'
    <3> DEFINE v == [how |-> how, time |-> time, ticks |-> GetTicks(given),
                     draw |-> IF Generates(given) THEN draws + 1 ELSE 0]
    <3>1. made' = Append(made, v) /\ AdvanceTicks(given) /\ draws \in Nat
      BY <2>3 DEF FromDate, TypeOK
    <3>2. ticks' = draws' % TicksInMs /\ draws' >= draws /\ draws' \in Nat
      BY <2>1, <3>1
    <3>3. v.draw # 0 => v.draw = draws' /\ v.draw > draws /\ v.ticks = v.draw % TicksInMs
      BY <3>1, DrawMoves DEF GetTicks, AdvanceTicks, Drawn
    <3> HIDE DEF v
    <3>4. /\ DOMAIN made' = 1 .. Len(made) + 1 /\ DOMAIN made = 1 .. Len(made) /\ Len(made) \in Nat
          /\ \A i \in DOMAIN made : made'[i] = made[i]
          /\ made'[Len(made) + 1] = v
      BY <3>1 DEF TypeOK
    <3>5. \A i \in DOMAIN made : made[i].draw \in Nat
      BY MadeHaveParts
    <3>6. \A i \in DOMAIN made' :
             made'[i].draw # 0 => made'[i].draw <= draws' /\ made'[i].ticks = made'[i].draw % TicksInMs
      <4> SUFFICES ASSUME NEW i \in DOMAIN made', made'[i].draw # 0
                   PROVE  made'[i].draw <= draws' /\ made'[i].ticks = made'[i].draw % TicksInMs
        OBVIOUS
      <4>1. CASE i \in DOMAIN made
        BY <3>1, <3>2, <3>4, <3>5, <4>1 DEF Drawn
      <4>2. CASE i = Len(made) + 1
        BY <3>2, <3>3, <3>4, <4>2
      <4> QED
        BY <3>4, <4>1, <4>2
    <3>7. ASSUME NEW i \in Counted', NEW j \in Counted', i < j
          PROVE  made'[i].draw < made'[j].draw
      <4>1. i \in DOMAIN made /\ i \in Counted
        BY <3>4, <3>7 DEF Counted
      <4>2. made[i].draw <= draws /\ made'[i].draw = made[i].draw
        BY <3>4, <4>1 DEF Drawn, Counted
      <4>3. CASE j \in DOMAIN made
        BY <3>4, <3>7, <4>1, <4>3 DEF Drawn, Counted
      <4>4. CASE j = Len(made) + 1
        <5>1. v.draw # 0 /\ made'[j] = v
          BY <3>4, <3>7, <4>4 DEF Counted
        <5> QED
          BY <3>1, <3>2, <3>3, <3>5, <4>1, <4>2, <5>1
      <4> QED
        BY <3>4, <3>7, <4>3, <4>4 DEF Counted
    <3> QED
      BY <3>2, <3>6, <3>7 DEF Drawn
  <2>4. CASE UNCHANGED vars
    BY <2>4 DEF Drawn, Counted, vars, counters
  <2> QED
    BY <2>2, <2>3, <2>4 DEF Next
<1> QED
  BY <1>1, <1>2, TypeCorrect, PTL DEF Spec

\* Numbers that are less than the divisor apart leave different remainders.
LEMMA NearNumbersDiffer ==
    ASSUME NEW d \in Nat \ {0}, NEW a \in Nat, NEW b \in Nat, a < b, b - a < d
    PROVE  a % d # b % d
<1> DEFINE p == a \div d
           q == b \div d
<1>1. /\ p \in Nat /\ a % d \in 0 .. d - 1 /\ a = d * p + (a % d)
      /\ q \in Nat /\ b % d \in 0 .. d - 1 /\ b = d * q + (b % d)
  BY Division
<1> HIDE DEF p, q
<1>6. d * p \in Nat /\ d * q \in Nat
  BY <1>1
<1> SUFFICES ASSUME a % d = b % d PROVE FALSE
  OBVIOUS
<1>2. d * p < d * q /\ d * q < d * p + d
  BY <1>1, <1>6
<1>3. p # q
  BY <1>1, <1>2
<1>4. ~(p < q)
  BY <1>1, <1>2, <1>6, Multiples
<1>5. ~(q < p)
  BY <1>1, <1>2, <1>6, Multiples
<1> QED
  BY <1>1, <1>3, <1>4, <1>5

\* The date and the ticks of a uuid are read back as they were given to fromDate() and min(),
\* and the values of fromDate() without ticks, which drew them from the shared counter, differ
\* until it has gone once round its range.
THEOREM UuidsAreTold == Spec => []UuidsTold
<1>1. ASSUME TypeOK, Drawn
      PROVE  UuidsTold
  <2> USE <1>1
  <2>1. DecodesBack
    BY DecodesWhatWasWritten, MadeHaveParts DEF DecodesBack
  <2>2. ASSUME NEW i \in Generated, NEW j \in Generated, i < j, made[j].draw - made[i].draw < TicksInMs
        PROVE  made[i].ticks # made[j].ticks
    <3>1. /\ made[i].draw \in Nat /\ made[j].draw \in Nat
          /\ i \in DOMAIN made /\ j \in DOMAIN made /\ made[i].draw # 0 /\ made[j].draw # 0
      BY MadeHaveParts DEF Generated
    <3>2. made[i].draw < made[j].draw
      BY <2>2, <3>1 DEF Drawn, Counted
    <3>3. made[i].ticks = made[i].draw % TicksInMs /\ made[j].ticks = made[j].draw % TicksInMs
      BY <3>1 DEF Drawn
    <3>4. TicksInMs \in Nat \ {0}
      BY TimeUuidAssumption
    <3> QED
      BY <2>2, <3>1, <3>2, <3>3, <3>4, NearNumbersDiffer
  <2> QED
    BY <2>1, <2>2 DEF UuidsTold, GeneratedDiffer
<1> QED
  BY <1>1, TypeCorrect, DrawnInvariant, PTL
=============================================================================
