--------------------------- MODULE PoliciesProofs ---------------------------
(***************************************************************************)
(* Of the policies, for every value of their options: timestamps are       *)
(* strictly increasing and never run away from the clock, failing requests *)
(* come to an end and reconnections back off, and the options of a client  *)
(* that was accepted serve its requests.                                   *)
(***************************************************************************)
EXTENDS TimestampGenerator, RequestPolicies, ClientOptions, WellFoundedInduction, TLAPS

-----------------------------------------------------------------------------
(* Timestamps.                                                             *)

\* What result says about the other variables: after the first call it is the
\* exact value of the date and the microsecond counter.
ResultIsExact ==
    \/ result = None /\ micros = -1 /\ lastDate = 0
    \/ micros >= 0 /\ result = lastDate * MicrosPerMilli + micros

\* BoundedAhead with the microseconds already used up counted in: a borrowed
\* millisecond is paid for by MicrosPerMilli calls, most of them still in micros.
AheadIsPaid ==
    (lastDate - maxReading) * MicrosPerMilli + micros + 1 <= calls

IInv == TypeOK /\ ResultIsExact /\ AheadIsPaid

\* Multiplication by the scale respects the order.
LEMMA ScaleMonotone ==
    ASSUME NEW a \in Int, NEW b \in Int, a <= b
    PROVE  a * MicrosPerMilli <= b * MicrosPerMilli
  BY ScaleAssumption

\* Distributing the scale over a borrowed millisecond.
LEMMA ScaleSucc ==
    ASSUME NEW a \in Int
    PROVE  /\ a * MicrosPerMilli \in Int
           /\ (a + 1) * MicrosPerMilli = a * MicrosPerMilli + MicrosPerMilli
  BY ScaleAssumption

\* A date in microseconds is a natural number.
LEMMA ScaleNat ==
    ASSUME NEW a \in Nat
    PROVE  a * MicrosPerMilli \in Nat
  BY ScaleAssumption

\* _generateMicroseconds() loses nothing: below _maxSafeNumberDate the Number
\* arithmetic stays within the exact integers, above it Long is used.
LEMMA GenerateIsExact ==
    ASSUME NEW d \in Nat, NEW u \in 0 .. MicrosPerMilli - 1
    PROVE  GenerateMicroseconds(d, u) = d * MicrosPerMilli + u
  <1>1. CASE d < MaxSafeNumberDate
    <2>1. d + 1 <= MaxSafeNumberDate
      BY <1>1, ScaleAssumption
    <2>2. (d + 1) * MicrosPerMilli <= MaxSafeNumberDate * MicrosPerMilli
      BY <2>1, ScaleMonotone, ScaleAssumption
    <2>3. d * MicrosPerMilli + MicrosPerMilli <= MaxNumber
      BY <2>2, ScaleSucc, ScaleAssumption
    <2>4. d * MicrosPerMilli + u <= MaxNumber
      BY <2>3, ScaleSucc, ScaleAssumption
    <2> QED
      BY <2>4, <1>1 DEF GenerateMicroseconds, Number
  <1>2. CASE ~(d < MaxSafeNumberDate)
    BY <1>2 DEF GenerateMicroseconds
  <1> QED
    BY <1>1, <1>2

\* A generator that was just made satisfies the invariant.
LEMMA InitInv == Init => IInv
  <1> SUFFICES ASSUME Init PROVE IInv
    OBVIOUS
  <1>1. TypeOK
    BY ScaleAssumption, LimitsAssumption DEF Init, TypeOK
  <1>2. ResultIsExact
    BY DEF Init, ResultIsExact
  <1>3. AheadIsPaid
    <2>1. 0 * MicrosPerMilli = 0
      BY ScaleAssumption
    <2> QED
      BY <2>1 DEF Init, AheadIsPaid
  <1> QED
    BY <1>1, <1>2, <1>3 DEF IInv

\* A call on a clock that moved on keeps the invariant and returns a greater
\* timestamp than the one before.
LEMMA FreshStep ==
    ASSUME IInv, NEW date \in Clock, NextFresh(date)
    PROVE  IInv' /\ result' > result
  <1>1. date \in Nat /\ lastDate \in Nat /\ maxReading \in Nat /\ calls \in Nat
    BY ClockAssumption DEF IInv, TypeOK
  <1>2. result' = date * MicrosPerMilli + 0
    <2>1. 0 \in 0 .. MicrosPerMilli - 1
      BY ScaleAssumption
    <2> QED
      BY <1>1, <2>1, GenerateIsExact DEF NextFresh
  <1>3. date * MicrosPerMilli \in Nat
    BY <1>1, ScaleAssumption
  <1>4. TypeOK'
    BY <1>1, <1>2, <1>3, ScaleAssumption, LimitsAssumption
    DEF IInv, TypeOK, NextFresh, Record
  <1>5. ResultIsExact'
    BY <1>2 DEF NextFresh, ResultIsExact
  <1>6. AheadIsPaid'
    <2>1. lastDate' - maxReading' <= 0 /\ lastDate' - maxReading' \in Int
      BY <1>1 DEF NextFresh, Record
    <2>2. (lastDate' - maxReading') * MicrosPerMilli <= 0 * MicrosPerMilli
      BY <2>1, ScaleMonotone
    <2>3. (lastDate' - maxReading') * MicrosPerMilli \in Int
      BY <2>1, ScaleAssumption
    <2>4. 0 * MicrosPerMilli = 0
      BY ScaleAssumption
    <2>5. micros' = 0 /\ calls' = calls + 1
      BY DEF NextFresh, Record
    <2> QED
      BY <2>2, <2>3, <2>4, <2>5, <1>1 DEF AheadIsPaid
  <1>7. result' > result
    <2>1. CASE result = None
      BY <2>1, <1>2, <1>3 DEF None
    <2>2. CASE micros >= 0 /\ result = lastDate * MicrosPerMilli + micros
      <3>1. lastDate + 1 <= date
        BY <1>1 DEF NextFresh
      <3>2. (lastDate + 1) * MicrosPerMilli <= date * MicrosPerMilli
        BY <3>1, <1>1, ScaleMonotone
      <3>3. lastDate * MicrosPerMilli + MicrosPerMilli <= date * MicrosPerMilli
        BY <3>2, <1>1, ScaleSucc
      <3>4. micros < MicrosPerMilli /\ micros \in Int
        BY ScaleAssumption DEF IInv, TypeOK
      <3>5. lastDate * MicrosPerMilli \in Int
        BY <1>1, ScaleSucc
      <3> QED
        BY <2>2, <1>2, <1>3, <3>3, <3>4, <3>5, ScaleAssumption
    <2> QED
      BY <2>1, <2>2 DEF IInv, ResultIsExact
  <1> QED
    BY <1>4, <1>5, <1>6, <1>7 DEF IInv

\* A call on a clock that stands still or went backwards does too.
LEMMA HeldStep ==
    ASSUME IInv, NEW date \in Clock, NEW now \in Clock, NextHeld(date, now)
    PROVE  IInv' /\ result' > result
  <1>1. /\ date \in Nat /\ now \in Nat /\ lastDate \in Nat
        /\ maxReading \in Nat /\ calls \in Nat
        /\ micros \in Int /\ micros >= -1 /\ micros < MicrosPerMilli
    BY ClockAssumption, ScaleAssumption DEF IInv, TypeOK
  <1>2. micros' \in 0 .. MicrosPerMilli - 1 /\ lastDate' \in Nat
    BY <1>1, ScaleAssumption DEF NextHeld
  <1>3. result' = lastDate' * MicrosPerMilli + micros'
    BY <1>2, GenerateIsExact DEF NextHeld
  <1>a. micros' \in Nat
    BY <1>2, ScaleAssumption
  <1>4. lastDate' * MicrosPerMilli \in Nat /\ lastDate * MicrosPerMilli \in Nat
    BY <1>1, <1>2, ScaleNat
  \* The new pair of date and counter is worth exactly one microsecond more.
  <1>5. lastDate' * MicrosPerMilli + micros'
            = lastDate * MicrosPerMilli + micros + 1
    <2>1. CASE micros + 1 = MicrosPerMilli
      <3>1. lastDate' = lastDate + 1 /\ micros' = 0
        BY <2>1 DEF NextHeld
      <3>2. (lastDate + 1) * MicrosPerMilli
                = lastDate * MicrosPerMilli + MicrosPerMilli
        BY <1>1, ScaleSucc
      <3> QED
        BY <3>1, <3>2, <2>1, <1>1, <1>4, ScaleAssumption
    <2>2. CASE micros + 1 # MicrosPerMilli
      <3>1. lastDate' = lastDate /\ micros' = micros + 1
        BY <2>2 DEF NextHeld
      <3> QED
        BY <3>1, <1>1, <1>4
    <2> QED
      BY <2>1, <2>2
  <1>6. TypeOK'
    <2>1. result' \in Nat
      BY <1>a, <1>3, <1>4
    <2>2. lastLogDate' \in Nat
      BY <1>1 DEF NextHeld, LogDrift, IInv, TypeOK
    <2>3. maxReading' \in Nat /\ calls' \in 0 .. MaxCalls
      BY <1>1, LimitsAssumption DEF NextHeld, Record, IInv, TypeOK
    <2> QED
      BY <1>2, <2>1, <2>2, <2>3, ScaleAssumption DEF TypeOK
  <1>7. ResultIsExact'
    BY <1>2, <1>3, ScaleAssumption DEF ResultIsExact
  <1>8. AheadIsPaid'
    <2>1. maxReading' >= maxReading /\ maxReading' \in Nat /\ calls' = calls + 1
      BY <1>1 DEF NextHeld, Record
    <2>2. (lastDate' - maxReading') * MicrosPerMilli
              <= (lastDate' - maxReading) * MicrosPerMilli
      BY <2>1, <1>1, <1>2, ScaleMonotone
    <2>3. (lastDate' - maxReading) * MicrosPerMilli + micros'
              = (lastDate - maxReading) * MicrosPerMilli + micros + 1
      <3>1. /\ (lastDate' - maxReading) * MicrosPerMilli
                   = lastDate' * MicrosPerMilli - maxReading * MicrosPerMilli
            /\ (lastDate - maxReading) * MicrosPerMilli
                   = lastDate * MicrosPerMilli - maxReading * MicrosPerMilli
        BY <1>1, <1>2, ScaleAssumption
      <3>2. maxReading * MicrosPerMilli \in Int
        BY <1>1, ScaleNat
      <3>3. micros \in Int
        BY <1>1
      <3> QED
        BY <3>1, <3>2, <3>3, <1>a, <1>4, <1>5
    <2>4. /\ (lastDate' - maxReading') * MicrosPerMilli \in Int
          /\ (lastDate' - maxReading) * MicrosPerMilli \in Int
          /\ (lastDate - maxReading) * MicrosPerMilli \in Int
      BY <2>1, <1>1, <1>2, ScaleAssumption
    <2>5. (lastDate - maxReading) * MicrosPerMilli + micros + 1 <= calls
      BY DEF IInv, AheadIsPaid
    <2> QED
      BY <2>1, <2>2, <2>3, <2>4, <2>5, <1>a, <1>1 DEF AheadIsPaid
  <1>9. result' > result
    <2>1. CASE result = None
      <3>1. result' \in Nat
        BY <1>a, <1>3, <1>4
      <3> QED
        BY <2>1, <3>1 DEF None
    <2>2. CASE micros >= 0 /\ result = lastDate * MicrosPerMilli + micros
      BY <2>2, <1>1, <1>3, <1>4, <1>5
    <2> QED
      BY <2>1, <2>2 DEF IInv, ResultIsExact
  <1> QED
    BY <1>6, <1>7, <1>8, <1>9 DEF IInv

\* Every call, and every step that leaves the generator alone.
LEMMA NextInv ==
    IInv /\ [Next]_vars => IInv' /\ (result' > result \/ UNCHANGED calls)
  <1> SUFFICES ASSUME IInv, [Next]_vars
               PROVE  IInv' /\ (result' > result \/ UNCHANGED calls)
    OBVIOUS
  <1>1. ASSUME NEW date \in Clock, NextFresh(date)
        PROVE  IInv' /\ result' > result
    BY <1>1, FreshStep
  <1>2. ASSUME NEW date \in Clock, NEW now \in Clock, NextHeld(date, now)
        PROVE  IInv' /\ result' > result
    BY <1>2, HeldStep
  <1>3. CASE UNCHANGED vars
    BY <1>3 DEF vars, IInv, TypeOK, ResultIsExact, AheadIsPaid
  <1> QED
    BY <1>1, <1>2, <1>3 DEF Next

\* The counters stay in range and the result is always the exact value.
THEOREM TypeCorrect == Spec => []TypeOK
  <1>1. IInv => TypeOK
    BY DEF IInv
  <1> QED
    BY <1>1, InitInv, NextInv, PTL DEF Spec

\* No call of next() ever returns a timestamp that is not greater than all the
\* earlier ones.
THEOREM Monotonicity == Spec => StrictlyIncreasing
  <1>1. IInv /\ [Next]_vars => [result' > result]_calls
    BY NextInv
  <1> QED
    BY <1>1, InitInv, NextInv, PTL DEF Spec, StrictlyIncreasing

\* The generator's lead over the clock is bounded by the calls made.
THEOREM LeadIsBounded == Spec => []BoundedAhead
  <1>1. IInv => BoundedAhead
    <2> SUFFICES ASSUME IInv PROVE BoundedAhead
      OBVIOUS
    <2>1. /\ micros \in Int /\ micros + 1 >= 0 /\ calls \in Int
          /\ lastDate - maxReading \in Int
      BY ScaleAssumption DEF IInv, TypeOK
    <2>2. (lastDate - maxReading) * MicrosPerMilli \in Int
      BY <2>1, ScaleSucc
    <2> QED
      BY <2>1, <2>2 DEF IInv, AheadIsPaid, BoundedAhead
  <1> QED
    BY <1>1, InitInv, NextInv, PTL DEF Spec

-----------------------------------------------------------------------------
(* Powers of two.                                                          *)

\* Induction over the natural numbers, for a set of them.
LEMMA SetInduction ==
    ASSUME NEW S, 0 \in S, \A n \in Nat : n \in S => n + 1 \in S
    PROVE  Nat \subseteq S
<1> DEFINE R == OpToRel(<, Nat)
           T == Nat \ S
<1>1. \A x, y : x \in Nat /\ y \in Nat /\ x < y => <<x, y>> \in R
  BY DEF OpToRel
<1>2. IsWellFoundedOn(R, Nat)
  BY NatLessThanWellFounded
<1> HIDE DEF R
<1> SUFFICES ASSUME T # {} PROVE FALSE
  OBVIOUS
<1>3. T \subseteq Nat
  OBVIOUS
<1> HIDE DEF T
<1>4. PICK x \in T : \A y \in T : ~(<<y, x>> \in R)
  BY <1>2, <1>3, WFMin
<1> USE DEF T
<1>5. x # 0 /\ x \in Nat /\ x \notin S
  OBVIOUS
<1>6. x - 1 \in Nat /\ x - 1 < x /\ (x - 1) + 1 = x
  BY <1>5
<1>7. x - 1 \notin T
  BY <1>1, <1>4, <1>5, <1>6
<1> QED
  BY <1>5, <1>6, <1>7

\* A set of numbers up to n has a greatest one.
LEMMA GreatestMember ==
    ASSUME NEW n \in Nat, NEW T \in SUBSET (0 .. n), T # {}
    PROVE  \E x \in T : \A y \in T : y <= x
<1> DEFINE S == {k \in Nat : \A U \in SUBSET (0 .. k) : U # {} => \E x \in U : \A y \in U : y <= x}
<1>1. 0 \in S
  <2>1. \A y \in 0 .. 0 : y = 0 /\ y <= 0
    OBVIOUS
  <2> QED
    BY <2>1
<1>2. ASSUME NEW k \in Nat, k \in S
      PROVE  k + 1 \in S
  <2> SUFFICES ASSUME NEW U \in SUBSET (0 .. k + 1), U # {}
               PROVE  \E x \in U : \A y \in U : y <= x
    OBVIOUS
  <2>1. CASE k + 1 \in U
    BY <2>1
  <2>2. CASE k + 1 \notin U
    <3>1. U \in SUBSET (0 .. k)
      BY <2>2
    <3> QED
      BY <1>2, <3>1
  <2> QED
    BY <2>1, <2>2
<1> HIDE DEF S
<1>3. n \in S
  BY <1>1, <1>2, SetInduction
<1> QED
  BY <1>3 DEF S

\* The functions that double from 0 up to n.
Powers(n) == {g \in [0 .. n -> Nat \ {0}] : g[0] = 1 /\ \A i \in 1 .. n : g[i] = 2 * g[i - 1]}

\* There is one for every n.
LEMMA PowersMade == \A n \in Nat : Powers(n) # {}
<1> DEFINE S == {n \in Nat : Powers(n) # {}}
<1>1. 0 \in S
  <2>1. [i \in 0 .. 0 |-> 1] \in Powers(0)
    BY DEF Powers
  <2> QED
    BY <2>1
<1>2. ASSUME NEW n \in Nat, n \in S
      PROVE  n + 1 \in S
  <2>1. PICK g : g \in Powers(n)
    BY <1>2
  <2> DEFINE h == [i \in 0 .. n + 1 |-> IF i = n + 1 THEN 2 * g[n] ELSE g[i]]
  <2>2. g \in [0 .. n -> Nat \ {0}] /\ g[0] = 1 /\ \A i \in 1 .. n : g[i] = 2 * g[i - 1]
    BY <2>1 DEF Powers
  <2>3. g[n] \in Nat \ {0} /\ 2 * g[n] \in Nat \ {0}
    BY <2>2
  <2>4. h \in [0 .. n + 1 -> Nat \ {0}] /\ h[0] = 1
    BY <2>2, <2>3
  <2>5. ASSUME NEW i \in 1 .. n + 1
        PROVE  h[i] = 2 * h[i - 1]
    <3>1. CASE i = n + 1
      BY <3>1
    <3>2. CASE i # n + 1
      BY <2>2, <3>2
    <3> QED
      BY <3>1, <3>2
  <2>6. h \in Powers(n + 1)
    BY <2>4, <2>5 DEF Powers
  <2> QED
    BY <2>6
<1> HIDE DEF S
<1>3. Nat \subseteq S
  BY <1>1, <1>2, SetInduction
<1> QED
  BY <1>3 DEF S

\* They agree where they are both defined.
LEMMA PowersAgree ==
    ASSUME NEW m \in Nat, NEW n \in Nat, NEW g \in Powers(m), NEW h \in Powers(n)
    PROVE  \A i \in Nat : i <= m /\ i <= n => g[i] = h[i]
<1> DEFINE S == {i \in Nat : i <= m /\ i <= n => g[i] = h[i]}
<1>1. 0 \in S
  BY DEF Powers
<1>2. ASSUME NEW i \in Nat, i \in S
      PROVE  i + 1 \in S
  <2> SUFFICES ASSUME i + 1 <= m, i + 1 <= n PROVE g[i + 1] = h[i + 1]
    OBVIOUS
  <2>1. g[i] = h[i]
    BY <1>2
  <2>2. i + 1 \in 1 .. m /\ i + 1 \in 1 .. n /\ (i + 1) - 1 = i
    OBVIOUS
  <2> QED
    BY <2>1, <2>2 DEF Powers
<1> HIDE DEF S
<1>3. Nat \subseteq S
  BY <1>1, <1>2, SetInduction
<1> QED
  BY <1>3 DEF S

\* PowerOf2 is what its recursive definition says: it doubles at each step.
LEMMA PowerDoubles ==
    /\ PowerOf2[0] = 1
    /\ \A n \in Nat : PowerOf2[n] \in Nat \ {0} /\ PowerOf2[n + 1] = 2 * PowerOf2[n]
<1> DEFINE first == [n \in Nat |-> CHOOSE g : g \in Powers(n)]
           f == [n \in Nat |-> first[n][n]]
<1>1. \A n \in Nat : first[n] \in Powers(n)
  BY PowersMade
<1> HIDE DEF first
<1>2. ASSUME NEW n \in Nat
      PROVE  f[n] = IF n = 0 THEN 1 ELSE 2 * f[n - 1]
  <2>1. CASE n = 0
    BY <1>1, <2>1 DEF Powers
  <2>2. CASE n # 0
    <3>1. n - 1 \in Nat /\ n \in 1 .. n /\ n - 1 <= n
      BY <2>2
    <3>2. first[n][n] = 2 * first[n][n - 1]
      BY <1>1, <3>1 DEF Powers
    <3>3. first[n][n - 1] = first[n - 1][n - 1]
      BY <1>1, <3>1, PowersAgree
    <3> QED
      BY <2>2, <3>1, <3>2, <3>3
  <2> QED
    BY <2>1, <2>2
<1>3. \A n \in Nat : f[n] \in Nat \ {0}
  BY <1>1 DEF Powers
<1>4. f = [n \in Nat |-> f[n]]
  OBVIOUS
<1> HIDE DEF f
<1>5. f = [n \in Nat |-> IF n = 0 THEN 1 ELSE 2 * f[n - 1]]
  BY <1>2, <1>4, Zenon
<1>6. PowerOf2 = [n \in Nat |-> IF n = 0 THEN 1 ELSE 2 * PowerOf2[n - 1]]
  BY <1>5 DEF PowerOf2
<1>7. \A n \in Nat : PowerOf2[n] = IF n = 0 THEN 1 ELSE 2 * PowerOf2[n - 1]
  BY <1>6
<1> DEFINE S == {n \in Nat : PowerOf2[n] \in Nat \ {0}}
<1>8. 0 \in S
  BY <1>7
<1>9. \A n \in Nat : PowerOf2[n + 1] = 2 * PowerOf2[n]
  BY <1>7
<1>10. ASSUME NEW n \in Nat, n \in S PROVE n + 1 \in S
  BY <1>9, <1>10
<1> HIDE DEF S
<1>11. Nat \subseteq S
  BY <1>8, <1>10, SetInduction
<1> QED
  BY <1>7, <1>9, <1>11 DEF S

-----------------------------------------------------------------------------
(* Requests and reconnections that fail.                                   *)

\* A request has had one host more than it moved on, and one retry at most for each of them;
\* no more executions were started than the plan was asked for.
RequestInStep ==
    /\ host \in 1 .. PlanHosts
    /\ nbRetry \in 0 .. host
    /\ executions \in Nat /\ speculated \in Nat
    /\ speculated <= executions /\ speculated <= SpeculativeMax

\* The last delay was made of the exponent before the present one.
DelayInStep ==
    /\ startWithNoDelay \in BOOLEAN /\ attempts \in Nat /\ before \in Nat /\ delay \in Nat
    /\ exponent = IF startWithNoDelay THEN attempts - 1 ELSE attempts
    /\ attempts > 0 => delay \in Jittered(Pure)

FailureInv == RequestInStep /\ DelayInStep /\ BacksOff

\* Every step of a request keeps it within its plan.
LEMMA RequestKeeps ==
    ASSUME RequestInStep, RequestNext
    PROVE  RequestInStep'
<1> USE PersistenceAssumption
<1>1. ASSUME NEW failure \in Failures, RequestFails(failure)
      PROVE  RequestInStep'
  <2> DEFINE d == Decision(failure)
             next == IF d.useCurrentHost THEN host ELSE host + 1
  <2>1. d.decision = "retry" /\ d.useCurrentHost => nbRetry = 0
    BY DEF Decision, RetryDecision, FallthroughDecision, Rethrow, Retry, RequestInStep
  <2>2. d.decision \in {"rethrow", "retry"} /\ d.useCurrentHost \in BOOLEAN
    BY DEF Decision, RetryDecision, FallthroughDecision, Rethrow, Retry
  <2>3. /\ executions' = executions /\ speculated' = speculated
        /\ \/ host' = host /\ nbRetry' = nbRetry
           \/ d.decision # "rethrow" /\ next <= PlanHosts /\ host' = next /\ nbRetry' = nbRetry + 1
    BY <1>1 DEF RequestFails, RequestInStep
  <2> HIDE DEF d
  <2> QED
    BY <2>1, <2>2, <2>3 DEF RequestInStep
<1>2. CASE RequestSucceeds
  BY <1>2 DEF RequestSucceeds, RequestInStep
<1>3. CASE Speculate
  BY <1>3 DEF Speculate, SpeculativeDelay, RequestInStep
<1> QED
  BY <1>1, <1>2, <1>3 DEF RequestNext

\* A delay with its jitter is within 15 % of the delay, not below it where it is the first
\* and not above it where it is the greatest and not the first.
LEMMA JitterIsSmall ==
    ASSUME NEW v \in Nat, NEW x \in Jittered(v)
    PROVE  /\ x \in Nat /\ 100 * x <= 115 * v /\ 100 * (x + 1) > 85 * v
           /\ IsFirst(v) => x >= v
           /\ v = MaxDelay /\ ~IsFirst(v) => x <= v
           /\ \A w \in Nat : 85 * v >= 100 * w => x >= w
<1> DEFINE l == LeastPercent(v)
           g == GreatestPercent(v)
<1>1. /\ l \in {85, 100} /\ g \in {100, 115}
      /\ IsFirst(v) => l = 100
      /\ v = MaxDelay /\ ~IsFirst(v) => g = 100
  BY DEF LeastPercent, GreatestPercent
<1>2. x \in (v * l) \div 100 .. (v * g) \div 100
  BY DEF Jittered
<1> HIDE DEF l, g
<1>3. l = 85 => v * l = 85 * v
  OBVIOUS
<1>4. l = 100 => v * l = 100 * v
  OBVIOUS
<1>5. g = 100 => v * g = 100 * v
  OBVIOUS
<1>6. g = 115 => v * g = 115 * v
  OBVIOUS
<1>7. (100 * v) \div 100 = v /\ (85 * v) \div 100 \in Nat /\ (115 * v) \div 100 \in Nat
      /\ (85 * v) \div 100 <= v
  OBVIOUS
<1>8. /\ x >= (85 * v) \div 100 /\ x <= (115 * v) \div 100 /\ x \in Nat
      /\ IsFirst(v) => x >= v
      /\ v = MaxDelay /\ ~IsFirst(v) => x <= v
  BY <1>1, <1>2, <1>3, <1>4, <1>5, <1>6, <1>7
<1>9. \A w \in Nat : 85 * v >= 100 * w => x >= w
  BY <1>8
<1> QED
  BY <1>8, <1>9

\* The delays without jitter double until they reach the greatest one.
LEMMA BackoffDoubles ==
    /\ \A k \in Nat \union {-1} : Backoff(k) \in Nat /\ Backoff(k) <= MaxDelay
    /\ Backoff(0) = MaxDelay \/ Backoff(0) = BaseDelay
    /\ \A k \in Nat : Backoff(k + 1) = MaxDelay \/ Backoff(k + 1) = 2 * Backoff(k)
    /\ \A k \in Nat \ {0} : Backoff(k) = MaxDelay \/ Backoff(k) >= 2 * BaseDelay
<1> USE PersistenceAssumption
<1>1. ASSUME NEW k \in Nat
      PROVE  /\ PowerOf2[k] \in Nat \ {0} /\ PowerOf2[k] * BaseDelay \in Nat
             /\ PowerOf2[k] * BaseDelay >= BaseDelay
             /\ PowerOf2[k + 1] * BaseDelay = 2 * (PowerOf2[k] * BaseDelay)
  <2>1. PowerOf2[k] \in Nat \ {0} /\ PowerOf2[k + 1] = 2 * PowerOf2[k]
    BY PowerDoubles
  <2>2. \A a, b \in Nat : a # 0 => a * b \in Nat /\ a * b >= b /\ (2 * a) * b = 2 * (a * b)
    <3> SUFFICES ASSUME NEW a \in Nat, NEW b \in Nat, a # 0
                 PROVE  a * b \in Nat /\ a * b >= b /\ (2 * a) * b = 2 * (a * b)
      OBVIOUS
    <3>1. PICK c \in Nat : a = c + 1
      <4>1. a - 1 \in Nat /\ a = (a - 1) + 1
        OBVIOUS
      <4> QED
        BY <4>1
    <3>2. a * b = c * b + b /\ c * b \in Nat
      BY <3>1
    <3> QED
      BY <3>2
  <2> QED
    BY <2>1, <2>2
<1>2. ASSUME NEW k \in Nat \union {-1}
      PROVE  Backoff(k) \in Nat /\ Backoff(k) <= MaxDelay
  BY <1>1 DEF Backoff
<1>3. Backoff(0) = MaxDelay \/ Backoff(0) = BaseDelay
  BY PowerDoubles DEF Backoff
<1>4. ASSUME NEW k \in Nat, Backoff(k + 1) # MaxDelay
      PROVE  Backoff(k + 1) = 2 * Backoff(k) /\ Backoff(k + 1) >= 2 * BaseDelay
  <2> DEFINE b == PowerOf2[k] * BaseDelay
             c == PowerOf2[k + 1] * BaseDelay
  <2>1. b \in Nat /\ b >= BaseDelay /\ c = 2 * b
    BY <1>1
  <2>2. ~(k + 1 >= MaxExponent) /\ c < MaxDelay /\ Backoff(k + 1) = c
    BY <1>4 DEF Backoff
  <2>3. Backoff(k) = IF k >= MaxExponent THEN MaxDelay ELSE IF b < MaxDelay THEN b ELSE MaxDelay
    BY DEF Backoff
  <2> HIDE DEF b, c
  <2> QED
    BY <2>1, <2>2, <2>3
<1>5. ASSUME NEW k \in Nat \ {0}, Backoff(k) # MaxDelay
      PROVE  Backoff(k) >= 2 * BaseDelay
  <2>1. k - 1 \in Nat /\ (k - 1) + 1 = k
    OBVIOUS
  <2> QED
    BY <1>4, <1>5, <2>1
<1> QED
  BY <1>2, <1>3, <1>4, <1>5

\* One more delay keeps the schedule backing off.
LEMMA DelayKeeps ==
    ASSUME DelayInStep, BacksOff, ReconnectionNext
    PROVE  DelayInStep' /\ BacksOff'
<1> USE PersistenceAssumption
<1>1. PICK value \in Jittered(Backoff(exponent)) : NextDelay(value)
  BY DEF ReconnectionNext
<1>2. /\ attempts' = attempts + 1 /\ before' = delay /\ delay' = value
      /\ exponent' = exponent + 1 /\ startWithNoDelay' = startWithNoDelay
  BY <1>1 DEF NextDelay
<1>3. /\ exponent \in Nat \union {-1} /\ attempts \in Nat /\ delay \in Nat /\ startWithNoDelay \in BOOLEAN
      /\ exponent = IF startWithNoDelay THEN attempts - 1 ELSE attempts
  BY DEF DelayInStep
<1> DEFINE b == Backoff(exponent)
<1>4. b \in Nat /\ b <= MaxDelay
  BY <1>3, BackoffDoubles
<1>5. /\ value \in Nat /\ 100 * value <= 115 * b /\ 100 * (value + 1) > 85 * b
      /\ IsFirst(b) => value >= b
      /\ b = MaxDelay /\ ~IsFirst(b) => value <= b
      /\ 85 * b >= 100 * BaseDelay => value >= BaseDelay
  BY <1>1, <1>4, JitterIsSmall
<1>6. exponent' - 1 = exponent /\ Pure' = b
  <2>1. exponent' - 1 = exponent
    BY <1>2, <1>3
  <2> QED
    BY <2>1 DEF Pure, Backoff
<1>7. DelayInStep'
  <2>1. /\ attempts' \in Nat /\ attempts' > 0 /\ delay' \in Nat /\ before' \in Nat
        /\ exponent' = IF startWithNoDelay' THEN attempts' - 1 ELSE attempts'
    BY <1>2, <1>3, <1>5
  <2>2. delay' \in Jittered(Pure)'
    BY <1>1, <1>2, <1>6 DEF Jittered, LeastPercent, GreatestPercent, IsFirst
  <2> QED
    BY <1>2, <1>3, <2>1, <2>2 DEF DelayInStep
<1>8. value >= BaseDelay \/ MayUndercut'
  <2> SUFFICES ASSUME 85 * MaxDelay >= 100 * BaseDelay, ~(startWithNoDelay /\ attempts' <= 2)
               PROVE  value >= BaseDelay
    BY <1>2, <1>3 DEF MayUndercut
  <2>1. CASE b = MaxDelay
    BY <1>5, <2>1
  <2>2. CASE b # MaxDelay /\ exponent \in Nat \ {0}
    <3>1. b >= 2 * BaseDelay
      BY <2>2, BackoffDoubles
    <3> HIDE DEF b
    <3> QED
      BY <1>4, <1>5, <3>1
  <2>3. CASE b # MaxDelay /\ exponent \notin Nat \ {0}
    <3>1. exponent = 0 /\ ~startWithNoDelay
      BY <1>2, <1>3, <2>3
    <3>2. b = BaseDelay
      BY <2>3, <3>1, BackoffDoubles
    <3> QED
      BY <1>5, <3>1, <3>2 DEF IsFirst
  <2> QED
    BY <2>1, <2>2, <2>3
<1>9. value <= MaxDelay \/ MayExceed'
  <2>1. MayExceed' <=> \/ b < MaxDelay /\ 115 * b > 100 * MaxDelay
                       \/ ~startWithNoDelay /\ BaseDelay = MaxDelay
    BY <1>2, <1>6 DEF MayExceed
  <2>2. CASE b = MaxDelay
    BY <1>5, <2>1, <2>2 DEF IsFirst
  <2>3. CASE b # MaxDelay
    <3> HIDE DEF b
    <3> QED
      BY <1>4, <1>5, <2>1, <2>3
  <2> QED
    BY <2>2, <2>3
<1>10. ASSUME attempts' > 1
       PROVE  value >= delay \/ 100 * (value + 1) > 85 * MaxDelay
  <2>1. attempts > 0 /\ exponent \in Nat /\ delay \in Jittered(Backoff(exponent - 1))
    BY <1>2, <1>3, <1>10 DEF DelayInStep, Pure
  <2> DEFINE a == Backoff(exponent - 1)
  <2>2. exponent - 1 \in Nat \union {-1} /\ a \in Nat
    BY <2>1, BackoffDoubles
  <2>3. delay \in Nat /\ 100 * delay <= 115 * a
    BY <2>1, <2>2, JitterIsSmall
  <2>4. CASE b = MaxDelay
    BY <1>5, <2>4
  <2>5. CASE b # MaxDelay
    <3>1. CASE exponent = 0
      <4>1. a = 0 \/ MaxExponent <= -1
        BY <3>1 DEF Backoff
      <4>2. a = 0
        BY <4>1
      <4> HIDE DEF a, b
      <4> QED
        BY <1>5, <2>3, <4>2
    <3>2. CASE exponent # 0
      <4>1. exponent - 1 \in Nat /\ (exponent - 1) + 1 = exponent
        BY <2>1, <3>2
      <4>2. b = 2 * a
        BY <2>5, <4>1, BackoffDoubles
      <4> HIDE DEF a, b
      <4> QED
        BY <1>5, <2>2, <2>3, <4>2
    <3> QED
      BY <3>1, <3>2
  <2> QED
    BY <2>4, <2>5
<1>11. BacksOff'
  <2> HIDE DEF b
  <2> QED
    BY <1>2, <1>5, <1>6, <1>8, <1>9, <1>10 DEF BacksOff
<1> QED
  BY <1>7, <1>11

\* Whatever fails and in whichever order, a request is retried no more than its plan has hosts,
\* no more executions are started than the speculative policy says, and the reconnection
\* attempts back off, for every plan, base delay and greatest delay: their jitter is within
\* 15 %, keeps to the base and the greatest delay but for the named exceptions to the comment
\* of the policy, and never lets an attempt come sooner than the one before it while they grow.
THEOREM FailuresAreBounded == FailureSpec => []FailuresBounded
<1> USE PersistenceAssumption
<1>1. RequestInit /\ ReconnectionInit => FailureInv
  <2> SUFFICES ASSUME RequestInit, ReconnectionInit PROVE FailureInv
    OBVIOUS
  <2>1. RequestInStep
    BY DEF RequestInit, RequestInStep
  <2>2. DelayInStep /\ BacksOff
    BY DEF ReconnectionInit, DelayInStep, BacksOff
  <2> QED
    BY <2>1, <2>2 DEF FailureInv
<1>2. FailureInv /\ [FailureNext]_FailureVars => FailureInv'
  <2> SUFFICES ASSUME FailureInv, [FailureNext]_FailureVars PROVE FailureInv'
    OBVIOUS
  <2>1. ASSUME UNCHANGED requestVars PROVE RequestInStep'
    BY <2>1 DEF requestVars, FailureInv, RequestInStep
  <2>2. ASSUME UNCHANGED reconnectionVars PROVE DelayInStep' /\ BacksOff'
    BY <2>2 DEF reconnectionVars, FailureInv, DelayInStep, BacksOff, MayUndercut, MayExceed, Pure, Jittered,
         LeastPercent, GreatestPercent, IsFirst, Backoff
  <2>3. CASE RequestNext /\ UNCHANGED reconnectionVars
    BY <2>2, <2>3, RequestKeeps DEF FailureInv
  <2>4. CASE ReconnectionNext /\ UNCHANGED requestVars
    BY <2>1, <2>4, DelayKeeps DEF FailureInv
  <2>5. CASE UNCHANGED FailureVars
    BY <2>1, <2>2, <2>5 DEF FailureInv, FailureVars
  <2> QED
    BY <2>3, <2>4, <2>5 DEF FailureNext
<1>3. FailureInv => FailuresBounded
  BY DEF FailureInv, RequestInStep, FailuresBounded, RetriesBounded
<1> QED
  BY <1>1, <1>2, <1>3, PTL DEF FailureSpec

-----------------------------------------------------------------------------
(* Options.                                                                *)

\* What is known before the client is made and after: its profiles each have a load balancing
\* policy then, and requests are only made of a client that was accepted.
ClientInStep ==
    /\ DOMAIN requests = Requests /\ requests = [r \in Requests |-> requests[r]]
    /\ clientState # "made" => \A r \in Requests : requests[r] = << >>
    /\ clientState = "none" => profiles \in Seq(Profiles)
    /\ clientState = "made" =>
          /\ settings["loadBalancing"] = "good" /\ settings["retry"] = "good"
          /\ DOMAIN profiles = 1 .. Len(profiles) /\ Len(profiles) \in Nat
          /\ \A i \in 1 .. Len(profiles) : profiles[i].loadBalancing \notin Falsy

\* What OptionsServe says of one request.
Right(asked) ==
    /\ asked.state = "made" => Serves(asked)
    /\ asked.state = "refused" => MayBeRefused(asked)

OptionsInv == ClientInStep /\ \A r \in Requests : requests[r] # << >> => Right(requests[r][1])

\* ifUndefined3() is the first of the three that is set.
LEMMA FirstThatIsSet ==
    ASSUME NEW a, NEW b, NEW c
    PROVE  MostSpecific(<<a, b, c>>) = IfUndefined(a, IfUndefined(b, c))
<1> DEFINE levels == <<a, b, c>>
           set == {i \in 1 .. 3 : levels[i] # Undefined}
           least == CHOOSE i \in set : \A j \in set : i <= j
<1>1. levels[1] = a /\ levels[2] = b /\ levels[3] = c
  OBVIOUS
<1>2. MostSpecific(levels) = IF set = {} THEN Undefined ELSE levels[least]
  BY DEF MostSpecific
<1> HIDE DEF levels
<1>3. CASE a # Undefined
  <2>1. 1 \in set /\ \A j \in set : 1 <= j
    BY <1>1, <1>3
  <2>2. least \in set /\ \A j \in set : least <= j
    BY <2>1
  <2>3. least = 1
    BY <2>1, <2>2
  <2> QED
    BY <1>1, <1>2, <1>3, <2>1, <2>3 DEF IfUndefined, levels
<1>4. CASE a = Undefined /\ b # Undefined
  <2>1. 2 \in set /\ \A j \in set : 2 <= j
    BY <1>1, <1>4
  <2>2. least \in set /\ \A j \in set : least <= j
    BY <2>1
  <2>3. least = 2
    BY <2>1, <2>2
  <2> QED
    BY <1>1, <1>2, <1>4, <2>1, <2>3 DEF IfUndefined, levels
<1>5. CASE a = Undefined /\ b = Undefined /\ c # Undefined
  <2>1. 3 \in set /\ \A j \in set : 3 <= j
    BY <1>1, <1>5
  <2>2. least \in set /\ \A j \in set : least <= j
    BY <2>1
  <2>3. least = 3
    BY <2>1, <2>2
  <2> QED
    BY <1>1, <1>2, <1>5, <2>1, <2>3 DEF IfUndefined, levels
<1>6. CASE a = Undefined /\ b = Undefined /\ c = Undefined
  <2>1. set = {}
    BY <1>1, <1>6
  <2> QED
    BY <1>2, <1>6, <2>1 DEF IfUndefined, levels
<1> QED
  BY <1>3, <1>4, <1>5, <1>6

\* Of a profile with a load balancing policy, the bridge takes options that serve the request
\* and refuses them for the right reason only.
LEMMA MadeToServe ==
    ASSUME NEW query, NEW profile, NEW asked, profile.loadBalancing \notin Falsy,
           asked = [state |-> IF BridgeRefuses(QueryOptionsIntoWrapper(query, profile)) THEN "refused" ELSE "made",
                      query |-> query, profile |-> profile,
                      loadBalancing |-> profile.loadBalancing, retry |-> GetOption(query, profile, "retry"),
                      wrapper |-> QueryOptionsIntoWrapper(query, profile)]
    PROVE  Right(asked)
<1> DEFINE wrapper == QueryOptionsIntoWrapper(query, profile)
           timestamp == InQuery(query, "timestamp")
<1>1. /\ asked.loadBalancing = profile.loadBalancing /\ asked.retry = GetOption(query, profile, "retry")
      /\ asked.query = query /\ asked.profile = profile /\ asked.wrapper = wrapper
      /\ asked.state = "made" => ~BridgeRefuses(wrapper)
      /\ asked.state = "refused" => BridgeRefuses(wrapper)
  OBVIOUS
<1>2. \/ asked.retry \notin {Undefined, "null"}
      \/ "null" \in {InQuery(query, "retry"), profile["retry"]}
  <2>1. InClient("retry") = "client1"
    BY DEF InClient
  <2>2. GetOption(query, profile, "retry") =
          IfUndefined(InQuery(query, "retry"), IfUndefined(profile["retry"], "client1"))
    BY <2>1 DEF GetOption, ProfileOptions
  <2> QED
    BY <1>1, <2>2, OptionAssumption DEF IfUndefined
<1>3. ASSUME NEW option \in Sent
      PROVE  /\ GetOption(query, profile, option) = MostSpecific(Levels(asked, option))
             /\ GetOption(query, profile, option) \in {Levels(asked, option)[i] : i \in 1 .. 3}
  <2> DEFINE a == InQuery(query, option)
             b == IF option \in ProfileOptions THEN profile[option] ELSE Undefined
             c == IF option \in ProfileOptions \union ClientDefaults THEN InClient(option) ELSE Undefined
  <2>1. Levels(asked, option) = <<a, b, c>>
    BY <1>1 DEF Levels
  <2>2. GetOption(query, profile, option) = IfUndefined(a, IfUndefined(b, c))
    BY <1>3 DEF GetOption, IfUndefined, Sent
  <2> HIDE DEF a, b, c
  <2>3. GetOption(query, profile, option) = MostSpecific(Levels(asked, option))
    BY <2>1, <2>2, FirstThatIsSet
  <2>4. \A x \in {a, b, c} : x \in {<<a, b, c>>[i] : i \in 1 .. 3}
    <3>1. <<a, b, c>>[1] = a /\ <<a, b, c>>[2] = b /\ <<a, b, c>>[3] = c
      OBVIOUS
    <3>2. 1 \in 1 .. 3 /\ 2 \in 1 .. 3 /\ 3 \in 1 .. 3
      OBVIOUS
    <3> QED
      BY <3>1, <3>2
  <2>5. GetOption(query, profile, option) \in {a, b, c}
    BY <2>2 DEF IfUndefined
  <2> QED
    BY <2>1, <2>3, <2>4, <2>5
<1>4. \A option \in Sent \ {"timestamp"} : wrapper[option] = GetOption(query, profile, option)
  BY DEF QueryOptionsIntoWrapper
<1>5. wrapper["timestamp"] = [value |-> timestamp, isBigInt |-> timestamp \notin Falsy]
  BY DEF QueryOptionsIntoWrapper, Sent, QueryOnly, GetOption, ProfileOptions, ClientDefaults, IntoBigInt
<1> HIDE DEF wrapper, timestamp
<1>6. wrapper["timestamp"].value = timestamp /\ wrapper["timestamp"].isBigInt = (timestamp \notin Falsy)
  BY <1>5
<1>7. ASSUME ~BridgeRefuses(wrapper)
      PROVE  Serves(asked)
  <2>1. timestamp \notin Falsy \/ timestamp = Undefined
    BY <1>6, <1>7 DEF BridgeRefuses
  <2>2. (timestamp \notin Falsy) = (timestamp # Undefined)
    BY <2>1 DEF Falsy
  <2>3. wrapper["timestamp"] = [value |-> timestamp, isBigInt |-> timestamp # Undefined]
    BY <1>5, <2>2
  <2>4. \A option \in Sent \ {"timestamp"} : wrapper[option] = MostSpecific(Levels(asked, option))
    BY <1>3, <1>4
  <2> QED
    BY <1>1, <1>2, <2>3, <2>4 DEF Serves, timestamp
<1>8. ASSUME BridgeRefuses(wrapper)
      PROVE  MayBeRefused(asked)
  <2>1. CASE \E option \in Sent \ {"timestamp"} : wrapper[option] = "null"
    BY <1>3, <1>4, <2>1 DEF MayBeRefused
  <2>2. CASE ~wrapper["timestamp"].isBigInt /\ wrapper["timestamp"].value # Undefined
    BY <1>1, <1>6, <2>2 DEF MayBeRefused, timestamp
  <2> QED
    BY <1>8, <2>1, <2>2 DEF BridgeRefuses
<1> QED
  BY <1>1, <1>7, <1>8 DEF Right

\* Every profile that the ProfileManager has completed has a load balancing policy.
LEMMA ProfilesCompleted ==
    ASSUME NEW list \in Seq(Profiles)
    PROVE  LET all == Completed(WithDefault(list))
           IN  /\ DOMAIN all = 1 .. Len(all) /\ Len(all) \in Nat
               /\ \A i \in 1 .. Len(all) : all[i].loadBalancing \notin Falsy
<1> DEFINE l == WithDefault(list)
<1>1. NewProfile("default") \in Profiles
  BY DEF NewProfile, Profiles, OptionValues
<1>2. l \in Seq(Profiles)
  BY <1>1 DEF WithDefault
<1> HIDE DEF l
<1> DEFINE d == FirstDefault(l)
           lbp == OrElse(l[d].loadBalancing, "client1")
           all == [i \in 1 .. Len(l) |->
                     [l[i] EXCEPT !.loadBalancing = OrElse(@, lbp),
                                  !.retry = IF i = d THEN OrElse(@, "client1") ELSE @]]
<1>3. Completed(l) = all
  BY DEF Completed
<1>4. lbp \notin Falsy
  BY OptionAssumption DEF OrElse, Falsy
<1> HIDE DEF d, lbp
<1>5. Len(l) \in Nat /\ DOMAIN l = 1 .. Len(l) /\ \A i \in 1 .. Len(l) : l[i] \in Profiles
  BY <1>2
<1>6. ASSUME NEW i \in 1 .. Len(l)
      PROVE  all[i].loadBalancing \notin Falsy
  <2> DEFINE p == l[i]
             retry == IF i = d THEN OrElse(p.retry, "client1") ELSE p.retry
             q == [p EXCEPT !.loadBalancing = OrElse(p.loadBalancing, lbp)]
  <2>1. p \in Profiles
    BY <1>5
  <2>2. all[i] = [q EXCEPT !.retry = retry]
    BY <1>6
  <2> HIDE DEF p
  <2>3. q.loadBalancing = OrElse(p.loadBalancing, lbp)
    BY <2>1 DEF Profiles
  <2> HIDE DEF q, retry
  <2>4. [q EXCEPT !.retry = retry].loadBalancing = q.loadBalancing
    BY <2>1 DEF q, Profiles
  <2> QED
    BY <1>4, <2>2, <2>3, <2>4 DEF OrElse
<1>7. DOMAIN all = 1 .. Len(l) /\ Len(all) = Len(l)
  BY <1>5
<1> HIDE DEF all
<1> QED
  BY <1>3, <1>5, <1>6, <1>7 DEF l

\* The constructor of the client keeps the invariant: it refuses options without policies.
LEMMA NewClientKeeps ==
    ASSUME OptionsInv, NewClient
    PROVE  OptionsInv'
<1>1. /\ clientState = "none" /\ requests' = requests /\ userOptions' = userOptions
      /\ \A r \in Requests : requests[r] = << >>
      /\ profiles \in Seq(Profiles)
  BY DEF NewClient, OptionsInv, ClientInStep
<1>2. CASE clientState' = "made"
  <2>1. /\ settings' = DeepExtend(userOptions) /\ Accepted(settings')
        /\ profiles' = Completed(WithDefault(profiles))
    BY <1>2 DEF NewClient
  <2>2. settings'["loadBalancing"] = "good" /\ settings'["retry"] = "good"
    BY <2>1 DEF Accepted, ValidPolicies
  <2>3. /\ DOMAIN profiles' = 1 .. Len(profiles') /\ Len(profiles') \in Nat
        /\ \A i \in 1 .. Len(profiles') : profiles'[i].loadBalancing \notin Falsy
    BY <1>1, <2>1, ProfilesCompleted
  <2> QED
    BY <1>1, <1>2, <2>2, <2>3 DEF OptionsInv, ClientInStep
<1>3. CASE clientState' = "refused"
  BY <1>1, <1>3 DEF OptionsInv, ClientInStep
<1> QED
  BY <1>2, <1>3 DEF NewClient

\* So does a request, whichever profile it asks for.
LEMMA CreateOptionsKeeps ==
    ASSUME OptionsInv, NEW r \in Requests, NEW query, NEW name, CreateOptions(r, query, name)
    PROVE  OptionsInv'
<1> DEFINE i == GetProfile(name)
           wrapper == QueryOptionsIntoWrapper(query, profiles[i])
           asked == [state |-> IF BridgeRefuses(wrapper) THEN "refused" ELSE "made",
                       query |-> query, profile |-> profiles[i], loadBalancing |-> profiles[i].loadBalancing,
                       retry |-> GetOption(query, profiles[i], "retry"), wrapper |-> wrapper]
           made == IF i = 0 THEN <<[state |-> "unknown profile"]>> ELSE <<asked>>
<1>1. /\ clientState = "made" /\ requests' = [requests EXCEPT ![r] = made]
      /\ userOptions' = userOptions /\ settings' = settings /\ clientState' = clientState
      /\ profiles' = profiles /\ defaultProfile' = defaultProfile
  BY DEF CreateOptions
<1>2. i # 0 => i \in 1 .. Len(profiles)
  <2> DEFINE named == {n \in 1 .. Len(profiles) : profiles[n].name = name}
  <2>1. Len(profiles) \in Nat
    BY <1>1 DEF OptionsInv, ClientInStep
  <2>2. named # {} => \E n \in named : \A m \in named : m <= n
    <3>1. named \subseteq 0 .. Len(profiles)
      BY <2>1
    <3> HIDE DEF named
    <3> QED
      BY <2>1, <3>1, GreatestMember
  <2> QED
    BY <2>2 DEF GetProfile
<1>3. i # 0 => Right(asked)
  <2> SUFFICES ASSUME i # 0 PROVE Right(asked)
    OBVIOUS
  <2>1. profiles[i].loadBalancing \notin Falsy
    BY <1>1, <1>2 DEF OptionsInv, ClientInStep
  <2> HIDE DEF i
  <2> QED
    BY <2>1, MadeToServe
<1>4. Right(made[1])
  <2>1. i = 0 => made[1].state = "unknown profile"
    BY DEF made
  <2>2. i # 0 => made[1] = asked
    BY DEF made
  <2> HIDE DEF made, asked, i, wrapper
  <2> QED
    BY <1>3, <2>1, <2>2 DEF Right
<1> HIDE DEF made, asked, i, wrapper
<1>5. /\ DOMAIN requests = Requests /\ requests = [s \in Requests |-> requests[s]]
  BY DEF OptionsInv, ClientInStep
<1>6. /\ DOMAIN requests' = Requests /\ requests' = [s \in Requests |-> requests'[s]]
      /\ \A s \in Requests : requests'[s] = IF s = r THEN made ELSE requests[s]
  BY <1>1, <1>5
<1>7. \A s \in Requests : requests'[s] # << >> => Right(requests'[s][1])
  BY <1>4, <1>6 DEF OptionsInv
<1>8. \A s \in Requests : requests'[s] # << >> => Right(requests[s][1])'
  BY <1>1, <1>7 DEF Right, Serves, MayBeRefused, Disputed, Levels, InClient
<1>9. ClientInStep'
  BY <1>1, <1>6 DEF OptionsInv, ClientInStep
<1> QED
  BY <1>8, <1>9 DEF OptionsInv

\* A client that was accepted has its policies; each option of a request that is handed to the
\* Rust driver is the most specific one that was set, the timestamp as a BigInt, but for the
\* options on which the code and the comment of ExecutionProfile disagree; and a request that
\* the bridge refuses has a null or a timestamp 0, for any options, profiles and query options.
THEOREM OptionsDoServe == OptionSpec => []OptionsServe
<1>1. OptionInit => OptionsInv
  BY OptionAssumption DEF OptionInit, OptionsInv, ClientInStep
<1>2. OptionsInv /\ [OptionNext]_optionVars => OptionsInv'
  <2> SUFFICES ASSUME OptionsInv, [OptionNext]_optionVars PROVE OptionsInv'
    OBVIOUS
  <2>1. CASE UNCHANGED optionVars
    BY <2>1 DEF optionVars, OptionsInv, ClientInStep, Right, Serves, MayBeRefused, Disputed, Levels, InClient
  <2> QED
    BY <2>1, NewClientKeeps, CreateOptionsKeeps DEF OptionNext
<1>3. OptionsInv => OptionsServe
  <2> SUFFICES ASSUME OptionsInv, NEW r \in Requests, requests[r] # << >>
               PROVE  /\ Right(requests[r][1])
                      /\ \A policy \in {"loadBalancing", "retry"} : settings[policy] = "good"
    BY DEF OptionsServe, Right
  <2> QED
    BY DEF OptionsInv, ClientInStep
<1> QED
  BY <1>1, <1>2, <1>3, PTL DEF OptionSpec
=============================================================================
