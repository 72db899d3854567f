------------------------- MODULE LoadBalancingProofs -------------------------
(***************************************************************************)
(* Proofs about the query plans, for any cluster, any replicas and any     *)
(* nesting of the wrappers: a plan is complete and repeats nothing, and    *)
(* the replicas come first, the ones that do not answer last among them    *)
(* where the code reorders them.                                           *)
(***************************************************************************)
EXTENDS LoadBalancing, FiniteSetTheorems, SequenceTheorems, WellFoundedInduction, TLAPS

-----------------------------------------------------------------------------
(* Recursion over the numbers from 0 to n.                                 *)

\* Induction over the natural numbers, for a set of them.
LEMMA SetInduction ==
    ASSUME NEW S, 0 \in S, \A n \in Nat : n \in S => n + 1 \in S
    PROVE  Nat \subseteq S
<1> DEFINE R == OpToRel(<, Nat)
           T == Nat \ S
<1>1. \A x, y : x \in Nat /\ y \in Nat /\ x < y => <<x, y>> \in R
  BY DEF OpToRel
<1>2. IsWellFoundedOn(R, Nat)
  BY NatLessThanWellFounded
<1> HIDE DEF R
<1> SUFFICES ASSUME T # {} PROVE FALSE
  OBVIOUS
<1>3. T \subseteq Nat
  OBVIOUS
<1> HIDE DEF T
<1>4. PICK x \in T : \A y \in T : ~(<<y, x>> \in R)
  BY <1>2, <1>3, WFMin
<1> USE DEF T
<1>5. x # 0 /\ x \in Nat /\ x \notin S
  OBVIOUS
<1>6. x - 1 \in Nat /\ x - 1 < x /\ (x - 1) + 1 = x
  BY <1>5
<1>7. x - 1 \notin T
  BY <1>1, <1>4, <1>5, <1>6
<1> QED
  BY <1>5, <1>6, <1>7

\* Induction up to n.
LEMMA UpTo ==
    ASSUME NEW n \in Nat, NEW S, 0 \in S, \A i \in 1 .. n : i - 1 \in S => i \in S
    PROVE  0 .. n \subseteq S
<1> DEFINE T == {i \in Nat : i <= n => i \in S}
<1>1. 0 \in T
  OBVIOUS
<1>2. ASSUME NEW i \in Nat, i \in T PROVE i + 1 \in T
  <2>1. i + 1 <= n => i + 1 \in 1 .. n /\ (i + 1) - 1 = i /\ i <= n
    OBVIOUS
  <2> QED
    BY <1>2, <2>1
<1> HIDE DEF T
<1>3. Nat \subseteq T
  BY <1>1, <1>2, SetInduction
<1> QED
  BY <1>3 DEF T

\* The functions that are made step by step from 0 to n.
StepByStep(D, n, first, step) ==
    {f \in [0 .. n -> D] : f[0] = first /\ \A i \in 1 .. n : f[i] = step[i][f[i - 1]]}

\* What is defined step by step from 0 to n exists.
LEMMA RecursionMade ==
    ASSUME NEW D, NEW n \in Nat, NEW first \in D, NEW step \in [1 .. n -> [D -> D]]
    PROVE  StepByStep(D, n, first, step) # {}
<1> DEFINE Made(k, f) == f[0] = first /\ \A i \in 1 .. k : f[i] = step[i][f[i - 1]]
           S == {k \in Nat : k <= n => \E f \in [0 .. k -> D] : Made(k, f)}
<1>1. 0 \in S
  <2>1. [i \in 0 .. 0 |-> first] \in [0 .. 0 -> D] /\ Made(0, [i \in 0 .. 0 |-> first])
    OBVIOUS
  <2> QED
    BY <2>1
<1>2. ASSUME NEW k \in Nat, k \in S
      PROVE  k + 1 \in S
  <2> SUFFICES ASSUME k + 1 <= n PROVE \E f \in [0 .. k + 1 -> D] : Made(k + 1, f)
    OBVIOUS
  <2>1. PICK f \in [0 .. k -> D] : Made(k, f)
    BY <1>2
  <2> DEFINE g == [i \in 0 .. k + 1 |-> IF i = k + 1 THEN step[k + 1][f[k]] ELSE f[i]]
  <2>2. f[k] \in D /\ k + 1 \in 1 .. n
    OBVIOUS
  <2>3. step[k + 1] \in [D -> D]
    BY <2>2
  <2>4. step[k + 1][f[k]] \in D
    BY <2>2, <2>3
  <2>5. g \in [0 .. k + 1 -> D] /\ g[0] = first
    BY <2>1, <2>4
  <2>6. ASSUME NEW i \in 1 .. k + 1
        PROVE  g[i] = step[i][g[i - 1]]
    <3>1. CASE i = k + 1
      BY <3>1
    <3>2. CASE i # k + 1
      BY <2>1, <3>2
    <3> QED
      BY <3>1, <3>2
  <2> QED
    BY <2>5, <2>6
<1> HIDE DEF S
<1>3. n \in S
  BY <1>1, <1>2, SetInduction
<1> QED
  BY <1>3 DEF S, StepByStep

-----------------------------------------------------------------------------
(* Lists of hosts.                                                         *)

\* The elements of a sequence.
LEMMA Elements ==
    ASSUME NEW T, NEW s \in Seq(T)
    PROVE  /\ ToSet(s) = {s[i] : i \in 1 .. Len(s)} /\ ToSet(s) \subseteq T
           /\ Len(s) \in Nat /\ DOMAIN s = 1 .. Len(s)
           /\ IsInjective(s) <=> \A i, j \in 1 .. Len(s) : s[i] = s[j] => i = j
<1>1. Len(s) \in Nat /\ DOMAIN s = 1 .. Len(s) /\ \A i \in 1 .. Len(s) : s[i] \in T
  OBVIOUS
<1> QED
  BY <1>1 DEF ToSet, IsInjective

\* The steps of the recursive definition of Only().
OnlySteps(T, s, keep) ==
    {f \in [0 .. Len(s) -> Seq(T)] :
        /\ f[0] = << >>
        /\ \A i \in 1 .. Len(s) : f[i] = IF s[i] \in keep THEN Append(f[i - 1], s[i]) ELSE f[i - 1]}

\* Only() is what its recursive definition says.
LEMMA OnlyUnfolds ==
    ASSUME NEW T, NEW s \in Seq(T), NEW keep
    PROVE  \E f \in OnlySteps(T, s, keep) : Only(s, keep) = f[Len(s)]
<1> DEFINE n == Len(s)
           step == [i \in 1 .. n |-> [t \in Seq(T) |-> IF s[i] \in keep THEN Append(t, s[i]) ELSE t]]
           Rec(f) == [i \in 0 .. n |->
                         IF i = 0 THEN << >> ELSE IF s[i] \in keep THEN Append(f[i - 1], s[i]) ELSE f[i - 1]]
<1>1. n \in Nat /\ << >> \in Seq(T) /\ \A i \in 1 .. n : s[i] \in T
  OBVIOUS
<1>2. step \in [1 .. n -> [Seq(T) -> Seq(T)]]
  BY <1>1
<1>3. \A i \in 1 .. n, t \in Seq(T) : step[i][t] = IF s[i] \in keep THEN Append(t, s[i]) ELSE t
  OBVIOUS
<1> HIDE DEF step
<1> DEFINE D == Seq(T)
           none == << >>
<1>20. none \in D /\ step \in [1 .. n -> [D -> D]] /\ n \in Nat
  BY <1>1, <1>2
<1> HIDE DEF n, D, none
<1>21. StepByStep(D, n, none, step) # {}
  BY <1>20, RecursionMade
<1>4. PICK f \in [0 .. n -> D] : f[0] = none /\ \A i \in 1 .. n : f[i] = step[i][f[i - 1]]
  BY <1>21 DEF StepByStep
<1> USE DEF none
<1>5. ASSUME NEW i \in 1 .. n
      PROVE  f[i] = IF s[i] \in keep THEN Append(f[i - 1], s[i]) ELSE f[i - 1]
  <2>1. i - 1 \in 0 .. n
    BY <1>1
  <2>2. f[i - 1] \in D /\ f[i] = step[i][f[i - 1]]
    BY <1>4, <2>1
  <2> QED
    BY <1>3, <2>2 DEF D
<1>6. ASSUME NEW i \in 0 .. n
      PROVE  f[i] = IF i = 0 THEN << >> ELSE IF s[i] \in keep THEN Append(f[i - 1], s[i]) ELSE f[i - 1]
  <2>1. CASE i = 0
    BY <1>4, <2>1
  <2>2. CASE i # 0
    <3>1. i \in 1 .. n
      BY <1>20, <2>2
    <3> QED
      BY <1>5, <2>2, <3>1
  <2> QED
    BY <2>1, <2>2
<1>7. f = [i \in 0 .. n |-> f[i]]
  OBVIOUS
<1>8. f = Rec(f)
  BY <1>6, <1>7, Zenon
<1> DEFINE g == CHOOSE x : x = Rec(x)
<1>9. g = Rec(g)
  BY <1>8, Zenon
<1>10. Only(s, keep) = g[n]
  BY DEF Only, n
<1> HIDE DEF g
<1>11. \A i \in 0 .. n : g[i] = IF i = 0 THEN << >> ELSE IF s[i] \in keep THEN Append(g[i - 1], s[i]) ELSE g[i - 1]
  BY <1>9, Zenon
<1> DEFINE S == {i \in 0 .. n : g[i] \in D}
<1>12. 0 \in S
  <2>1. 0 \in 0 .. n
    BY <1>20
  <2>2. g[0] = << >>
    BY <1>11, <2>1, Zenon
  <2> QED
    BY <1>20, <2>1, <2>2
<1>13. ASSUME NEW i \in 1 .. n, i - 1 \in S PROVE i \in S
  <2>1. i \in 0 .. n /\ i # 0
    BY <1>20
  <2>2. g[i] = IF s[i] \in keep THEN Append(g[i - 1], s[i]) ELSE g[i - 1]
    BY <1>11, <2>1
  <2>3. g[i - 1] \in Seq(T) /\ s[i] \in T
    BY <1>1, <1>13 DEF D
  <2>4. Append(g[i - 1], s[i]) \in Seq(T)
    BY <2>3
  <2>5. g[i] \in D
    BY <2>2, <2>3, <2>4 DEF D
  <2> QED
    BY <2>1, <2>5
<1> HIDE DEF S
<1>14. 0 .. n \subseteq S
  BY <1>12, <1>13, <1>20, UpTo
<1>15. \A i \in 0 .. n : g[i] \in D
  BY <1>14 DEF S
<1>16. g = [i \in 0 .. n |-> g[i]]
  BY <1>9, Zenon
<1>17. g \in [0 .. n -> D]
  BY <1>15, <1>16
<1>18. ASSUME NEW i \in 1 .. n
       PROVE  g[i] = IF s[i] \in keep THEN Append(g[i - 1], s[i]) ELSE g[i - 1]
  BY <1>1, <1>11
<1>19. g[0] = << >>
  BY <1>1, <1>11
<1> QED
  BY <1>10, <1>17, <1>18, <1>19 DEF n, D, OnlySteps

\* Appending an element.
LEMMA Appended ==
    ASSUME NEW T, NEW s \in Seq(T), NEW x \in T
    PROVE  /\ Append(s, x) \in Seq(T) /\ Len(Append(s, x)) = Len(s) + 1
           /\ \A i \in 1 .. Len(s) : Append(s, x)[i] = s[i]
           /\ Append(s, x)[Len(s) + 1] = x
           /\ ToSet(Append(s, x)) = ToSet(s) \union {x}
<1>1. /\ Append(s, x) \in Seq(T) /\ Len(Append(s, x)) = Len(s) + 1
      /\ \A i \in 1 .. Len(s) : Append(s, x)[i] = s[i]
      /\ Append(s, x)[Len(s) + 1] = x
  BY AppendProperties
<1>2. ToSet(s) = {s[i] : i \in 1 .. Len(s)} /\ Len(s) \in Nat
  BY Elements
<1>3. ToSet(Append(s, x)) = {Append(s, x)[i] : i \in 1 .. Len(s) + 1}
  BY <1>1, Elements
<1>4. \A i \in 1 .. Len(s) + 1 : i = Len(s) + 1 \/ i \in 1 .. Len(s)
  BY <1>2
<1>5. Len(s) + 1 \in 1 .. Len(s) + 1 /\ \A i \in 1 .. Len(s) : i \in 1 .. Len(s) + 1
  BY <1>2
<1> QED
  BY <1>1, <1>2, <1>3, <1>4, <1>5

\* What comes first in t came first in s.
Ordered(t, s) ==
    \A i, j \in 1 .. Len(t) : i < j => \E k, l \in 1 .. Len(s) : k < l /\ s[k] = t[i] /\ s[l] = t[j]

\* Only() keeps what it is told to, in the order in which it was.
LEMMA OnlyKeeps ==
    ASSUME NEW T, NEW s \in Seq(T), NEW keep
    PROVE  /\ Only(s, keep) \in Seq(T)
           /\ ToSet(Only(s, keep)) = ToSet(s) \intersect keep
           /\ Ordered(Only(s, keep), s)
<1> DEFINE n == Len(s)
<1>1. n \in Nat /\ ToSet(s) = {s[i] : i \in 1 .. n} /\ \A i \in 1 .. n : s[i] \in T
  BY Elements
<1>9. PICK f \in OnlySteps(T, s, keep) : Only(s, keep) = f[n]
  BY OnlyUnfolds
<1>2. /\ f \in [0 .. n -> Seq(T)] /\ f[0] = << >>
      /\ \A i \in 1 .. n : f[i] = IF s[i] \in keep THEN Append(f[i - 1], s[i]) ELSE f[i - 1]
  BY DEF OnlySteps
<1> DEFINE InSet(i) == ToSet(f[i]) = {s[k] : k \in 1 .. i} \intersect keep
           InOrder(i) == \A a, b \in 1 .. Len(f[i]) :
                             a < b => \E k, l \in 1 .. i : k < l /\ s[k] = f[i][a] /\ s[l] = f[i][b]
           S == {i \in 0 .. n : InSet(i) /\ InOrder(i)}
<1>3. 0 \in S
  <2>1. f[0] = << >> /\ 0 \in 0 .. n
    BY <1>1, <1>2
  <2>2. ToSet(f[0]) = {} /\ Len(f[0]) = 0
    BY <2>1 DEF ToSet
  <2>3. InSet(0)
    BY <2>2
  <2>4. InOrder(0)
    BY <2>2
  <2> QED
    BY <2>1, <2>3, <2>4
<1>4. ASSUME NEW i \in 1 .. n, i - 1 \in S PROVE i \in S
  <2>1. /\ i \in 0 .. n /\ i - 1 \in 0 .. n /\ i \in Nat /\ i - 1 \in Nat
        /\ \A k \in 1 .. i : k = i \/ k \in 1 .. i - 1
        /\ \A k \in 1 .. i - 1 : k \in 1 .. i /\ k < i
        /\ i \in 1 .. i
    BY <1>1
  <2>2. InSet(i - 1) /\ InOrder(i - 1)
    BY <1>4
  <2>3. f[i - 1] \in Seq(T) /\ s[i] \in T /\ f[i] = IF s[i] \in keep THEN Append(f[i - 1], s[i]) ELSE f[i - 1]
    BY <1>1, <1>2, <2>1
  <2> HIDE DEF InSet, InOrder
  <2>4. CASE s[i] \notin keep
    <3>1. f[i] = f[i - 1]
      BY <2>3, <2>4
    <3>2. InSet(i)
      BY <2>1, <2>2, <2>4, <3>1 DEF InSet
    <3>3. InOrder(i)
      BY <2>1, <2>2, <3>1 DEF InOrder
    <3> QED
      BY <2>1, <3>2, <3>3
  <2>5. CASE s[i] \in keep
    <3> DEFINE t == f[i - 1]
               m == Len(f[i - 1])
    <3>1. /\ f[i] \in Seq(T) /\ Len(f[i]) = m + 1
          /\ \A a \in 1 .. m : f[i][a] = t[a]
          /\ f[i][m + 1] = s[i]
          /\ ToSet(f[i]) = ToSet(t) \union {s[i]}
      BY <2>3, <2>5, Appended
    <3>2. InSet(i)
      BY <2>1, <2>2, <2>5, <3>1 DEF InSet
    <3>3. ASSUME NEW a \in 1 .. Len(f[i]), NEW b \in 1 .. Len(f[i]), a < b
          PROVE  \E k, l \in 1 .. i : k < l /\ s[k] = f[i][a] /\ s[l] = f[i][b]
      <4>1. m \in Nat /\ a \in 1 .. m
        BY <2>3, <3>1, <3>3
      <4>2. CASE b \in 1 .. m
        <5>1. PICK k, l \in 1 .. i - 1 : k < l /\ s[k] = t[a] /\ s[l] = t[b]
          BY <2>2, <3>3, <4>1, <4>2 DEF InOrder
        <5> QED
          BY <2>1, <3>1, <4>1, <4>2, <5>1
      <4>3. CASE b = m + 1
        <5>1. t[a] \in ToSet(t)
          BY <2>3, <4>1, Elements
        <5>2. PICK k \in 1 .. i - 1 : s[k] = t[a]
          BY <2>2, <5>1 DEF InSet
        <5>3. k \in 1 .. i /\ k < i /\ s[k] = f[i][a] /\ s[i] = f[i][b]
          BY <2>1, <3>1, <4>1, <4>3, <5>2
        <5> QED
          BY <2>1, <5>3
      <4> QED
        BY <3>1, <4>1, <4>2, <4>3
    <3> QED
      BY <2>1, <3>2, <3>3 DEF InOrder
  <2> QED
    BY <2>4, <2>5
<1> HIDE DEF S
<1>5. 0 .. n \subseteq S
  BY <1>1, <1>3, <1>4, UpTo
<1>6. n \in S
  BY <1>1, <1>5
<1>7. InSet(n) /\ InOrder(n)
  BY <1>6 DEF S
<1>8. Only(s, keep) = f[n] /\ f[n] \in Seq(T)
  BY <1>1, <1>2, <1>9
<1> QED
  BY <1>1, <1>7, <1>8 DEF Ordered

\* What is in the order of a list without repetitions has none either.
LEMMA OrderedOnce ==
    ASSUME NEW T, NEW s \in Seq(T), NEW t \in Seq(T), IsInjective(s), Ordered(t, s)
    PROVE  IsInjective(t)
<1>1. \A k, l \in 1 .. Len(s) : s[k] = s[l] => k = l
  BY Elements
<1>2. Len(s) \in Nat /\ Len(t) \in Nat
  OBVIOUS
<1>3. ASSUME NEW i \in 1 .. Len(t), NEW j \in 1 .. Len(t), i < j
      PROVE  t[i] # t[j]
  <2>1. PICK k, l \in 1 .. Len(s) : k < l /\ s[k] = t[i] /\ s[l] = t[j]
    BY <1>3 DEF Ordered
  <2> QED
    BY <1>1, <1>2, <2>1
<1>4. \A i, j \in 1 .. Len(t) : t[i] = t[j] => i = j
  BY <1>2, <1>3
<1> QED
  BY <1>4, Elements

\* A quotient and a remainder make up the number.
LEMMA Division ==
    ASSUME NEW n \in Nat, NEW d \in Nat \ {0}
    PROVE  n \div d \in Nat /\ n % d \in 0 .. d - 1 /\ n = d * (n \div d) + (n % d)
  OBVIOUS

\* One more in the quotient is at least the divisor more.
LEMMA Multiples ==
    ASSUME NEW d \in Nat \ {0}, NEW a \in Nat, NEW b \in Nat, a < b
    PROVE  d * a + d <= d * b
<1>1. PICK c \in Nat : b = a + 1 + c
  <2>1. b - a - 1 \in Nat /\ b = a + 1 + (b - a - 1)
    OBVIOUS
  <2> QED
    BY <2>1
<1>2. d * b = d * a + d + d * c /\ d * c \in Nat /\ d * a \in Nat
  BY <1>1
<1> QED
  BY <1>2

\* Numbers that are less than the divisor apart leave different remainders.
LEMMA NearNumbersDiffer ==
    ASSUME NEW d \in Nat \ {0}, NEW a \in Nat, NEW b \in Nat, a < b, b - a < d
    PROVE  a % d # b % d
<1> DEFINE p == a \div d
           q == b \div d
<1>1. /\ p \in Nat /\ a % d \in 0 .. d - 1 /\ a = d * p + (a % d)
      /\ q \in Nat /\ b % d \in 0 .. d - 1 /\ b = d * q + (b % d)
  BY Division
<1> HIDE DEF p, q
<1>6. d * p \in Nat /\ d * q \in Nat
  BY <1>1
<1> SUFFICES ASSUME a % d = b % d PROVE FALSE
  OBVIOUS
<1>2. d * p < d * q /\ d * q < d * p + d
  BY <1>1, <1>6
<1>3. p # q
  BY <1>1, <1>2
<1>4. ~(p < q)
  BY <1>1, <1>2, <1>6, Multiples
<1>5. ~(q < p)
  BY <1>1, <1>2, <1>6, Multiples
<1> QED
  BY <1>1, <1>3, <1>4, <1>5

\* A list that is made of the items of another, each of them once.
Takes(t, s, r) == t = [i \in 1 .. Len(s) |-> s[r[i]]]

\* It has the same items, and each once if the other has.
LEMMA Rearranged ==
    ASSUME NEW T, NEW s \in Seq(T), NEW r \in [1 .. Len(s) -> 1 .. Len(s)],
           \A i, j \in 1 .. Len(s) : r[i] = r[j] => i = j,
           NEW t, Takes(t, s, r)
    PROVE  /\ t \in Seq(T) /\ Len(t) = Len(s) /\ ToSet(t) = ToSet(s)
           /\ IsInjective(s) => IsInjective(t)
<1> DEFINE n == Len(s)
<1>1. /\ n \in Nat /\ ToSet(s) = {s[i] : i \in 1 .. n} /\ \A i \in 1 .. n : s[i] \in T
      /\ IsInjective(s) <=> \A i, j \in 1 .. n : s[i] = s[j] => i = j
  BY Elements
<1> HIDE DEF n
<1>2. t \in [1 .. n -> T]
  BY <1>1 DEF n, Takes
<1>3. t \in Seq(T) /\ Len(t) = n
  BY <1>1, <1>2
<1>4. /\ ToSet(t) = {t[i] : i \in 1 .. n}
      /\ IsInjective(t) <=> \A i, j \in 1 .. n : t[i] = t[j] => i = j
  BY <1>3, Elements
<1>5. \A i \in 1 .. n : t[i] = s[r[i]] /\ r[i] \in 1 .. n
  BY DEF n, Takes
<1>6. r \in Injection(1 .. n, 1 .. n)
  BY DEF Injection, IsInjective, n
<1>7. IsFiniteSet(1 .. n)
  BY <1>1, FS_Interval
<1>8. r \in Surjection(1 .. n, 1 .. n)
  BY <1>6, <1>7, FS_Injection
<1>9. \A m \in 1 .. n : \E i \in 1 .. n : r[i] = m
  BY <1>8 DEF Surjection
<1>10. ToSet(t) = ToSet(s)
  <2>1. (\A x \in 1 .. n : s[x] \in ToSet(s)) /\ (\A x \in 1 .. n : t[x] \in ToSet(t))
    BY <1>1, <1>4
  <2>2. ASSUME NEW i \in 1 .. n PROVE t[i] \in ToSet(s)
    BY <1>5, <2>1
  <2>3. ASSUME NEW m \in 1 .. n PROVE s[m] \in ToSet(t)
    <3>1. PICK i \in 1 .. n : r[i] = m
      BY <1>9
    <3>2. t[i] = s[m]
      BY <1>5, <3>1
    <3> QED
      BY <2>1, <3>2
  <2>4. ToSet(t) \subseteq ToSet(s)
    BY <1>4, <2>2
  <2>5. ToSet(s) \subseteq ToSet(t)
    BY <1>1, <2>3
  <2> QED
    BY <2>4, <2>5
<1>11. ASSUME IsInjective(s) PROVE IsInjective(t)
  BY <1>1, <1>4, <1>5, <1>11 DEF n
<1> QED
  BY <1>3, <1>10, <1>11 DEF n

\* Rotated() is such a list.
LEMMA RotatedKeeps ==
    ASSUME NEW T, NEW s \in Seq(T), NEW k \in Nat
    PROVE  /\ Rotated(s, k) \in Seq(T) /\ Len(Rotated(s, k)) = Len(s) /\ ToSet(Rotated(s, k)) = ToSet(s)
           /\ IsInjective(s) => IsInjective(Rotated(s, k))
<1> DEFINE n == Len(s)
           r == [i \in 1 .. n |-> ((k + i - 1) % n) + 1]
<1>1. n \in Nat
  OBVIOUS
<1>2. ASSUME NEW i \in 1 .. n
      PROVE  k + i - 1 \in Nat /\ n \in Nat \ {0} /\ (k + i - 1) % n \in 0 .. n - 1
  <2>1. k + i - 1 \in Nat /\ n \in Nat \ {0}
    BY <1>1
  <2> HIDE DEF n
  <2> QED
    BY <2>1, Division
<1>7. \A i \in 1 .. n : ((k + i - 1) % n) + 1 \in 1 .. n
  BY <1>1, <1>2
<1>3. r \in [1 .. n -> 1 .. n]
  BY <1>7
<1>4. ASSUME NEW i \in 1 .. n, NEW j \in 1 .. n, i < j
      PROVE  r[i] # r[j]
  <2> HIDE DEF n
  <2>1. k + i - 1 < k + j - 1 /\ (k + j - 1) - (k + i - 1) < n
    BY <1>1, <1>4
  <2>2. (k + i - 1) % n # (k + j - 1) % n
    BY <1>2, <2>1, NearNumbersDiffer
  <2> DEFINE x == (k + i - 1) % n
             y == (k + j - 1) % n
  <2>3. r[i] = x + 1 /\ r[j] = y + 1 /\ x \in Int /\ y \in Int
    BY <1>2
  <2> HIDE DEF x, y, r
  <2>4. x # y
    BY <2>2 DEF x, y
  <2> QED
    BY <2>3, <2>4
<1>5. \A i, j \in 1 .. n : r[i] = r[j] => i = j
  <2> HIDE DEF r
  <2>1. \A i, j \in 1 .. n : i = j \/ i < j \/ j < i
    BY <1>1
  <2> QED
    BY <1>4, <2>1
<1>6. Takes(Rotated(s, k), s, r)
  BY DEF Rotated, Takes
<1> HIDE DEF r
<1> QED
  BY <1>3, <1>5, <1>6, Rearranged

\* Swapped() is another one.
LEMMA SwappedKeeps ==
    ASSUME NEW T, NEW s \in Seq(T), NEW i \in 1 .. Len(s), NEW j \in 1 .. Len(s)
    PROVE  /\ Swapped(s, i, j) \in Seq(T) /\ Len(Swapped(s, i, j)) = Len(s) /\ ToSet(Swapped(s, i, j)) = ToSet(s)
           /\ IsInjective(s) => IsInjective(Swapped(s, i, j))
           /\ \A k \in 1 .. Len(s) : Swapped(s, i, j)[k] = IF k = i THEN s[j] ELSE IF k = j THEN s[i] ELSE s[k]
<1> DEFINE n == Len(s)
           r == [k \in 1 .. n |-> IF k = i THEN j ELSE IF k = j THEN i ELSE k]
<1>1. DOMAIN s = 1 .. n
  OBVIOUS
<1>2. r \in [1 .. n -> 1 .. n] /\ \A k, l \in 1 .. n : r[k] = r[l] => k = l
  OBVIOUS
<1>3. \A k \in 1 .. n : s[r[k]] = IF k = i THEN s[j] ELSE IF k = j THEN s[i] ELSE s[k]
  OBVIOUS
<1>4. Swapped(s, i, j) = [k \in 1 .. n |-> IF k = i THEN s[j] ELSE IF k = j THEN s[i] ELSE s[k]]
  BY <1>1 DEF Swapped
<1> HIDE DEF r
<1>5. Takes(Swapped(s, i, j), s, r)
  BY <1>3, <1>4 DEF Takes
<1>6. /\ Swapped(s, i, j) \in Seq(T) /\ Len(Swapped(s, i, j)) = Len(s) /\ ToSet(Swapped(s, i, j)) = ToSet(s)
      /\ IsInjective(s) => IsInjective(Swapped(s, i, j))
  BY <1>2, <1>5, Rearranged
<1>7. \A k \in 1 .. Len(s) : Swapped(s, i, j)[k] = IF k = i THEN s[j] ELSE IF k = j THEN s[i] ELSE s[k]
  BY <1>4
<1> QED
  BY <1>6, <1>7

\* One list after another.
LEMMA Joined ==
    ASSUME NEW T, NEW s \in Seq(T), NEW t \in Seq(T)
    PROVE  /\ s \o t \in Seq(T) /\ Len(s \o t) = Len(s) + Len(t)
           /\ \A i \in 1 .. Len(s) + Len(t) : (s \o t)[i] = IF i <= Len(s) THEN s[i] ELSE t[i - Len(s)]
           /\ ToSet(s \o t) = ToSet(s) \union ToSet(t)
           /\ IsInjective(s) /\ IsInjective(t) /\ ToSet(s) \intersect ToSet(t) = {} => IsInjective(s \o t)
           /\ IsInjective(s \o t) => IsInjective(s) /\ IsInjective(t) /\ ToSet(s) \intersect ToSet(t) = {}
<1> DEFINE m == Len(s)
           n == Len(t)
           u == s \o t
<1>1. /\ u \in Seq(T) /\ Len(u) = m + n
      /\ \A i \in 1 .. m + n : u[i] = IF i <= m THEN s[i] ELSE t[i - m]
  BY ConcatProperties
<1>2. /\ m \in Nat /\ ToSet(s) = {s[i] : i \in 1 .. m}
      /\ IsInjective(s) <=> \A i, j \in 1 .. m : s[i] = s[j] => i = j
  BY Elements
<1>3. /\ n \in Nat /\ ToSet(t) = {t[i] : i \in 1 .. n}
      /\ IsInjective(t) <=> \A i, j \in 1 .. n : t[i] = t[j] => i = j
  BY Elements
<1> HIDE DEF u
<1>4. /\ ToSet(u) = {u[i] : i \in 1 .. m + n}
      /\ IsInjective(u) <=> \A i, j \in 1 .. m + n : u[i] = u[j] => i = j
  BY <1>1, Elements
<1> HIDE DEF m, n
<1>5. /\ \A i \in 1 .. m : i \in 1 .. m + n /\ u[i] = s[i]
      /\ \A i \in 1 .. n : i + m \in 1 .. m + n /\ u[i + m] = t[i]
      /\ \A i \in 1 .. m + n : i \in 1 .. m \/ (i - m \in 1 .. n /\ u[i] = t[i - m])
  <2>1. \A i \in 1 .. m : i \in 1 .. m + n /\ i <= m
    BY <1>2, <1>3
  <2>2. \A i \in 1 .. n : i + m \in 1 .. m + n /\ ~(i + m <= m) /\ (i + m) - m = i
    BY <1>2, <1>3
  <2>3. \A i \in 1 .. m + n : i \in 1 .. m \/ (i - m \in 1 .. n /\ ~(i <= m))
    BY <1>2, <1>3
  <2> QED
    BY <1>1, <2>1, <2>2, <2>3
<1>6. ToSet(u) = ToSet(s) \union ToSet(t)
  <2>1. ToSet(s) \subseteq ToSet(u)
    BY <1>2, <1>4, <1>5
  <2>2. ASSUME NEW i \in 1 .. n PROVE t[i] \in ToSet(u)
    <3>1. i + m \in 1 .. m + n /\ u[i + m] = t[i]
      BY <1>5
    <3> QED
      BY <1>4, <3>1
  <2>3. ASSUME NEW i \in 1 .. m + n PROVE u[i] \in ToSet(s) \union ToSet(t)
    BY <1>2, <1>3, <1>5
  <2> QED
    BY <1>3, <1>4, <2>1, <2>2, <2>3
<1>7. ASSUME IsInjective(s), IsInjective(t), ToSet(s) \intersect ToSet(t) = {} PROVE IsInjective(u)
  <2> SUFFICES ASSUME NEW i \in 1 .. m + n, NEW j \in 1 .. m + n, u[i] = u[j] PROVE i = j
    BY <1>4
  <2>5. i \in 1 .. m \/ (i - m \in 1 .. n /\ u[i] = t[i - m])
    BY <1>5
  <2>6. j \in 1 .. m \/ (j - m \in 1 .. n /\ u[j] = t[j - m])
    BY <1>5
  <2>1. CASE i \in 1 .. m /\ j \in 1 .. m
    BY <1>2, <1>5, <1>7, <2>1
  <2>2. CASE i \notin 1 .. m /\ j \notin 1 .. m
    <3>1. i - m = j - m
      BY <1>3, <1>7, <2>2, <2>5, <2>6
    <3> QED
      BY <1>2, <1>3, <3>1
  <2>3. CASE i \in 1 .. m /\ j \notin 1 .. m
    <3>1. u[i] \in ToSet(s) /\ u[j] \in ToSet(t)
      BY <1>2, <1>3, <1>5, <2>3, <2>6
    <3> QED
      BY <1>7, <3>1
  <2>4. CASE i \notin 1 .. m /\ j \in 1 .. m
    <3>1. u[j] \in ToSet(s) /\ u[i] \in ToSet(t)
      BY <1>2, <1>3, <1>5, <2>4, <2>5
    <3> QED
      BY <1>7, <3>1
  <2> QED
    BY <2>1, <2>2, <2>3, <2>4
<1>8. ASSUME IsInjective(u) PROVE IsInjective(s) /\ IsInjective(t) /\ ToSet(s) \intersect ToSet(t) = {}
  <2>1. IsInjective(s)
    BY <1>2, <1>4, <1>5, <1>8
  <2>2. IsInjective(t)
    BY <1>2, <1>3, <1>4, <1>5, <1>8
  <2>3. ASSUME NEW i \in 1 .. m, NEW j \in 1 .. n PROVE s[i] # t[j]
    <3>1. i # j + m
      BY <1>2, <1>3
    <3> QED
      BY <1>4, <1>5, <1>8, <3>1
  <2> QED
    BY <1>2, <1>3, <2>1, <2>2, <2>3
<1> QED
  BY <1>1, <1>6, <1>7, <1>8 DEF u, m, n

\* A list without repetitions has as many elements as places.
LEMMA Distinct ==
    ASSUME NEW T, NEW t \in Seq(T), IsInjective(t)
    PROVE  IsFiniteSet(ToSet(t)) /\ Cardinality(ToSet(t)) = Len(t)
<1> DEFINE n == Len(t)
           g == [i \in 1 .. n |-> t[i]]
<1>1. n \in Nat /\ ToSet(t) = {t[i] : i \in 1 .. n} /\ \A i, j \in 1 .. n : t[i] = t[j] => i = j
  BY Elements
<1> HIDE DEF n
<1>2. g \in Bijection(1 .. n, ToSet(t))
  <2>1. g \in [1 .. n -> ToSet(t)]
    BY <1>1
  <2>2. \A i, j \in 1 .. n : g[i] = g[j] => i = j
    BY <1>1
  <2>3. \A x \in ToSet(t) : \E i \in 1 .. n : g[i] = x
    BY <1>1
  <2> QED
    BY <2>1, <2>2, <2>3 DEF Bijection, Injection, Surjection, IsInjective
<1>3. ExistsBijection(1 .. n, ToSet(t))
  BY <1>2 DEF ExistsBijection
<1>4. IsFiniteSet(1 .. n) /\ Cardinality(1 .. n) = n
  <2>1. 1 \in Int /\ n \in Int
    BY <1>1
  <2>2. IsFiniteSet(1 .. n) /\ Cardinality(1 .. n) = IF 1 > n THEN 0 ELSE n - 1 + 1
    BY <2>1, FS_Interval
  <2> QED
    BY <1>1, <2>2
<1> QED
  BY <1>3, <1>4, FS_Bijection DEF n

-----------------------------------------------------------------------------
(* Plans of the wrappers.                                                  *)

\* The plan of the i-th wrapper around another plan.
WrappedOnce(plan, replicas, start, i) ==
    IF lbPolicy.wrappers[i] = "AllowList" THEN AllowListPlan(plan)
    ELSE IF replicas = << >> THEN plan
    ELSE TokenAwarePlan(plan, replicas, start, i)

\* A wrapper makes a list of hosts of a list of hosts.
LEMMA WrappedType ==
    ASSUME NEW plan \in Seq(Hosts), NEW replicas \in Seq(Hosts), NEW start \in Nat, NEW i
    PROVE  WrappedOnce(plan, replicas, start, i) \in Seq(Hosts)
<1> DEFINE near == Only(replicas, {h \in Hosts : Near(h, i + 1)})
           rest == Only(plan, Hosts \ ToSet(near))
<1>1. AllowListPlan(plan) \in Seq(Hosts)
  BY OnlyKeeps DEF AllowListPlan
<1>2. near \in Seq(Hosts) /\ rest \in Seq(Hosts)
  BY OnlyKeeps
<1>3. TokenAwarePlan(plan, replicas, start, i) = Rotated(near, start) \o rest
  BY DEF TokenAwarePlan
<1> HIDE DEF near, rest
<1>4. Rotated(near, start) \in Seq(Hosts)
  BY <1>2, RotatedKeeps
<1>5. TokenAwarePlan(plan, replicas, start, i) \in Seq(Hosts)
  BY <1>2, <1>3, <1>4, Joined
<1> QED
  BY <1>1, <1>5 DEF WrappedOnce

\* The steps of the recursive definition of WrappedPlan().
WrapSteps(base, replicas, start) ==
    {f \in [0 .. Len(lbPolicy.wrappers) -> Seq(Hosts)] :
        /\ f[0] = base
        /\ \A k \in 1 .. Len(lbPolicy.wrappers) :
              f[k] = WrappedOnce(f[k - 1], replicas, start, Len(lbPolicy.wrappers) - k + 1)}

\* WrappedPlan() is what its recursive definition says.
LEMMA WrappedUnfolds ==
    ASSUME NEW base \in Seq(Hosts), NEW replicas \in Seq(Hosts), NEW start \in Nat, Len(lbPolicy.wrappers) \in Nat
    PROVE  \E f \in WrapSteps(base, replicas, start) : WrappedPlan(base, replicas, start) = f[Len(lbPolicy.wrappers)]
<1> DEFINE n == Len(lbPolicy.wrappers)
           D == Seq(Hosts)
           step == [k \in 1 .. n |-> [t \in D |-> WrappedOnce(t, replicas, start, n - k + 1)]]
           Rec(f) == [k \in 0 .. n |-> IF k = 0 THEN base ELSE WrappedOnce(f[k - 1], replicas, start, n - k + 1)]
<1>1. \A t \in D : \A i : WrappedOnce(t, replicas, start, i) \in D
  BY WrappedType
<1>2. n \in Nat /\ base \in D
  OBVIOUS
<1> HIDE DEF D, n
<1>3. step \in [1 .. n -> [D -> D]]
  BY <1>1
<1>4. \A k \in 1 .. n, t \in D : step[k][t] = WrappedOnce(t, replicas, start, n - k + 1)
  OBVIOUS
<1> HIDE DEF step
<1>5. StepByStep(D, n, base, step) # {}
  BY <1>2, <1>3, RecursionMade
<1>6. PICK f \in [0 .. n -> D] : f[0] = base /\ \A i \in 1 .. n : f[i] = step[i][f[i - 1]]
  BY <1>5 DEF StepByStep
<1>7. ASSUME NEW k \in 0 .. n
      PROVE  f[k] = IF k = 0 THEN base ELSE WrappedOnce(f[k - 1], replicas, start, n - k + 1)
  <2>1. CASE k = 0
    BY <1>6, <2>1
  <2>2. CASE k # 0
    <3>1. k \in 1 .. n /\ k - 1 \in 0 .. n
      BY <1>2, <2>2
    <3>2. f[k - 1] \in D /\ f[k] = step[k][f[k - 1]]
      BY <1>6, <3>1
    <3> QED
      BY <1>4, <2>2, <3>1, <3>2
  <2> QED
    BY <2>1, <2>2
<1>8. f = [k \in 0 .. n |-> f[k]]
  OBVIOUS
<1>9. f = Rec(f)
  BY <1>7, <1>8, Zenon
<1> DEFINE g == CHOOSE x : x = Rec(x)
<1>10. g = Rec(g)
  BY <1>9, Zenon
<1>11. WrappedPlan(base, replicas, start) = g[n]
  BY DEF WrappedPlan, WrappedOnce, n
<1> HIDE DEF g
<1>12. \A k \in 0 .. n : g[k] = IF k = 0 THEN base ELSE WrappedOnce(g[k - 1], replicas, start, n - k + 1)
  BY <1>10, Zenon
<1>13. g[0] = base /\ 0 \in 0 .. n
  <2>1. 0 \in 0 .. n
    BY <1>2
  <2> QED
    BY <1>12, <2>1, Zenon
<1>14. ASSUME NEW k \in 1 .. n PROVE g[k] = WrappedOnce(g[k - 1], replicas, start, n - k + 1)
  <2>1. k \in 0 .. n /\ k # 0
    BY <1>2
  <2> QED
    BY <1>12, <2>1, Zenon
<1> DEFINE S == {k \in 0 .. n : g[k] \in D}
<1>15. 0 \in S
  BY <1>2, <1>13
<1>16. ASSUME NEW k \in 1 .. n, k - 1 \in S PROVE k \in S
  <2>1. k \in 0 .. n
    BY <1>2
  <2> QED
    BY <1>1, <1>14, <1>16, <2>1
<1> HIDE DEF S
<1>17. 0 .. n \subseteq S
  BY <1>2, <1>15, <1>16, UpTo
<1>18. g = [k \in 0 .. n |-> g[k]]
  BY <1>10, Zenon
<1>19. g \in [0 .. n -> D]
  BY <1>17, <1>18 DEF S
<1> QED
  BY <1>11, <1>13, <1>14, <1>19 DEF WrapSteps, n, D

\* The hosts of the set come before the others.
InFront(s, hosts) == \A i, j \in 1 .. Len(s) : i < j /\ s[j] \in hosts => s[i] \in hosts

\* Near() of a wrapper and of what it wraps.
LEMMA NearStep ==
    ASSUME NEW i \in Nat, i <= Len(lbPolicy.wrappers), Len(lbPolicy.wrappers) \in Nat, NEW h
    PROVE  Near(h, i) <=> Near(h, i + 1) /\ (lbPolicy.wrappers[i] = "AllowList" => h \in lbPolicy.allowList)
<1>1. \A j : j \in i .. Len(lbPolicy.wrappers) <=> j = i \/ j \in i + 1 .. Len(lbPolicy.wrappers)
  OBVIOUS
<1> QED
  BY <1>1 DEF Near

\* Leaving hosts out keeps the others in order.
LEMMA OnlyInFront ==
    ASSUME NEW s \in Seq(Hosts), NEW keep, NEW hosts, InFront(s, hosts)
    PROVE  InFront(Only(s, keep), hosts \intersect keep)
<1> DEFINE t == Only(s, keep)
<1>1. t \in Seq(Hosts) /\ ToSet(t) = ToSet(s) \intersect keep /\ Ordered(t, s)
  BY OnlyKeeps
<1> HIDE DEF t
<1> SUFFICES ASSUME NEW i \in 1 .. Len(t), NEW j \in 1 .. Len(t), i < j, t[j] \in hosts
             PROVE  t[i] \in hosts /\ t[i] \in keep
  BY DEF InFront, t
<1>2. PICK k, l \in 1 .. Len(s) : k < l /\ s[k] = t[i] /\ s[l] = t[j]
  BY <1>1 DEF Ordered
<1>3. t[i] \in hosts
  BY <1>2 DEF InFront
<1>4. t[i] \in ToSet(t)
  BY <1>1, Elements
<1> QED
  BY <1>1, <1>3, <1>4

\* What is put in front is in front.
LEMMA JoinedInFront ==
    ASSUME NEW s \in Seq(Hosts), NEW t \in Seq(Hosts), ToSet(s) \intersect ToSet(t) = {}
    PROVE  InFront(s \o t, ToSet(s))
<1> DEFINE u == s \o t
           m == Len(s)
           n == Len(t)
<1>1. m \in Nat /\ n \in Nat /\ Len(u) = m + n /\ \A i \in 1 .. m + n : u[i] = IF i <= m THEN s[i] ELSE t[i - m]
  BY Joined
<1>2. (\A i \in 1 .. m : s[i] \in ToSet(s)) /\ (\A i \in 1 .. n : t[i] \in ToSet(t))
  BY Elements
<1> HIDE DEF u, m, n
<1> SUFFICES ASSUME NEW i \in 1 .. m + n, NEW j \in 1 .. m + n, i < j, u[j] \in ToSet(s)
             PROVE  u[i] \in ToSet(s)
  BY <1>1 DEF InFront, u
<1>3. j <= m
  <2> SUFFICES ASSUME ~(j <= m) PROVE FALSE
    OBVIOUS
  <2>1. u[j] = t[j - m] /\ j - m \in 1 .. n
    BY <1>1
  <2> QED
    BY <1>2, <2>1
<1>4. i \in 1 .. m /\ i <= m
  BY <1>1, <1>3
<1> QED
  BY <1>1, <1>2, <1>4

\* What a plan of the wrappers from the i-th inwards is, of the hosts of the set all.
WrapKept(plan, replicas, all, i) ==
    /\ plan \in Seq(Hosts) /\ IsInjective(plan)
    /\ ToSet(plan) = {h \in all : Near(h, i)}
    /\ (\E j \in i .. Len(lbPolicy.wrappers) : lbPolicy.wrappers[j] = "TokenAware") =>
           InFront(plan, {h \in ToSet(replicas) : Near(h, i)})

\* One more wrapper keeps it.
LEMMA WrappedOnceKeeps ==
    ASSUME NEW all \in SUBSET Hosts, NEW replicas \in Seq(Hosts), NEW start \in Nat, NEW plan,
           IsInjective(replicas), ToSet(replicas) \subseteq all,
           lbPolicy.wrappers \in Seq({"TokenAware", "AllowList"}),
           NEW i \in 1 .. Len(lbPolicy.wrappers), WrapKept(plan, replicas, all, i + 1)
    PROVE  WrapKept(WrappedOnce(plan, replicas, start, i), replicas, all, i)
<1> DEFINE n == Len(lbPolicy.wrappers)
           w == WrappedOnce(plan, replicas, start, i)
           inner == {h \in ToSet(replicas) : Near(h, i + 1)}
           outer == {h \in ToSet(replicas) : Near(h, i)}
<1>1. /\ n \in Nat /\ lbPolicy.wrappers[i] \in {"TokenAware", "AllowList"} /\ i \in Nat /\ i <= n
      /\ \A j : j \in i .. n <=> j = i \/ j \in i + 1 .. n
  OBVIOUS
<1>2. /\ plan \in Seq(Hosts) /\ IsInjective(plan)
      /\ ToSet(plan) = {h \in all : Near(h, i + 1)}
      /\ (\E j \in i + 1 .. n : lbPolicy.wrappers[j] = "TokenAware") => InFront(plan, inner)
  BY DEF WrapKept
<1>3. \A h : Near(h, i) <=> Near(h, i + 1) /\ (lbPolicy.wrappers[i] = "AllowList" => h \in lbPolicy.allowList)
  BY <1>1, NearStep
<1>4. ToSet(replicas) \subseteq Hosts
  BY Elements
<1> HIDE DEF w, n
<1>5. CASE lbPolicy.wrappers[i] = "AllowList"
  <2>1. w = Only(plan, lbPolicy.allowList)
    BY <1>5 DEF w, WrappedOnce, AllowListPlan
  <2>2. w \in Seq(Hosts) /\ ToSet(w) = ToSet(plan) \intersect lbPolicy.allowList /\ Ordered(w, plan)
    BY <1>2, <2>1, OnlyKeeps
  <2>3. IsInjective(w)
    BY <1>2, <2>2, OrderedOnce
  <2>4. ToSet(w) = {h \in all : Near(h, i)}
    BY <1>2, <1>3, <1>5, <2>2
  <2>5. ASSUME \E j \in i .. n : lbPolicy.wrappers[j] = "TokenAware"
        PROVE  InFront(w, outer)
    <3>1. \E j \in i + 1 .. n : lbPolicy.wrappers[j] = "TokenAware"
      BY <1>1, <1>5, <2>5
    <3>2. InFront(plan, inner)
      BY <1>2, <3>1
    <3>3. inner \intersect lbPolicy.allowList = outer
      BY <1>3, <1>5
    <3> HIDE DEF inner, outer
    <3>4. InFront(Only(plan, lbPolicy.allowList), inner \intersect lbPolicy.allowList)
      BY <1>2, <3>2, OnlyInFront
    <3> QED
      BY <2>1, <3>3, <3>4
  <2> QED
    BY <2>2, <2>3, <2>4, <2>5 DEF WrapKept, n, w
<1>6. CASE lbPolicy.wrappers[i] = "TokenAware"
  <2>1. \A h : Near(h, i) <=> Near(h, i + 1)
    BY <1>3, <1>6
  <2>2. CASE replicas = << >>
    <3>1. w = plan
      BY <1>6, <2>2 DEF w, WrappedOnce
    <3>2. ToSet(replicas) = {}
      BY <2>2 DEF ToSet
    <3>3. InFront(w, outer)
      BY <3>2 DEF InFront
    <3>4. ToSet(plan) = {h \in all : Near(h, i)}
      BY <1>2, <2>1
    <3> QED
      BY <1>2, <3>1, <3>3, <3>4 DEF WrapKept, w
  <2>3. CASE replicas # << >>
    <3> DEFINE near == Only(replicas, {h \in Hosts : Near(h, i + 1)})
               first == Rotated(near, start)
               rest == Only(plan, Hosts \ ToSet(near))
    <3>1. w = first \o rest
      BY <1>6, <2>3 DEF w, WrappedOnce, TokenAwarePlan
    <3>2. /\ near \in Seq(Hosts) /\ Ordered(near, replicas)
          /\ ToSet(near) = ToSet(replicas) \intersect {h \in Hosts : Near(h, i + 1)}
      BY OnlyKeeps
    <3> HIDE DEF near
    <3>3. ToSet(near) = outer
      BY <1>4, <2>1, <3>2
    <3>4. IsInjective(near)
      BY <3>2, OrderedOnce
    <3>5. first \in Seq(Hosts) /\ ToSet(first) = outer /\ IsInjective(first)
      BY <3>2, <3>3, <3>4, RotatedKeeps
    <3>6. rest \in Seq(Hosts) /\ ToSet(rest) = ToSet(plan) \intersect (Hosts \ outer) /\ Ordered(rest, plan)
      BY <1>2, <3>3, OnlyKeeps
    <3> HIDE DEF first, rest
    <3>7. IsInjective(rest)
      BY <1>2, <3>6, OrderedOnce
    <3>8. ToSet(first) \intersect ToSet(rest) = {}
      BY <3>5, <3>6
    <3>9. w \in Seq(Hosts) /\ ToSet(w) = ToSet(first) \union ToSet(rest) /\ IsInjective(w)
      BY <3>1, <3>5, <3>6, <3>7, <3>8, Joined
    <3>10. outer \subseteq {h \in all : Near(h, i)} /\ ToSet(plan) = {h \in all : Near(h, i)}
      BY <1>2, <2>1
    <3>11. ToSet(w) = {h \in all : Near(h, i)}
      BY <3>5, <3>6, <3>9, <3>10
    <3>12. InFront(w, outer)
      BY <3>1, <3>5, <3>6, <3>8, JoinedInFront
    <3> QED
      BY <3>9, <3>11, <3>12 DEF WrapKept, w
  <2> QED
    BY <2>2, <2>3
<1> QED
  BY <1>1, <1>5, <1>6

\* The plan of all the wrappers: the hosts that the outermost considers near, each once, and
\* the replicas among them first if any of the wrappers is token aware.
LEMMA WrappedPlanKeeps ==
    ASSUME NEW all \in SUBSET Hosts, NEW replicas \in Seq(Hosts), NEW start \in Nat, NEW base \in Seq(Hosts),
           IsInjective(replicas), ToSet(replicas) \subseteq all, IsInjective(base),
           lbPolicy.wrappers \in Seq({"TokenAware", "AllowList"}),
           ToSet(base) = {h \in all : Near(h, Len(lbPolicy.wrappers) + 1)}
    PROVE  WrapKept(WrappedPlan(base, replicas, start), replicas, all, 1)
<1> DEFINE n == Len(lbPolicy.wrappers)
<1>1. n \in Nat
  OBVIOUS
<1>2. PICK f \in WrapSteps(base, replicas, start) : WrappedPlan(base, replicas, start) = f[n]
  BY <1>1, WrappedUnfolds
<1>3. /\ f[0] = base
      /\ \A k \in 1 .. n : f[k] = WrappedOnce(f[k - 1], replicas, start, n - k + 1)
  BY DEF WrapSteps
<1> DEFINE S == {k \in 0 .. n : WrapKept(f[k], replicas, all, n - k + 1)}
<1>4. 0 \in S
  <2>1. 0 \in 0 .. n /\ n - 0 + 1 = n + 1 /\ n + 1 .. n = {}
    BY <1>1
  <2>2. WrapKept(base, replicas, all, n + 1)
    BY <2>1 DEF WrapKept
  <2> QED
    BY <1>3, <2>1, <2>2
<1>5. ASSUME NEW k \in 1 .. n, k - 1 \in S PROVE k \in S
  <2> DEFINE i == n - k + 1
  <2>1. k \in 0 .. n /\ i \in 1 .. n /\ n - (k - 1) + 1 = i + 1
    BY <1>1
  <2>2. WrapKept(f[k - 1], replicas, all, i + 1)
    BY <1>5, <2>1
  <2>3. f[k] = WrappedOnce(f[k - 1], replicas, start, i)
    BY <1>3
  <2> HIDE DEF i
  <2>4. WrapKept(WrappedOnce(f[k - 1], replicas, start, i), replicas, all, i)
    BY <2>1, <2>2, WrappedOnceKeeps
  <2> QED
    BY <2>1, <2>3, <2>4 DEF i
<1> HIDE DEF S
<1>6. 0 .. n \subseteq S
  BY <1>1, <1>4, <1>5, UpTo
<1>7. n \in S
  BY <1>1, <1>6
<1>8. WrapKept(f[n], replicas, all, n - n + 1) /\ n - n + 1 = 1
  BY <1>1, <1>7 DEF S
<1> QED
  BY <1>2, <1>8

-----------------------------------------------------------------------------
(* The order of the replicas.                                              *)

\* One turn of the loop of _sendUnhealthyToTheBack(), for the i-th replica.
SentBack(prev, n, unhealthy, i) ==
    IF prev.counter >= unhealthy \/ ~Unhealthy(prev.seq[i]) THEN prev
    ELSE [seq |-> Swapped(prev.seq, n - prev.counter, i), counter |-> prev.counter + 1]

\* What the loop works on: a list of n hosts, of which so many were sent back.
Backs(n) == {prev \in [seq : Seq(Hosts), counter : 0 .. n] : Len(prev.seq) = n}

\* A turn of it.
LEMMA SentBackType ==
    ASSUME NEW n \in Nat, NEW unhealthy \in 0 .. n, NEW prev \in Backs(n), NEW i \in 1 .. n
    PROVE  SentBack(prev, n, unhealthy, i) \in Backs(n)
<1> DEFINE c == prev.counter
           t == Swapped(prev.seq, n - c, i)
<1>1. c \in 0 .. n /\ prev.seq \in Seq(Hosts) /\ Len(prev.seq) = n
  BY DEF Backs
<1>2. CASE c >= unhealthy \/ ~Unhealthy(prev.seq[i])
  BY <1>2 DEF SentBack
<1>3. CASE ~(c >= unhealthy) /\ Unhealthy(prev.seq[i])
  <2>1. n - c \in 1 .. n /\ c + 1 \in 0 .. n
    BY <1>1, <1>3
  <2>2. t \in Seq(Hosts) /\ Len(t) = n
    <3> DEFINE q == prev.seq
               m == n - c
    <3>1. q \in Seq(Hosts) /\ Len(q) = n /\ m \in 1 .. Len(q) /\ i \in 1 .. Len(q) /\ t = Swapped(q, m, i)
      BY <1>1, <2>1
    <3> HIDE DEF c, m, q, t
    <3>2. Swapped(q, m, i) \in Seq(Hosts) /\ Len(Swapped(q, m, i)) = Len(q)
      BY <3>1, SwappedKeeps
    <3> QED
      BY <3>1, <3>2
  <2>3. SentBack(prev, n, unhealthy, i) = [seq |-> t, counter |-> c + 1]
    BY <1>3 DEF SentBack
  <2> HIDE DEF t, c
  <2> QED
    BY <2>1, <2>2, <2>3 DEF Backs
<1> QED
  BY <1>2, <1>3

\* The steps of the recursive definition of SendUnhealthyToTheBack().
BackSteps(s, unhealthy) ==
    {f \in [0 .. Len(s) -> Backs(Len(s))] :
        /\ f[0] = [seq |-> s, counter |-> 0]
        /\ \A k \in 1 .. Len(s) : f[k] = SentBack(f[k - 1], Len(s), unhealthy, Len(s) - k + 1)}

\* SendUnhealthyToTheBack() is what its recursive definition says.
LEMMA BackUnfolds ==
    ASSUME NEW s \in Seq(Hosts), NEW unhealthy \in 0 .. Len(s)
    PROVE  \E f \in BackSteps(s, unhealthy) : SendUnhealthyToTheBack(s, unhealthy) = f[Len(s)].seq
<1> DEFINE n == Len(s)
           D == Backs(n)
           first == [seq |-> s, counter |-> 0]
           step == [k \in 1 .. n |-> [t \in D |-> SentBack(t, n, unhealthy, n - k + 1)]]
           Rec(f) == [k \in 0 .. n |-> IF k = 0 THEN first ELSE SentBack(f[k - 1], n, unhealthy, n - k + 1)]
<1>2. n \in Nat /\ first \in D
  BY DEF Backs
<1>1. \A t \in D, i \in 1 .. n : SentBack(t, n, unhealthy, i) \in D
  BY SentBackType
<1>20. \A k \in 1 .. n : n - k + 1 \in 1 .. n
  BY <1>2
<1> HIDE DEF D, n, first
<1>3. step \in [1 .. n -> [D -> D]]
  BY <1>1, <1>20
<1>4. \A k \in 1 .. n, t \in D : step[k][t] = SentBack(t, n, unhealthy, n - k + 1)
  OBVIOUS
<1> HIDE DEF step
<1>5. StepByStep(D, n, first, step) # {}
  BY <1>2, <1>3, RecursionMade
<1>6. PICK f \in [0 .. n -> D] : f[0] = first /\ \A i \in 1 .. n : f[i] = step[i][f[i - 1]]
  BY <1>5 DEF StepByStep
<1>7. ASSUME NEW k \in 0 .. n
      PROVE  f[k] = IF k = 0 THEN first ELSE SentBack(f[k - 1], n, unhealthy, n - k + 1)
  <2>1. CASE k = 0
    BY <1>6, <2>1
  <2>2. CASE k # 0
    <3>1. k \in 1 .. n /\ k - 1 \in 0 .. n
      BY <1>2, <2>2
    <3>2. f[k - 1] \in D /\ f[k] = step[k][f[k - 1]]
      BY <1>6, <3>1
    <3> QED
      BY <1>4, <2>2, <3>1, <3>2
  <2> QED
    BY <2>1, <2>2
<1>8. f = [k \in 0 .. n |-> f[k]]
  OBVIOUS
<1>9. f = Rec(f)
  BY <1>7, <1>8, Zenon
<1> DEFINE g == CHOOSE x : x = Rec(x)
<1>10. g = Rec(g)
  BY <1>9, Zenon
<1>11. SendUnhealthyToTheBack(s, unhealthy) = g[n].seq
  BY DEF SendUnhealthyToTheBack, SentBack, n, first
<1> HIDE DEF g
<1>12. \A k \in 0 .. n : g[k] = IF k = 0 THEN first ELSE SentBack(g[k - 1], n, unhealthy, n - k + 1)
  BY <1>10, Zenon
<1>13. g[0] = first /\ 0 \in 0 .. n
  <2>1. 0 \in 0 .. n
    BY <1>2
  <2> QED
    BY <1>12, <2>1, Zenon
<1>14. ASSUME NEW k \in 1 .. n PROVE g[k] = SentBack(g[k - 1], n, unhealthy, n - k + 1)
  <2>1. k \in 0 .. n /\ k # 0
    BY <1>2
  <2> QED
    BY <1>12, <2>1, Zenon
<1> DEFINE S == {k \in 0 .. n : g[k] \in D}
<1>15. 0 \in S
  BY <1>2, <1>13
<1>16. ASSUME NEW k \in 1 .. n, k - 1 \in S PROVE k \in S
  <2>1. k \in 0 .. n
    BY <1>2
  <2> QED
    BY <1>1, <1>14, <1>16, <1>20, <2>1
<1> HIDE DEF S
<1>17. 0 .. n \subseteq S
  BY <1>2, <1>15, <1>16, UpTo
<1>18. g = [k \in 0 .. n |-> g[k]]
  BY <1>10, Zenon
<1>19. g \in [0 .. n -> D]
  BY <1>17, <1>18 DEF S
<1> QED
  BY <1>11, <1>13, <1>14, <1>19 DEF BackSteps, n, D, first

\* The list t has the hosts of the list s, each once.
Permutes(t, s) == t \in Seq(Hosts) /\ Len(t) = Len(s) /\ ToSet(t) = ToSet(s) /\ IsInjective(t)

Stuck(s) == {h \in ToSet(s) : Unhealthy(h)}

\* After k turns of the loop the replicas that were sent back are at the end, and between
\* them and the ones that are still to be looked at there is no unhealthy one.
BackKept(prev, s, k) ==
    /\ Permutes(prev.seq, s)
    /\ prev.counter \in 0 .. k
    /\ \A i \in Len(s) - prev.counter + 1 .. Len(s) : Unhealthy(prev.seq[i])
    /\ \A i \in Len(s) - k + 1 .. Len(s) - prev.counter : ~Unhealthy(prev.seq[i])

\* When as many were sent back as there are, no other is unhealthy.
LEMMA AllAreBack ==
    ASSUME NEW s \in Seq(Hosts), NEW t, Permutes(t, s), NEW c \in 0 .. Len(s), c >= Cardinality(Stuck(s)),
           \A i \in Len(s) - c + 1 .. Len(s) : Unhealthy(t[i]),
           NEW m \in 1 .. Len(s) - c
    PROVE  ~Unhealthy(t[m])
<1> DEFINE n == Len(s)
           back == n - c + 1 .. n
           B == {t[i] : i \in back}
           f == [i \in back |-> t[i]]
<1>1. n \in Nat /\ c \in Nat /\ \A i \in back : i \in 1 .. n /\ i # m
  OBVIOUS
<1>2. m \in 1 .. n
  OBVIOUS
<1>3. /\ t \in Seq(Hosts) /\ Len(t) = n /\ ToSet(t) = ToSet(s)
      /\ ToSet(t) = {t[i] : i \in 1 .. n} /\ \A i, j \in 1 .. n : t[i] = t[j] => i = j
  BY Elements DEF Permutes
<1>4. ToSet(s) = {s[i] : i \in 1 .. n}
  BY Elements
<1> HIDE DEF n
<1>5. IsFiniteSet(back) /\ Cardinality(back) = c
  <2>1. n - c + 1 \in Int /\ n \in Int
    BY <1>1
  <2>2. IsFiniteSet(back) /\ Cardinality(back) = IF n - c + 1 > n THEN 0 ELSE n - (n - c + 1) + 1
    BY <2>1, FS_Interval
  <2> QED
    BY <1>1, <2>2 DEF n
<1>6. f \in Bijection(back, B)
  <2>1. f \in [back -> B]
    OBVIOUS
  <2>2. \A i, j \in back : f[i] = f[j] => i = j
    BY <1>1, <1>3
  <2>3. \A x \in B : \E i \in back : f[i] = x
    OBVIOUS
  <2> QED
    BY <2>1, <2>2, <2>3 DEF Bijection, Injection, Surjection, IsInjective
<1>7. ExistsBijection(back, B)
  BY <1>6 DEF ExistsBijection
<1> HIDE DEF back, B, f
<1>8. Cardinality(B) = c
  BY <1>5, <1>7, FS_Bijection
<1>9. B \subseteq Stuck(s)
  BY <1>1, <1>3 DEF Stuck, B, back, n
<1>10. IsFiniteSet(ToSet(s))
  <2>1. IsFiniteSet(ToSet(t))
    BY Distinct DEF Permutes
  <2> QED
    BY <1>3, <2>1
<1>11. IsFiniteSet(Stuck(s))
  BY <1>10, FS_Subset DEF Stuck
<1>12. Cardinality(Stuck(s)) = Cardinality(B)
  <2>1. Cardinality(B) <= Cardinality(Stuck(s))
    BY <1>9, <1>11, FS_Subset
  <2>2. Cardinality(Stuck(s)) \in Nat
    BY <1>11, FS_CardinalityType
  <2> QED
    BY <1>1, <1>8, <2>1, <2>2
<1>13. Stuck(s) = B
  BY <1>9, <1>11, <1>12, FS_Subset
<1>14. t[m] \notin B
  BY <1>1, <1>2, <1>3 DEF B
<1>15. t[m] \in ToSet(s)
  BY <1>2, <1>3
<1> QED
  BY <1>13, <1>14, <1>15 DEF Stuck

\* A turn of the loop keeps that.
LEMMA SentBackKeeps ==
    ASSUME NEW s \in Seq(Hosts), NEW unhealthy, unhealthy = Cardinality(Stuck(s)),
           unhealthy \in 0 .. Len(s),
           NEW k \in 1 .. Len(s), NEW prev \in Backs(Len(s)), BackKept(prev, s, k - 1)
    PROVE  BackKept(SentBack(prev, Len(s), unhealthy, Len(s) - k + 1), s, k)
<1> DEFINE n == Len(s)
           c == prev.counter
           q == prev.seq
           i == n - k + 1
           next == SentBack(prev, n, unhealthy, i)
<1>1. /\ q \in Seq(Hosts) /\ Len(q) = n /\ ToSet(q) = ToSet(s) /\ IsInjective(q)
      /\ c \in 0 .. k - 1
      /\ \A j \in n - c + 1 .. n : Unhealthy(q[j])
      /\ \A j \in n - (k - 1) + 1 .. n - c : ~Unhealthy(q[j])
  BY DEF BackKept, Permutes
<1>2. n \in Nat /\ k \in 1 .. n /\ i \in 1 .. n /\ i <= n - c /\ n - c \in 1 .. n /\ c \in 0 .. k /\ c + 1 \in 0 .. k /\ c \in 0 .. n
  BY <1>1
<1>3. ASSUME NEW j \in i .. n - c PROVE j = i \/ j \in n - (k - 1) + 1 .. n - c
  <2> HIDE DEF c, n
  <2> QED
    BY <1>2
<1>4. CASE c >= unhealthy \/ ~Unhealthy(q[i])
  <2>1. next = prev
    BY <1>4 DEF SentBack
  <2>2. ~Unhealthy(q[i])
    <3>1. CASE c >= unhealthy
      <4>1. Permutes(q, s) /\ i \in 1 .. n - c
        BY <1>1, <1>2 DEF Permutes
      <4> HIDE DEF q, i, c
      <4> QED
        BY <1>1, <1>2, <3>1, <4>1, AllAreBack
    <3> QED
      BY <1>4, <3>1
  <2>3. \A j \in n - k + 1 .. n - c : ~Unhealthy(q[j])
    BY <1>1, <1>3, <2>2
  <2> QED
    BY <1>1, <1>2, <2>1, <2>3 DEF BackKept, Permutes
<1>5. CASE ~(c >= unhealthy) /\ Unhealthy(q[i])
  <2> DEFINE t == Swapped(q, n - c, i)
  <2>1. next = [seq |-> t, counter |-> c + 1]
    BY <1>5 DEF SentBack
  <2>2. /\ t \in Seq(Hosts) /\ Len(t) = n /\ ToSet(t) = ToSet(q) /\ IsInjective(t)
        /\ \A j \in 1 .. n : t[j] = IF j = n - c THEN q[i] ELSE IF j = i THEN q[n - c] ELSE q[j]
    <3> DEFINE m == n - c
    <3>1. /\ q \in Seq(Hosts) /\ IsInjective(q)
          /\ m \in 1 .. Len(q) /\ i \in 1 .. Len(q) /\ t = Swapped(q, m, i) /\ m = n - c
      BY <1>1, <1>2
    <3> HIDE DEF q, i, c, m, t
    <3>2. /\ Swapped(q, m, i) \in Seq(Hosts) /\ Len(Swapped(q, m, i)) = Len(q)
          /\ ToSet(Swapped(q, m, i)) = ToSet(q)
      BY <3>1, SwappedKeeps
    <3>3. IsInjective(Swapped(q, m, i))
      BY <3>1, SwappedKeeps
    <3>4. \A j \in 1 .. Len(q) : Swapped(q, m, i)[j] = IF j = m THEN q[i] ELSE IF j = i THEN q[m] ELSE q[j]
      <4>1. DOMAIN q = 1 .. Len(q)
        BY <3>1
      <4> QED
        BY <4>1 DEF Swapped
    <3> QED
      BY <1>1, <3>1, <3>2, <3>3, <3>4
  <2> HIDE DEF t
  <2>3. ASSUME NEW j \in n - (c + 1) + 1 .. n PROVE Unhealthy(t[j])
    <3>1. j \in 1 .. n /\ (j = n - c \/ (j \in n - c + 1 .. n /\ j # n - c /\ j # i))
      BY <1>2
    <3> QED
      BY <1>1, <1>5, <2>2, <3>1
  <2>4. ASSUME NEW j \in n - k + 1 .. n - (c + 1) PROVE ~Unhealthy(t[j])
    <3>1. j \in 1 .. n /\ j # n - c /\ (j = i \/ j \in n - (k - 1) + 1 .. n - c)
      BY <1>1, <1>2, <1>3
    <3>2. CASE j = i
      <4>1. n - c \in n - (k - 1) + 1 .. n - c
        BY <1>1, <1>2, <3>1, <3>2
      <4> QED
        BY <1>1, <2>2, <3>1, <3>2, <4>1
    <3>3. CASE j # i
      BY <1>1, <2>2, <3>1, <3>3
    <3> QED
      BY <3>2, <3>3
  <2>5. next.seq = t /\ next.counter = c + 1
    BY <2>1
  <2> HIDE DEF next
  <2> QED
    BY <1>1, <1>2, <2>2, <2>3, <2>4, <2>5 DEF BackKept, Permutes, next
<1> QED
  BY <1>4, <1>5

\* No healthy replica comes after an unhealthy one.
StuckLast(t) == \A i, j \in 1 .. Len(t) : i < j /\ Unhealthy(t[i]) => Unhealthy(t[j])

\* When the loop of _sendUnhealthyToTheBack() has ended, the unhealthy replicas are the last ones.
LEMMA UnhealthyAreLast ==
    ASSUME NEW s \in Seq(Hosts), IsInjective(s), NEW unhealthy, unhealthy = Cardinality(Stuck(s)), unhealthy \in 0 .. Len(s)
    PROVE  /\ Permutes(SendUnhealthyToTheBack(s, unhealthy), s)
           /\ StuckLast(SendUnhealthyToTheBack(s, unhealthy))
<1> DEFINE n == Len(s)
<1>1. n \in Nat
  OBVIOUS
<1>2. PICK f \in BackSteps(s, unhealthy) : SendUnhealthyToTheBack(s, unhealthy) = f[n].seq
  BY BackUnfolds
<1>3. /\ f \in [0 .. n -> Backs(n)] /\ f[0] = [seq |-> s, counter |-> 0]
      /\ \A k \in 1 .. n : f[k] = SentBack(f[k - 1], n, unhealthy, n - k + 1)
  BY DEF BackSteps
<1> DEFINE S == {k \in 0 .. n : BackKept(f[k], s, k)}
<1>4. 0 \in S
  <2>1. 0 \in 0 .. n /\ n - 0 + 1 .. n - 0 = {} /\ n - 0 + 1 .. n = {}
    BY <1>1
  <2>2. f[0].seq = s /\ f[0].counter = 0
    BY <1>3
  <2>3. BackKept(f[0], s, 0)
    BY <2>1, <2>2 DEF BackKept, Permutes
  <2> QED
    BY <2>1, <2>3
<1>5. ASSUME NEW k \in 1 .. n, k - 1 \in S PROVE k \in S
  <2>1. k \in 0 .. n /\ k - 1 \in 0 .. n /\ f[k - 1] \in Backs(n) /\ BackKept(f[k - 1], s, k - 1)
    BY <1>1, <1>3, <1>5
  <2>2. f[k] = SentBack(f[k - 1], n, unhealthy, n - k + 1)
    BY <1>3
  <2>3. BackKept(SentBack(f[k - 1], n, unhealthy, n - k + 1), s, k)
    BY <2>1, SentBackKeeps
  <2> QED
    BY <2>1, <2>2, <2>3
<1> HIDE DEF S
<1>6. 0 .. n \subseteq S
  BY <1>1, <1>4, <1>5, UpTo
<1>7. n \in S
  BY <1>1, <1>6
<1>8. BackKept(f[n], s, n)
  BY <1>7 DEF S
<1> DEFINE t == f[n].seq
           c == f[n].counter
<1>9. /\ Permutes(t, s) /\ Len(t) = n /\ c \in 0 .. n
      /\ \A i \in n - c + 1 .. n : Unhealthy(t[i])
      /\ \A i \in n - n + 1 .. n - c : ~Unhealthy(t[i])
  BY <1>8 DEF BackKept, Permutes
<1> HIDE DEF t, c, n
<1>10. \A i \in 1 .. n : i \in n - c + 1 .. n \/ i \in n - n + 1 .. n - c
  BY <1>1, <1>9
<1>11. ASSUME NEW i \in 1 .. n, NEW j \in 1 .. n, i < j, Unhealthy(t[i])
       PROVE  Unhealthy(t[j])
  <2>1. i \in n - c + 1 .. n
    BY <1>9, <1>10, <1>11
  <2>2. j \in n - c + 1 .. n
    BY <1>1, <1>9, <1>11, <2>1
  <2> QED
    BY <1>9, <2>2
<1>12. StuckLast(t)
  BY <1>9, <1>11 DEF StuckLast
<1> QED
  BY <1>2, <1>9, <1>12 DEF t

\* A list that is in SetToSeqs() has all the elements of the set, each once.
LEMMA ListedOnce ==
    ASSUME NEW usable \in SUBSET Hosts, IsFiniteSet(usable), NEW s \in SetToSeqs(usable)
    PROVE  s \in Seq(Hosts) /\ Len(s) = Cardinality(usable) /\ ToSet(s) = usable /\ IsInjective(s)
<1> DEFINE n == Cardinality(usable)
<1>1. n \in Nat
  BY FS_CardinalityType
<1>2. s \in [1 .. n -> usable] /\ \A i, j \in 1 .. n : i # j => s[i] # s[j]
  BY DEF SetToSeqs
<1>3. s \in Injection(1 .. n, usable)
  BY <1>2 DEF Injection, IsInjective
<1>4. IsFiniteSet(1 .. n) /\ Cardinality(1 .. n) = n
  <2> HIDE DEF n
  <2>1. 1 \in Int /\ n \in Int
    BY <1>1
  <2>2. IsFiniteSet(1 .. n) /\ Cardinality(1 .. n) = IF 1 > n THEN 0 ELSE n - 1 + 1
    BY <2>1, FS_Interval
  <2> QED
    BY <1>1, <2>2
<1>5. s \in Surjection(1 .. n, usable)
  BY <1>3, <1>4, FS_Injection
<1>6. \A h \in usable : \E i \in 1 .. n : s[i] = h
  BY <1>5 DEF Surjection
<1> HIDE DEF n
<1>7. s \in [1 .. n -> Hosts]
  BY <1>2
<1>8. s \in Seq(Hosts) /\ Len(s) = n
  BY <1>1, <1>7
<1>9. ToSet(s) = {s[i] : i \in 1 .. n} /\ (IsInjective(s) <=> \A i, j \in 1 .. n : s[i] = s[j] => i = j)
  BY <1>8, Elements
<1>10. ToSet(s) = usable
  <2>1. ASSUME NEW h \in usable PROVE h \in ToSet(s)
    BY <1>6, <1>9
  <2>2. ASSUME NEW i \in 1 .. n PROVE s[i] \in usable
    BY <1>2
  <2> QED
    BY <1>9, <2>1, <2>2
<1>11. IsInjective(s)
  BY <1>2, <1>9
<1> QED
  BY <1>8, <1>10, <1>11 DEF n

\* The number of places with unhealthy replicas is the number of unhealthy replicas.
LEMMA StuckPlaces ==
    ASSUME NEW s \in Seq(Hosts), IsInjective(s)
    PROVE  /\ IsFiniteSet(Stuck(s))
           /\ Cardinality({i \in 1 .. Len(s) : Unhealthy(s[i])}) = Cardinality(Stuck(s))
           /\ Cardinality(Stuck(s)) \in 0 .. Len(s)
<1> DEFINE n == Len(s)
           P == {i \in 1 .. n : Unhealthy(s[i])}
           Q == Stuck(s)
           f == [i \in P |-> s[i]]
<1>1. n \in Nat /\ ToSet(s) = {s[i] : i \in 1 .. n} /\ \A i, j \in 1 .. n : s[i] = s[j] => i = j
  BY Elements
<1>2. IsFiniteSet(ToSet(s)) /\ Cardinality(ToSet(s)) = n
  BY Distinct
<1> HIDE DEF n
<1>3. Q \in SUBSET ToSet(s)
  BY DEF Stuck
<1>4. IsFiniteSet(Q) /\ Cardinality(Q) <= n
  BY <1>2, <1>3, FS_Subset
<1>5. f \in Bijection(P, Q)
  <2>1. f \in [P -> Q]
    BY <1>1 DEF Stuck
  <2>2. \A i, j \in P : f[i] = f[j] => i = j
    BY <1>1
  <2>3. ASSUME NEW h \in Q PROVE \E i \in P : f[i] = h
    <3>1. PICK i \in 1 .. n : s[i] = h
      BY <1>1, <1>3
    <3>2. i \in P
      BY <3>1 DEF Stuck
    <3> QED
      BY <3>1, <3>2
  <2> QED
    BY <2>1, <2>2, <2>3 DEF Bijection, Injection, Surjection, IsInjective
<1>6. ExistsBijection(P, Q)
  BY <1>5 DEF ExistsBijection
<1>7. IsFiniteSet(P)
  <2>1. IsFiniteSet(1 .. n)
    BY <1>1, FS_Interval
  <2>2. P \in SUBSET (1 .. n)
    OBVIOUS
  <2> HIDE DEF P
  <2> QED
    BY <2>1, <2>2, FS_Subset
<1>8. Cardinality(Q) = Cardinality(P)
  <2> HIDE DEF P, Q
  <2> QED
    BY <1>6, <1>7, FS_Bijection
<1>9. Cardinality(Q) \in Nat
  BY <1>4, FS_CardinalityType
<1> HIDE DEF Q
<1>10. Cardinality(Q) \in 0 .. n
  BY <1>1, <1>4, <1>9
<1> QED
  BY <1>4, <1>8, <1>10 DEF n, P, Q

\* With fewer unhealthy replicas than others, the first two are healthy when the unhealthy
\* ones are last, and the choice between the two changes nothing about that.
LEMMA LessBusyKeepsLast ==
    ASSUME NEW t \in Seq(Hosts), IsInjective(t), Len(t) >= 3, StuckLast(t),
           2 * Cardinality(Stuck(t)) < Len(t)
    PROVE  StuckLast(LessBusyFirst(t))
<1> DEFINE n == Len(t)
<1>1. n \in Nat /\ n >= 3 /\ ToSet(t) = {t[i] : i \in 1 .. n} /\ \A i, j \in 1 .. n : t[i] = t[j] => i = j
  BY Elements
<1>2. ~Unhealthy(t[2])
  <2> SUFFICES ASSUME Unhealthy(t[2]) PROVE FALSE
    OBVIOUS
  <2> DEFINE f == [i \in 2 .. n |-> t[i]]
             Q == Stuck(t)
  <2>1. ASSUME NEW i \in 2 .. n PROVE i \in 1 .. n /\ t[i] \in Q
    <3>1. i \in 1 .. n /\ 2 \in 1 .. n /\ (i = 2 \/ 2 < i)
      BY <1>1
    <3>2. Unhealthy(t[i])
      BY <3>1 DEF StuckLast
    <3> QED
      BY <1>1, <3>1, <3>2 DEF Stuck
  <2>2. f \in [2 .. n -> Q]
    BY <2>1
  <2>3. \A i, j \in 2 .. n : f[i] = f[j] => i = j
    BY <1>1, <2>1
  <2>4. f \in Injection(2 .. n, Q)
    BY <2>2, <2>3 DEF Injection, IsInjective
  <2>5. IsFiniteSet(Q) /\ Cardinality(Q) \in 0 .. n
    BY StuckPlaces
  <2> HIDE DEF Q, f, n
  <2>6. Cardinality(2 .. n) <= Cardinality(Q)
    BY <2>4, <2>5, FS_Injection
  <2>7. Cardinality(2 .. n) = IF 2 > n THEN 0 ELSE n - 2 + 1
    <3>1. 2 \in Int /\ n \in Int
      BY <1>1
    <3> QED
      BY <3>1, FS_Interval
  <2>8. 2 * Cardinality(Q) < n
    BY DEF Q, n
  <2> QED
    BY <1>1, <2>5, <2>6, <2>7, <2>8
<1>3. ~Unhealthy(t[1])
  <2>1. 1 \in 1 .. n /\ 2 \in 1 .. n /\ 1 < 2
    BY <1>1
  <2> QED
    BY <1>2, <2>1 DEF StuckLast
<1>4. CASE LessBusyFirst(t) = t
  BY <1>4
<1>5. CASE LessBusyFirst(t) = Swapped(t, 1, 2)
  <2> DEFINE u == Swapped(t, 1, 2)
  <2>1. DOMAIN t = 1 .. n
    OBVIOUS
  <2>2. \A k \in 1 .. n : u[k] = IF k = 1 THEN t[2] ELSE IF k = 2 THEN t[1] ELSE t[k]
    BY <2>1 DEF Swapped
  <2>3. 1 \in 1 .. Len(t) /\ 2 \in 1 .. Len(t)
    BY <1>1
  <2>4. Len(u) = n
    BY <2>3, SwappedKeeps
  <2> HIDE DEF u
  <2>5. ASSUME NEW i \in 1 .. n, NEW j \in 1 .. n, i < j, Unhealthy(u[i]) PROVE Unhealthy(u[j])
    <3>1. i # 1 /\ i # 2
      BY <1>2, <1>3, <2>2, <2>5
    <3>2. j # 1 /\ j # 2
      BY <1>1, <2>5, <3>1
    <3>3. u[i] = t[i] /\ u[j] = t[j]
      BY <2>2, <3>1, <3>2
    <3> QED
      BY <2>5, <3>3 DEF StuckLast
  <2>6. StuckLast(u)
    BY <2>4, <2>5 DEF StuckLast
  <2> QED
    BY <1>5, <2>6 DEF u
<1> QED
  BY <1>4, <1>5 DEF LessBusyFirst

\* Swapping two replicas leaves the same replicas.
LEMMA SwapPermutes ==
    ASSUME NEW s, NEW t, Permutes(t, s), NEW i \in 1 .. Len(s), NEW j \in 1 .. Len(s)
    PROVE  Permutes(Swapped(t, i, j), s)
<1>1. t \in Seq(Hosts) /\ Len(t) = Len(s) /\ ToSet(t) = ToSet(s) /\ IsInjective(t)
  BY DEF Permutes
<1>2. i \in 1 .. Len(t) /\ j \in 1 .. Len(t)
  BY <1>1
<1>3. Swapped(t, i, j) \in Seq(Hosts) /\ Len(Swapped(t, i, j)) = Len(t) /\ ToSet(Swapped(t, i, j)) = ToSet(t)
  BY <1>1, <1>2, SwappedKeeps
<1>4. IsInjective(Swapped(t, i, j))
  BY <1>1, <1>2, SwappedKeeps
<1> QED
  BY <1>1, <1>3, <1>4 DEF Permutes

\* The replicas in the order of the default policy.
LEMMA OrderedReplicasKeep ==
    ASSUME NEW usable \in SUBSET Hosts, IsFiniteSet(usable), NEW s \in SetToSeqs(usable), NEW dice \in BOOLEAN,
           NEW newest \in IF NewlyUp(usable) = {} THEN {NoHost} ELSE NewlyUp(usable), NoHost \notin Hosts
    PROVE  /\ Permutes(OrderedReplicas(s, newest, dice), s) /\ ToSet(s) = usable
           /\ LET t == OrderedReplicas(s, newest, dice)
              IN  \A i, j \in 1 .. Len(t) : i < j /\ t[i] \in Trailing(usable) => t[j] \in Trailing(usable)
<1> DEFINE n == Len(s)
           u == Cardinality({i \in 1 .. n : Unhealthy(s[i])})
           back == SendUnhealthyToTheBack(s, u)
           moved == IF newest = NoHost
                    THEN IF u > 0 /\ u < (n \div 2) + 1 THEN back ELSE s
                    ELSE IF dice /\ newest = s[1] THEN Swapped(s, 1, n)
                    ELSE IF dice /\ newest = s[2] THEN Swapped(s, 2, n)
                    ELSE s
           t == OrderedReplicas(s, newest, dice)
<1>1. s \in Seq(Hosts) /\ n = Cardinality(usable) /\ ToSet(s) = usable /\ IsInjective(s) /\ n \in Nat
  BY ListedOnce
<1>2. IsFiniteSet(Stuck(s)) /\ u = Cardinality(Stuck(s)) /\ u \in 0 .. n
  BY <1>1, StuckPlaces
<1>3. t = IF n < 3 THEN s ELSE LessBusyFirst(moved)
  BY DEF OrderedReplicas
<1>4. Permutes(s, s)
  BY <1>1 DEF Permutes
<1> HIDE DEF u
<1>5. Permutes(back, s) /\ StuckLast(back)
  BY <1>1, <1>2, UnhealthyAreLast
<1> HIDE DEF n, back
<1>6. n < 3 => Trailing(usable) = {}
  BY <1>1 DEF Trailing
<1>7. Trailing(usable) # {} => newest = NoHost
  BY DEF Trailing, NewlyUp
<1>8. Trailing(usable) # {} => Trailing(usable) = Stuck(s) /\ 2 * u < n /\ u > 0
  <2> SUFFICES ASSUME Trailing(usable) # {} PROVE Trailing(usable) = Stuck(s) /\ 2 * u < n /\ u > 0
    OBVIOUS
  <2>1. Trailing(usable) = Stuck(s) /\ 2 * Cardinality(Stuck(s)) < n
    BY <1>1 DEF Trailing, Stuck
  <2>2. Cardinality(Stuck(s)) # 0
    BY <1>2, <2>1, FS_EmptySet
  <2> QED
    BY <1>2, <2>1, <2>2
<1>9. CASE n < 3
  BY <1>1, <1>3, <1>4, <1>6, <1>9
<1>10. CASE ~(n < 3)
  <2>1. 1 \in 1 .. n /\ 2 \in 1 .. n /\ n \in 1 .. n
    BY <1>1, <1>10
  <2>2. Permutes(moved, s)
    <3>1. Permutes(Swapped(s, 1, n), s) /\ Permutes(Swapped(s, 2, n), s)
      BY <1>4, <2>1, SwapPermutes DEF n
    <3> QED
      BY <1>4, <1>5, <3>1
  <2>3. t = LessBusyFirst(moved)
    BY <1>3, <1>10
  <2>4. Trailing(usable) # {} => moved = back
    <3>1. 2 * u < n /\ u > 0 => u < (n \div 2) + 1
      BY <1>1, <1>2
    <3> QED
      BY <1>7, <1>8, <3>1
  <2> HIDE DEF moved
  <2>5. LessBusyFirst(moved) = moved \/ LessBusyFirst(moved) = Swapped(moved, 1, 2)
    BY DEF LessBusyFirst
  <2>6. Permutes(Swapped(moved, 1, 2), s)
    BY <2>1, <2>2, SwapPermutes DEF n
  <2>7. Permutes(t, s)
    BY <2>2, <2>3, <2>5, <2>6
  <2> HIDE DEF t
  <2>8. ASSUME Trailing(usable) # {}
        PROVE  \A i, j \in 1 .. Len(t) : i < j /\ t[i] \in Trailing(usable) => t[j] \in Trailing(usable)
    <3>1. back \in Seq(Hosts) /\ Len(back) = n /\ IsInjective(back) /\ Stuck(back) = Stuck(s)
      BY <1>5 DEF Permutes, Stuck, n
    <3>2. 2 * Cardinality(Stuck(back)) < Len(back) /\ Len(back) >= 3
      BY <1>1, <1>2, <1>8, <1>10, <2>8, <3>1
    <3>3. StuckLast(LessBusyFirst(back))
      BY <1>5, <3>1, <3>2, LessBusyKeepsLast
    <3>4. StuckLast(t)
      BY <2>3, <2>4, <2>8, <3>3
    <3>5. \A i \in 1 .. Len(t) : t[i] \in ToSet(s)
      BY <2>7, Elements DEF Permutes
    <3>6. \A i \in 1 .. Len(t) : t[i] \in Trailing(usable) <=> Unhealthy(t[i])
      BY <1>8, <2>8, <3>5 DEF Stuck
    <3> QED
      BY <3>4, <3>6 DEF StuckLast
  <2> QED
    BY <1>1, <2>7, <2>8 DEF t
<1> QED
  BY <1>9, <1>10

-----------------------------------------------------------------------------
(* The invariant.                                                          *)

PlanRecords ==
    [state : {"open", "done"}, stage : {"whole", "front", "local"}, todo : Seq(Hosts),
     skip : SUBSET (Hosts \union {NoHost}), preferred : Hosts \union {NoHost}, yielded : Seq(Hosts),
     steady : SUBSET Hosts, seen : SUBSET Hosts, leading : SUBSET Hosts, trailing : SUBSET Hosts]

\* What ReplicasLead says of two hosts of a plan, of which a comes first.
Lead(plan, a, b) ==
    a # plan.preferred =>
        /\ b \in plan.leading => a \in plan.leading
        /\ b \in plan.leading \ plan.trailing => a \notin plan.trailing

\* A list of hosts, of which a plan consists, has each once, none that it may not have, and
\* the replicas in front.
Fits(plan, hosts) ==
    /\ IsInjective(hosts)
    /\ ToSet(hosts) \subseteq plan.seen \union {plan.preferred}
    /\ \A i, j \in 1 .. Len(hosts) : i < j => Lead(plan, hosts[i], hosts[j])

\* What plans depend on: the hosts that a plan should reach, those that are up and those
\* that the list of local hosts is made of.
View ==
    [eligible |-> Eligible, up |-> {h \in Hosts : IsUp(h)}, chosen |-> {h \in Hosts : Chosen(h)},
     default |-> lbPolicy.base = "Default"]

\* A plan that was settled when it was made: what has been read and what is left are the list
\* that was made then.
WholeInStep(plan) ==
    /\ Fits(plan, plan.yielded \o plan.todo)
    /\ plan.steady \subseteq ToSet(plan.yielded \o plan.todo)

\* The replicas of the default policy and its preferred host, which are what the rest of
\* the plan is going to leave out.
FrontInStep(plan, view) ==
    /\ Fits(plan, plan.yielded \o plan.todo)
    /\ ToSet(plan.yielded \o plan.todo) = plan.skip \ {NoHost}
    /\ plan.leading \subseteq plan.skip
    /\ view.default

\* The hosts s that the rest of the plan is made of: those that are not up now may still
\* come up, and then they have been seen.
RestInStep(plan, s, view) ==
    /\ s \in Seq(Hosts) /\ IsInjective(s)
    /\ plan.skip \ {NoHost} \subseteq ToSet(plan.yielded)
    /\ ToSet(plan.yielded) \intersect ToSet(s) \subseteq plan.skip
    /\ plan.steady \subseteq ToSet(plan.yielded) \union ToSet(s)
    /\ plan.leading \subseteq plan.skip
    /\ \A h \in ToSet(s) : h \in view.chosen /\ (h \in view.up => h \in plan.seen)
    /\ view.default

OpenInStep(plan, view) ==
    /\ plan.steady \subseteq view.eligible /\ view.eligible \subseteq plan.seen
    /\ plan.stage = "whole" => WholeInStep(plan)
    /\ plan.stage = "front" => FrontInStep(plan, view)
    /\ plan.stage = "local" => Fits(plan, plan.yielded) /\ RestInStep(plan, plan.todo, view)

PlanInStep(plan, view) ==
    \/ plan = NotMade \/ plan = [state |-> "error"]
    \/ plan \in PlanRecords /\ plan.state = "open" /\ OpenInStep(plan, view)
    \/ plan \in PlanRecords /\ plan.state = "done" /\ Fits(plan, plan.yielded) /\ plan.steady \subseteq ToSet(plan.yielded)

PlansInStep == DOMAIN plans = Plans /\ \A p \in Plans : PlanInStep(plans[p], View)

Healths == {"idle", "busy", "stuck", "fresh", "down"}

\* The hosts are listed once each, and the list of local hosts is the one that would be made now.
HostsInStep ==
    /\ cluster \in Clusters /\ lbPolicy = cluster.policy
    /\ known \in Seq(Hosts) /\ IsInjective(known)
    /\ health \in [Hosts -> Healths]
    /\ lbIndex \in Nat
    /\ cached \in BOOLEAN
    /\ cached => /\ localCache \in Seq(Hosts) /\ IsInjective(localCache)
                 /\ ToSet(localCache) = {h \in ToSet(known) : Chosen(h)}

LbInv == HostsInStep /\ PlansInStep

\* A list that fits goes on to fit when more hosts are seen.
LEMMA FitsStill ==
    ASSUME NEW plan, NEW next, NEW s, Fits(plan, s), plan.seen \subseteq next.seen,
           next.preferred = plan.preferred, next.leading = plan.leading, next.trailing = plan.trailing
    PROVE  Fits(next, s)
<1>1. \A a, b : Lead(plan, a, b) => Lead(next, a, b)
  BY DEF Lead
<1> QED
  BY <1>1 DEF Fits

\* The beginning of a list that fits does as well.
LEMMA FitsAtFirst ==
    ASSUME NEW plan, NEW s \in Seq(Hosts), NEW t \in Seq(Hosts), Fits(plan, s \o t)
    PROVE  Fits(plan, s)
<1> DEFINE u == s \o t
           m == Len(s)
           n == Len(t)
<1>1. m \in Nat /\ n \in Nat /\ Len(u) = m + n /\ \A i \in 1 .. m + n : u[i] = IF i <= m THEN s[i] ELSE t[i - m]
  BY Joined
<1>2. ToSet(s) \subseteq ToSet(u)
  BY Joined
<1>3. IsInjective(s)
  BY Joined DEF Fits
<1>4. ToSet(u) \subseteq plan.seen \union {plan.preferred} /\ \A i, j \in 1 .. m + n : i < j => Lead(plan, u[i], u[j])
  BY <1>1 DEF Fits
<1> HIDE DEF u, m, n
<1>5. \A i \in 1 .. m : i \in 1 .. m + n /\ u[i] = s[i]
  BY <1>1
<1>6. \A i, j \in 1 .. m : i < j => Lead(plan, s[i], s[j])
  <2> SUFFICES ASSUME NEW i \in 1 .. m, NEW j \in 1 .. m, i < j PROVE Lead(plan, s[i], s[j])
    OBVIOUS
  <2>1. Lead(plan, u[i], u[j])
    BY <1>4, <1>5
  <2> QED
    BY <1>5, <2>1
<1> QED
  BY <1>2, <1>3, <1>4, <1>6 DEF Fits, m

\* Reading the next host moves it from what is left to what has been read.
LEMMA MovesAlong ==
    ASSUME NEW y \in Seq(Hosts), NEW t \in Seq(Hosts), t # << >>
    PROVE  /\ Append(y, Head(t)) \in Seq(Hosts) /\ Tail(t) \in Seq(Hosts)
           /\ Append(y, Head(t)) \o Tail(t) = y \o t
<1> DEFINE a == Append(y, Head(t))
           b == Tail(t)
           m == Len(y)
           n == Len(t)
<1>1. Head(t) = t[1] /\ Head(t) \in Hosts /\ n \in Nat \ {0} /\ m \in Nat
  OBVIOUS
<1>2. /\ a \in Seq(Hosts) /\ Len(a) = m + 1 /\ (\A i \in 1 .. m : a[i] = y[i]) /\ a[m + 1] = t[1]
  BY <1>1, AppendProperties
<1>3. b \in Seq(Hosts) /\ Len(b) = n - 1 /\ \A i \in 1 .. n - 1 : b[i] = t[i + 1]
  BY HeadTailProperties
<1> HIDE DEF a, b, m, n
<1>4. /\ a \o b \in Seq(Hosts) /\ Len(a \o b) = m + n
      /\ \A i \in 1 .. m + n : (a \o b)[i] = IF i <= m + 1 THEN a[i] ELSE b[i - (m + 1)]
  <2>1. Len(a) + Len(b) = m + n /\ Len(a) = m + 1 /\ a \in Seq(Hosts) /\ b \in Seq(Hosts)
    BY <1>1, <1>2, <1>3
  <2>2. /\ a \o b \in Seq(Hosts) /\ Len(a \o b) = Len(a) + Len(b)
        /\ \A i \in 1 .. Len(a) + Len(b) : (a \o b)[i] = IF i <= Len(a) THEN a[i] ELSE b[i - Len(a)]
    BY <2>1, ConcatProperties
  <2> QED
    BY <2>1, <2>2
<1>5. /\ y \o t \in Seq(Hosts) /\ Len(y \o t) = m + n
      /\ \A i \in 1 .. m + n : (y \o t)[i] = IF i <= m THEN y[i] ELSE t[i - m]
  BY ConcatProperties DEF m, n
<1>6. ASSUME NEW i \in 1 .. m + n PROVE (a \o b)[i] = (y \o t)[i]
  <2>1. CASE i <= m
    <3>1. i \in 1 .. m /\ i <= m + 1
      BY <1>1, <2>1
    <3> QED
      BY <1>2, <1>4, <1>5, <2>1, <3>1
  <2>2. CASE i = m + 1
    <3>1. ~(i <= m) /\ i <= m + 1 /\ i - m = 1
      BY <1>1, <2>2
    <3> QED
      BY <1>2, <1>4, <1>5, <2>2, <3>1
  <2>3. CASE i > m + 1
    <3>1. ~(i <= m) /\ ~(i <= m + 1) /\ i - (m + 1) \in 1 .. n - 1 /\ (i - (m + 1)) + 1 = i - m
      BY <1>1, <2>3
    <3> QED
      BY <1>3, <1>4, <1>5, <3>1
  <2>4. i <= m \/ i = m + 1 \/ i > m + 1
    BY <1>1
  <2> QED
    BY <2>1, <2>2, <2>3, <2>4
<1>7. a \o b = y \o t
  BY <1>4, <1>5, <1>6, SeqEqual
<1> QED
  BY <1>2, <1>3, <1>7 DEF a, b

\* What reading a host makes of a plan.
Moved(plan, h, todo, stage) ==
    [plan EXCEPT !.yielded = Append(plan.yielded, h), !.todo = todo, !.stage = stage]
Finished(plan) == [plan EXCEPT !.state = "done", !.todo = << >>]

\* It is a plan, of which the rest has not changed.
LEMMA MovedParts ==
    ASSUME NEW plan \in PlanRecords, NEW h \in Hosts, NEW todo \in Seq(Hosts), NEW stage \in {"whole", "front", "local"}
    PROVE  LET next == Moved(plan, h, todo, stage)
           IN  /\ next \in PlanRecords
               /\ next.yielded = Append(plan.yielded, h) /\ next.todo = todo /\ next.stage = stage
               /\ next.state = plan.state /\ next.skip = plan.skip /\ next.preferred = plan.preferred
               /\ next.steady = plan.steady /\ next.seen = plan.seen
               /\ next.leading = plan.leading /\ next.trailing = plan.trailing
<1>1. plan.yielded \in Seq(Hosts)
  BY DEF PlanRecords
<1>2. Append(plan.yielded, h) \in Seq(Hosts)
  BY <1>1, AppendProperties
<1> DEFINE new == Append(plan.yielded, h)
           D == Seq(Hosts)
<1>3. new \in D /\ todo \in D /\ Moved(plan, h, todo, stage) = [plan EXCEPT !.yielded = new, !.todo = todo, !.stage = stage]
  BY <1>2 DEF Moved
<1>4. plan \in
        [state : {"open", "done"}, stage : {"whole", "front", "local"}, todo : D,
         skip : SUBSET (Hosts \union {NoHost}), preferred : Hosts \union {NoHost}, yielded : D,
         steady : SUBSET Hosts, seen : SUBSET Hosts, leading : SUBSET Hosts, trailing : SUBSET Hosts]
  BY DEF PlanRecords
<1> HIDE DEF new, D
<1>5. Moved(plan, h, todo, stage) \in
        [state : {"open", "done"}, stage : {"whole", "front", "local"}, todo : D,
         skip : SUBSET (Hosts \union {NoHost}), preferred : Hosts \union {NoHost}, yielded : D,
         steady : SUBSET Hosts, seen : SUBSET Hosts, leading : SUBSET Hosts, trailing : SUBSET Hosts]
  BY <1>3, <1>4
<1>6. LET next == Moved(plan, h, todo, stage)
      IN  /\ next.yielded = new /\ next.todo = todo /\ next.stage = stage
          /\ next.state = plan.state /\ next.skip = plan.skip /\ next.preferred = plan.preferred
          /\ next.steady = plan.steady /\ next.seen = plan.seen
          /\ next.leading = plan.leading /\ next.trailing = plan.trailing
  BY <1>3, <1>4
<1> QED
  BY <1>5, <1>6 DEF PlanRecords, D, new

\* So it is when it is finished.
LEMMA FinishedParts ==
    ASSUME NEW plan \in PlanRecords
    PROVE  LET next == Finished(plan)
           IN  /\ next \in PlanRecords /\ next.state = "done"
               /\ next.yielded = plan.yielded /\ next.preferred = plan.preferred
               /\ next.steady = plan.steady /\ next.seen = plan.seen
               /\ next.leading = plan.leading /\ next.trailing = plan.trailing
<1> DEFINE none == << >>
           D == Seq(Hosts)
<1>1. none \in D /\ Finished(plan) = [plan EXCEPT !.state = "done", !.todo = none]
  BY DEF Finished
<1>2. plan \in
        [state : {"open", "done"}, stage : {"whole", "front", "local"}, todo : D,
         skip : SUBSET (Hosts \union {NoHost}), preferred : Hosts \union {NoHost}, yielded : D,
         steady : SUBSET Hosts, seen : SUBSET Hosts, leading : SUBSET Hosts, trailing : SUBSET Hosts]
  BY DEF PlanRecords
<1> HIDE DEF none, D
<1>3. Finished(plan) \in
        [state : {"open", "done"}, stage : {"whole", "front", "local"}, todo : D,
         skip : SUBSET (Hosts \union {NoHost}), preferred : Hosts \union {NoHost}, yielded : D,
         steady : SUBSET Hosts, seen : SUBSET Hosts, leading : SUBSET Hosts, trailing : SUBSET Hosts]
  BY <1>1, <1>2
<1>4. LET next == Finished(plan)
      IN  /\ next.state = "done"
          /\ next.yielded = plan.yielded /\ next.preferred = plan.preferred
          /\ next.steady = plan.steady /\ next.seen = plan.seen
          /\ next.leading = plan.leading /\ next.trailing = plan.trailing
  BY <1>1, <1>2
<1> QED
  BY <1>3, <1>4 DEF PlanRecords, D

\* A plan that is being read is one of those that were made.
LEMMA OpenPlan ==
    ASSUME NEW plan, NEW view, PlanInStep(plan, view), plan.state = "open"
    PROVE  plan \in PlanRecords /\ OpenInStep(plan, view)
<1>1. plan # NotMade /\ plan # [state |-> "error"]
  BY DEF NotMade
<1> QED
  BY <1>1 DEF PlanInStep

\* Parts of a plan.
LEMMA PlanParts ==
    ASSUME NEW plan \in PlanRecords
    PROVE  /\ plan.state \in {"open", "done"} /\ plan.stage \in {"whole", "front", "local"}
           /\ plan.yielded \in Seq(Hosts) /\ plan.todo \in Seq(Hosts)
           /\ plan.skip \subseteq Hosts \union {NoHost} /\ plan.preferred \in Hosts \union {NoHost}
           /\ plan.steady \subseteq Hosts /\ plan.seen \subseteq Hosts
           /\ plan.leading \subseteq Hosts /\ plan.trailing \subseteq Hosts
<1> DEFINE D == Seq(Hosts)
<1>1. plan \in
        [state : {"open", "done"}, stage : {"whole", "front", "local"}, todo : D,
         skip : SUBSET (Hosts \union {NoHost}), preferred : Hosts \union {NoHost}, yielded : D,
         steady : SUBSET Hosts, seen : SUBSET Hosts, leading : SUBSET Hosts, trailing : SUBSET Hosts]
  BY DEF PlanRecords
<1> HIDE DEF D
<1>2. /\ plan.state \in {"open", "done"} /\ plan.stage \in {"whole", "front", "local"}
      /\ plan.yielded \in D /\ plan.todo \in D
      /\ plan.skip \subseteq Hosts \union {NoHost} /\ plan.preferred \in Hosts \union {NoHost}
      /\ plan.steady \subseteq Hosts /\ plan.seen \subseteq Hosts
      /\ plan.leading \subseteq Hosts /\ plan.trailing \subseteq Hosts
  BY <1>1
<1> QED
  BY <1>2 DEF D

\* next() of a plan that was settled when it was made.
LEMMA PlannedKeeps ==
    ASSUME NEW plan, NEW view, PlanInStep(plan, view), plan.state = "open",
           plan.stage \in {"whole", "front"}, plan.todo # << >>
    PROVE  PlanInStep(Moved(plan, Head(plan.todo), Tail(plan.todo), plan.stage), view)
<1> DEFINE y == plan.yielded
           t == plan.todo
           next == Moved(plan, Head(t), Tail(t), plan.stage)
<1>1. plan \in PlanRecords /\ OpenInStep(plan, view)
  BY OpenPlan
<1>2. y \in Seq(Hosts) /\ t \in Seq(Hosts)
  BY <1>1, PlanParts
<1>3. Head(t) \in Hosts /\ Tail(t) \in Seq(Hosts) /\ plan.stage \in {"whole", "front", "local"}
  BY <1>2, HeadTailProperties
<1>4. /\ next \in PlanRecords
      /\ next.yielded = Append(y, Head(t)) /\ next.todo = Tail(t) /\ next.stage = plan.stage
      /\ next.state = plan.state /\ next.skip = plan.skip /\ next.preferred = plan.preferred
      /\ next.steady = plan.steady /\ next.seen = plan.seen
      /\ next.leading = plan.leading /\ next.trailing = plan.trailing
  <2> DEFINE h == Head(t)
             u == Tail(t)
             stage == plan.stage
  <2>1. plan \in PlanRecords /\ h \in Hosts /\ u \in Seq(Hosts) /\ stage \in {"whole", "front", "local"}
    BY <1>1, <1>3
  <2> HIDE DEF h, u, stage
  <2>2. LET m == Moved(plan, h, u, stage)
        IN  /\ m \in PlanRecords
            /\ m.yielded = Append(plan.yielded, h) /\ m.todo = u /\ m.stage = stage
            /\ m.state = plan.state /\ m.skip = plan.skip /\ m.preferred = plan.preferred
            /\ m.steady = plan.steady /\ m.seen = plan.seen
            /\ m.leading = plan.leading /\ m.trailing = plan.trailing
    BY <2>1, MovedParts
  <2> QED
    BY <2>2 DEF h, u, stage
<1>5. Append(y, Head(t)) \o Tail(t) = y \o t
  BY <1>2, MovesAlong
<1>6. next.yielded \o next.todo = y \o t
  BY <1>4, <1>5
<1> HIDE DEF next, y, t
<1>7. Fits(plan, y \o t)
  BY <1>1 DEF OpenInStep, WholeInStep, FrontInStep, y, t
<1>8. Fits(next, y \o t)
  BY <1>4, <1>7, FitsStill
<1>9. plan.stage = "whole" => WholeInStep(next)
  BY <1>1, <1>4, <1>6, <1>8 DEF OpenInStep, WholeInStep, y, t
<1>10. plan.stage = "front" => FrontInStep(next, view)
  BY <1>1, <1>4, <1>6, <1>8 DEF OpenInStep, FrontInStep, y, t
<1>11. OpenInStep(next, view)
  BY <1>1, <1>4, <1>9, <1>10 DEF OpenInStep
<1>12. next.state = "open"
  BY <1>4
<1> QED
  BY <1>4, <1>11, <1>12 DEF PlanInStep, next, y, t

\* The end of a plan that was settled when it was made.
LEMMA EndKeeps ==
    ASSUME NEW plan, NEW view, PlanInStep(plan, view), plan.state = "open",
           plan.stage = "whole", plan.todo = << >>
    PROVE  PlanInStep(Finished(plan), view)
<1> DEFINE y == plan.yielded
           next == Finished(plan)
<1>1. plan \in PlanRecords /\ OpenInStep(plan, view)
  BY OpenPlan
<1>2. y \in Seq(Hosts)
  BY <1>1, PlanParts
<1>3. y \o plan.todo = y
  BY <1>2, ConcatEmptySeq
<1>4. WholeInStep(plan)
  BY <1>1 DEF OpenInStep
<1>5. Fits(plan, y) /\ plan.steady \subseteq ToSet(y)
  BY <1>3, <1>4 DEF WholeInStep
<1>6. /\ next \in PlanRecords /\ next.state = "done"
      /\ next.yielded = plan.yielded /\ next.preferred = plan.preferred
      /\ next.steady = plan.steady /\ next.seen = plan.seen
      /\ next.leading = plan.leading /\ next.trailing = plan.trailing
  BY <1>1, FinishedParts
<1> HIDE DEF next, y
<1>7. Fits(next, y)
  BY <1>5, <1>6, FitsStill
<1> QED
  BY <1>5, <1>6, <1>7 DEF PlanInStep, next, y

\* What comes after the i-th of a list.
LEMMA AfterPlace ==
    ASSUME NEW s \in Seq(Hosts), IsInjective(s), NEW i \in 1 .. Len(s)
    PROVE  LET t == SubSeq(s, i + 1, Len(s))
           IN  /\ t \in Seq(Hosts) /\ IsInjective(t)
               /\ \A h : h \in ToSet(t) <=> \E k \in i + 1 .. Len(s) : s[k] = h
<1> DEFINE n == Len(s)
           t == SubSeq(s, i + 1, n)
<1>1. n \in Nat /\ \A k, l \in 1 .. n : s[k] = s[l] => k = l
  BY Elements
<1>2. i + 1 \in Int /\ n \in Int /\ \A k \in i + 1 .. n : s[k] \in Hosts
  <2>1. \A k \in i + 1 .. n : k \in 1 .. n
    BY <1>1
  <2> QED
    BY <1>1, <2>1
<1>3. /\ t \in Seq(Hosts)
      /\ Len(t) = IF i + 1 <= n THEN n - (i + 1) + 1 ELSE 0
      /\ \A k \in 1 .. n - (i + 1) + 1 : t[k] = s[(i + 1) + k - 1]
  BY <1>2, SubSeqProperties
<1> HIDE DEF t, n
<1>4. Len(t) = n - i
  BY <1>1, <1>3 DEF n
<1>5. \A k \in 1 .. n - i : t[k] = s[i + k] /\ i + k \in 1 .. n /\ i + k \in i + 1 .. n
  <2>1. \A k \in 1 .. n - i : k \in 1 .. n - (i + 1) + 1 /\ (i + 1) + k - 1 = i + k /\ i + k \in 1 .. n /\ i + k \in i + 1 .. n
    BY <1>1 DEF n
  <2> QED
    BY <1>3, <2>1
<1>6. /\ ToSet(t) = {t[k] : k \in 1 .. n - i}
      /\ IsInjective(t) <=> \A k, l \in 1 .. n - i : t[k] = t[l] => k = l
  BY <1>3, <1>4, Elements
<1>7. IsInjective(t)
  <2> SUFFICES ASSUME NEW k \in 1 .. n - i, NEW l \in 1 .. n - i, t[k] = t[l] PROVE k = l
    BY <1>6
  <2>1. i + k = i + l
    BY <1>1, <1>5
  <2> QED
    BY <1>1, <2>1 DEF n
<1>8. ASSUME NEW k \in i + 1 .. n PROVE s[k] \in ToSet(t)
  <2>1. k - i \in 1 .. n - i /\ i + (k - i) = k
    BY <1>1 DEF n
  <2>2. t[k - i] = s[k]
    BY <1>5, <2>1
  <2> QED
    BY <1>6, <2>1, <2>2
<1>9. ASSUME NEW h \in ToSet(t) PROVE \E k \in i + 1 .. n : s[k] = h
  <2>1. PICK k \in 1 .. n - i : t[k] = h
    BY <1>6
  <2> QED
    BY <1>5, <2>1
<1> QED
  BY <1>3, <1>7, <1>8, <1>9 DEF t, n

\* A host that has not been read and that is no replica can be read next.
LEMMA FitsAppended ==
    ASSUME NEW plan, NEW y \in Seq(Hosts), NEW h \in Hosts, Fits(plan, y),
           h \in plan.seen, h \notin ToSet(y), h \notin plan.leading
    PROVE  Fits(plan, Append(y, h))
<1> DEFINE a == Append(y, h)
           m == Len(y)
<1>1. /\ a \in Seq(Hosts) /\ Len(a) = m + 1 /\ (\A i \in 1 .. m : a[i] = y[i]) /\ a[m + 1] = h
      /\ ToSet(a) = ToSet(y) \union {h}
  BY Appended
<1>2. m \in Nat /\ ToSet(y) = {y[i] : i \in 1 .. m} /\ (IsInjective(y) <=> \A i, j \in 1 .. m : y[i] = y[j] => i = j)
  BY Elements
<1>3. IsInjective(y) /\ ToSet(y) \subseteq plan.seen \union {plan.preferred}
      /\ \A i, j \in 1 .. m : i < j => Lead(plan, y[i], y[j])
  BY DEF Fits
<1> HIDE DEF a, m
<1>4. \A i \in 1 .. m + 1 : i \in 1 .. m \/ i = m + 1
  BY <1>2
<1>5. IsInjective(a)
  <2>1. IsInjective(a) <=> \A i, j \in 1 .. m + 1 : a[i] = a[j] => i = j
    BY <1>1, Elements
  <2>2. \A i \in 1 .. m : a[i] # h
    BY <1>1, <1>2
  <2>3. \A i, j \in 1 .. m : a[i] = a[j] => i = j
    BY <1>1, <1>2, <1>3
  <2> QED
    BY <1>1, <1>4, <2>1, <2>2, <2>3
<1>6. ASSUME NEW i \in 1 .. m + 1, NEW j \in 1 .. m + 1, i < j PROVE Lead(plan, a[i], a[j])
  <2>1. i \in 1 .. m
    BY <1>2, <1>6
  <2>2. CASE j = m + 1
    BY <1>1, <2>2 DEF Lead
  <2>3. CASE j \in 1 .. m
    BY <1>1, <1>3, <1>6, <2>1, <2>3
  <2> QED
    BY <1>4, <2>2, <2>3
<1> QED
  BY <1>1, <1>3, <1>5, <1>6 DEF Fits, a

\* next() of a plan that is looking for the other local hosts, of which s are left: the first
\* that is up and was not read as a replica, or the end.
LEMMA RestKeeps ==
    ASSUME NEW plan \in PlanRecords, NEW view, NEW s, plan.state = "open",
           plan.steady \subseteq view.eligible, view.eligible \subseteq plan.seen,
           view.eligible \subseteq view.up, NoHost \notin Hosts,
           Fits(plan, plan.yielded), RestInStep(plan, s, view)
    PROVE  LET fit == {i \in 1 .. Len(s) : s[i] \notin plan.skip /\ s[i] \in view.up}
           IN  /\ fit = {} => PlanInStep(Finished(plan), view)
               /\ \A i \in fit : (\A j \in fit : i <= j) =>
                      PlanInStep(Moved(plan, s[i], SubSeq(s, i + 1, Len(s)), "local"), view)
<1> DEFINE y == plan.yielded
           n == Len(s)
           fit == {i \in 1 .. n : s[i] \notin plan.skip /\ s[i] \in view.up}
<1>1. /\ s \in Seq(Hosts) /\ IsInjective(s)
      /\ plan.skip \ {NoHost} \subseteq ToSet(y) /\ ToSet(y) \intersect ToSet(s) \subseteq plan.skip
      /\ plan.steady \subseteq ToSet(y) \union ToSet(s) /\ plan.leading \subseteq plan.skip
      /\ \A h \in ToSet(s) : h \in view.chosen /\ (h \in view.up => h \in plan.seen)
      /\ view.default
  BY DEF RestInStep
<1>2. y \in Seq(Hosts) /\ plan.steady \subseteq Hosts
  BY PlanParts
<1>3. n \in Nat /\ ToSet(s) = {s[i] : i \in 1 .. n} /\ (\A i, j \in 1 .. n : s[i] = s[j] => i = j)
      /\ \A i \in 1 .. n : s[i] \in Hosts
  <2>1. n \in Nat /\ ToSet(s) = {s[i] : i \in 1 .. n} /\ ToSet(s) \subseteq Hosts
    BY <1>1, Elements
  <2>2. \A i, j \in 1 .. n : s[i] = s[j] => i = j
    BY <1>1, Elements
  <2> QED
    BY <2>1, <2>2
<1> HIDE DEF y, n
\* A host that should be reached and is left is up, and if it is left out, it has been read.
<1>4. ASSUME NEW k \in 1 .. n, s[k] \in plan.steady, k \notin fit PROVE s[k] \in ToSet(y)
  <2>1. s[k] \in view.up
    BY <1>4
  <2>2. s[k] \in plan.skip /\ s[k] # NoHost
    BY <1>2, <1>4, <2>1
  <2> QED
    BY <1>1, <2>2
<1>5. ASSUME fit = {} PROVE PlanInStep(Finished(plan), view)
  <2> DEFINE next == Finished(plan)
  <2>1. /\ next \in PlanRecords /\ next.state = "done"
        /\ next.yielded = plan.yielded /\ next.preferred = plan.preferred
        /\ next.steady = plan.steady /\ next.seen = plan.seen
        /\ next.leading = plan.leading /\ next.trailing = plan.trailing
    BY FinishedParts
  <2> HIDE DEF next
  <2>2. plan.steady \subseteq ToSet(y)
    BY <1>1, <1>3, <1>4, <1>5
  <2>3. Fits(next, y)
    BY <2>1, FitsStill DEF y
  <2> QED
    BY <2>1, <2>2, <2>3 DEF PlanInStep, next, y
<1>6. ASSUME NEW i \in fit, \A j \in fit : i <= j
      PROVE  PlanInStep(Moved(plan, s[i], SubSeq(s, i + 1, n), "local"), view)
  <2> DEFINE h == s[i]
             t == SubSeq(s, i + 1, n)
             next == Moved(plan, h, t, "local")
  <2>1. i \in 1 .. n /\ h \in Hosts /\ h \in ToSet(s) /\ h \notin plan.skip /\ h \in view.up
    BY <1>3
  <2>2. t \in Seq(Hosts) /\ IsInjective(t) /\ \A g : g \in ToSet(t) <=> \E k \in i + 1 .. n : s[k] = g
    BY <1>1, <2>1, AfterPlace DEF n
  <2>3. \A k \in i + 1 .. n : k \in 1 .. n /\ k # i
    BY <1>3, <2>1
  <2>4. h \notin ToSet(t) /\ ToSet(t) \subseteq ToSet(s)
    BY <1>3, <2>1, <2>2, <2>3
  <2>5. \A k \in 1 .. n : k = i \/ k \in i + 1 .. n \/ k \notin fit
    <3>1. \A k \in 1 .. n : k = i \/ k \in i + 1 .. n \/ k < i
      BY <1>3, <2>1
    <3>2. \A k \in fit : ~(k < i)
      BY <1>3, <1>6, <2>1
    <3> QED
      BY <3>1, <3>2
  <2> HIDE DEF h, t
  <2>6. /\ next \in PlanRecords
        /\ next.yielded = Append(plan.yielded, h) /\ next.todo = t /\ next.stage = "local"
        /\ next.state = plan.state /\ next.skip = plan.skip /\ next.preferred = plan.preferred
        /\ next.steady = plan.steady /\ next.seen = plan.seen
        /\ next.leading = plan.leading /\ next.trailing = plan.trailing
    BY <2>1, <2>2, MovedParts
  <2> HIDE DEF next
  <2>7. ToSet(Append(y, h)) = ToSet(y) \union {h}
    BY <1>2, <2>1, Appended
  <2>8. Fits(plan, Append(y, h))
    <3>1. h \in plan.seen /\ h \notin ToSet(y) /\ h \notin plan.leading /\ Fits(plan, y)
      BY <1>1, <2>1 DEF y
    <3> QED
      BY <1>2, <2>1, <3>1, FitsAppended
  <2>9. Fits(next, next.yielded)
    BY <2>6, <2>8, FitsStill DEF y
  <2>10. plan.steady \subseteq ToSet(Append(y, h)) \union ToSet(t)
    <3> SUFFICES ASSUME NEW g \in plan.steady, g \notin ToSet(y) PROVE g = h \/ g \in ToSet(t)
      BY <2>7
    <3>1. PICK k \in 1 .. n : s[k] = g
      BY <1>1, <1>3
    <3>2. k \in fit
      BY <1>4, <3>1
    <3> QED
      BY <2>2, <2>5, <3>1, <3>2 DEF h
  <2>11. RestInStep(next, t, view)
    <3>1. next.skip \ {NoHost} \subseteq ToSet(next.yielded) /\ next.leading \subseteq next.skip
      BY <1>1, <2>6, <2>7 DEF y
    <3>2. ToSet(next.yielded) \intersect ToSet(t) \subseteq next.skip
      BY <1>1, <2>4, <2>6, <2>7 DEF y
    <3>3. next.steady \subseteq ToSet(next.yielded) \union ToSet(t)
      BY <2>6, <2>10 DEF y
    <3>4. \A g \in ToSet(t) : g \in view.chosen /\ (g \in view.up => g \in next.seen)
      BY <1>1, <2>4, <2>6
    <3> QED
      BY <1>1, <2>2, <3>1, <3>2, <3>3, <3>4 DEF RestInStep
  <2>12. OpenInStep(next, view)
    BY <2>6, <2>9, <2>11 DEF OpenInStep
  <2>13. next.state = "open"
    BY <2>6
  <2> QED
    BY <2>6, <2>12, <2>13 DEF PlanInStep, next, h, t
<1> QED
  BY <1>5, <1>6 DEF n

\* The replicas and the preferred host are all read: the list s of the local hosts, as it is
\* at this moment, is what the rest of the plan is made of.
LEMMA FrontEnds ==
    ASSUME NEW plan \in PlanRecords, NEW view, OpenInStep(plan, view), plan.stage = "front", plan.todo = << >>,
           NEW s \in Seq(Hosts), IsInjective(s),
           ToSet(s) \subseteq view.chosen, ToSet(s) \intersect view.up = view.eligible
    PROVE  Fits(plan, plan.yielded) /\ RestInStep(plan, s, view)
<1> DEFINE y == plan.yielded
<1>1. y \in Seq(Hosts)
  BY PlanParts
<1>2. y \o plan.todo = y
  BY <1>1, ConcatEmptySeq
<1>3. FrontInStep(plan, view) /\ plan.steady \subseteq view.eligible /\ view.eligible \subseteq plan.seen
  BY DEF OpenInStep
<1>4. Fits(plan, y) /\ ToSet(y) = plan.skip \ {NoHost} /\ plan.leading \subseteq plan.skip /\ view.default
  BY <1>2, <1>3 DEF FrontInStep
<1> HIDE DEF y
<1>5. \A h \in ToSet(s) : h \in view.chosen /\ (h \in view.up => h \in plan.seen)
  BY <1>3
<1>6. plan.steady \subseteq ToSet(s) /\ ToSet(y) \intersect ToSet(s) \subseteq plan.skip
  BY <1>3, <1>4
<1> QED
  BY <1>4, <1>5, <1>6 DEF RestInStep, y

\* What a change of the cluster makes of a plan that is being read.
Seen(plan, eligible) == [plan EXCEPT !.steady = @ \intersect eligible, !.seen = @ \union eligible]

\* It is a plan, of which only the two sets of hosts have changed.
LEMMA SeenParts ==
    ASSUME NEW plan \in PlanRecords, NEW eligible \in SUBSET Hosts
    PROVE  LET next == Seen(plan, eligible)
           IN  /\ next \in PlanRecords
               /\ next.steady = plan.steady \intersect eligible /\ next.seen = plan.seen \union eligible
               /\ next.state = plan.state /\ next.stage = plan.stage
               /\ next.yielded = plan.yielded /\ next.todo = plan.todo
               /\ next.skip = plan.skip /\ next.preferred = plan.preferred
               /\ next.leading = plan.leading /\ next.trailing = plan.trailing
<1> DEFINE steady == plan.steady \intersect eligible
           seen == plan.seen \union eligible
           D == Seq(Hosts)
           H == SUBSET Hosts
<1>1. plan.steady \in H /\ plan.seen \in H
  BY PlanParts
<1>2. steady \in H /\ seen \in H /\ Seen(plan, eligible) = [plan EXCEPT !.steady = steady, !.seen = seen]
  BY <1>1 DEF Seen
<1>3. plan \in
        [state : {"open", "done"}, stage : {"whole", "front", "local"}, todo : D,
         skip : SUBSET (Hosts \union {NoHost}), preferred : Hosts \union {NoHost}, yielded : D,
         steady : H, seen : H, leading : H, trailing : H]
  BY DEF PlanRecords
<1> HIDE DEF steady, seen, D, H
<1>4. Seen(plan, eligible) \in
        [state : {"open", "done"}, stage : {"whole", "front", "local"}, todo : D,
         skip : SUBSET (Hosts \union {NoHost}), preferred : Hosts \union {NoHost}, yielded : D,
         steady : H, seen : H, leading : H, trailing : H]
  BY <1>2, <1>3
<1>5. LET next == Seen(plan, eligible)
      IN  /\ next.steady = steady /\ next.seen = seen
          /\ next.state = plan.state /\ next.stage = plan.stage
          /\ next.yielded = plan.yielded /\ next.todo = plan.todo
          /\ next.skip = plan.skip /\ next.preferred = plan.preferred
          /\ next.leading = plan.leading /\ next.trailing = plan.trailing
  BY <1>2, <1>3
<1> QED
  BY <1>4, <1>5 DEF PlanRecords, steady, seen, D, H

\* A change of the cluster keeps all plans in step: a local host that comes up is one that
\* they may reach from then on.
LEMMA ObservedKeeps ==
    ASSUME NEW plan, NEW view, NEW next, PlanInStep(plan, view),
           next.chosen = view.chosen, next.default = view.default, next.eligible \in SUBSET Hosts,
           view.default => \A h \in view.chosen : h \in next.up => h \in view.up \/ h \in next.eligible
    PROVE  PlanInStep(IF plan.state # "open" THEN plan ELSE Seen(plan, next.eligible), next)
<1>1. CASE plan.state # "open"
  BY <1>1 DEF PlanInStep
<1>2. CASE plan.state = "open"
  <2> DEFINE e == next.eligible
             new == Seen(plan, e)
  <2>1. plan \in PlanRecords /\ OpenInStep(plan, view)
    BY <1>2, OpenPlan
  <2>2. /\ new \in PlanRecords
        /\ new.steady = plan.steady \intersect e /\ new.seen = plan.seen \union e
        /\ new.state = plan.state /\ new.stage = plan.stage
        /\ new.yielded = plan.yielded /\ new.todo = plan.todo
        /\ new.skip = plan.skip /\ new.preferred = plan.preferred
        /\ new.leading = plan.leading /\ new.trailing = plan.trailing
    BY <2>1, SeenParts
  <2> HIDE DEF new
  <2>3. \A s : Fits(plan, s) => Fits(new, s)
    BY <2>2, FitsStill
  <2>4. plan.stage = "whole" => WholeInStep(new)
    BY <2>1, <2>2, <2>3 DEF OpenInStep, WholeInStep
  <2>5. plan.stage = "front" => FrontInStep(new, next)
    BY <2>1, <2>2, <2>3 DEF OpenInStep, FrontInStep
  <2>6. ASSUME plan.stage = "local" PROVE Fits(new, new.yielded) /\ RestInStep(new, new.todo, next)
    <3>1. Fits(plan, plan.yielded) /\ RestInStep(plan, plan.todo, view)
      BY <2>1, <2>6 DEF OpenInStep
    <3>2. \A h \in ToSet(plan.todo) : h \in next.chosen /\ (h \in next.up => h \in new.seen)
      BY <2>2, <3>1 DEF RestInStep
    <3>3. new.steady \subseteq ToSet(plan.yielded) \union ToSet(plan.todo)
      BY <2>2, <3>1 DEF RestInStep
    <3> QED
      BY <2>2, <2>3, <3>1, <3>2, <3>3 DEF RestInStep
  <2>7. OpenInStep(new, next)
    BY <2>2, <2>4, <2>5, <2>6 DEF OpenInStep
  <2>8. new.state = "open"
    BY <1>2, <2>2
  <2> QED
    BY <1>2, <2>2, <2>7, <2>8 DEF PlanInStep, new
<1> QED
  BY <1>1, <1>2

-----------------------------------------------------------------------------
(* The steps.                                                              *)

\* What the policy and the cluster are.
LEMMA PolicyFacts ==
    ASSUME HostsInStep
    PROVE  /\ NoHost \notin Hosts
           /\ lbPolicy.base \in {"RoundRobin", "DCAware", "Default"}
           /\ lbPolicy.wrappers \in Seq({"TokenAware", "AllowList"})
           /\ lbPolicy.base = "Default" => lbPolicy.wrappers = << >>
           /\ \A list \in cluster.replicas : list \in Seq(Hosts) /\ IsInjective(list)
<1>1. cluster \in Clusters /\ lbPolicy = cluster.policy
  BY DEF HostsInStep
<1>2. NoHost \notin Hosts /\ cluster.policy.base \in {"RoundRobin", "DCAware", "Default"}
  BY <1>1, BalancingAssumption
<1>3. cluster.policy.wrappers \in Seq({"TokenAware", "AllowList"})
  BY <1>1, BalancingAssumption
<1>4. cluster.policy.base = "Default" => cluster.policy.wrappers = << >>
  BY <1>1, BalancingAssumption
<1>5. \A list \in cluster.replicas : list \in Seq(Hosts) /\ IsInjective(list)
  BY <1>1, BalancingAssumption
<1> QED
  BY <1>1, <1>2, <1>3, <1>4, <1>5

\* The list of local hosts, cached or not, has the local hosts that are known, each once.
LEMMA LocalHostsKept ==
    ASSUME HostsInStep
    PROVE  /\ LocalHosts \in Seq(Hosts) /\ IsInjective(LocalHosts)
           /\ ToSet(LocalHosts) = {h \in ToSet(known) : Chosen(h)}
<1> DEFINE keep == {h \in Hosts : Chosen(h)}
           made == Only(known, keep)
<1>1. known \in Seq(Hosts) /\ IsInjective(known)
  BY DEF HostsInStep
<1>2. ToSet(known) \subseteq Hosts
  BY <1>1, Elements
<1> HIDE DEF keep
<1>3. made \in Seq(Hosts) /\ ToSet(made) = ToSet(known) \intersect keep /\ Ordered(made, known)
  BY <1>1, OnlyKeeps
<1>4. IsInjective(made)
  BY <1>1, <1>3, OrderedOnce
<1>5. ToSet(made) = {h \in ToSet(known) : Chosen(h)}
  BY <1>2, <1>3 DEF keep
<1>6. CASE cached
  BY <1>6 DEF HostsInStep, LocalHosts
<1>7. CASE ~cached
  <2>1. LocalHosts = made
    BY <1>7 DEF LocalHosts, keep
  <2> QED
    BY <1>3, <1>4, <1>5, <2>1
<1> QED
  BY <1>6, <1>7

\* The hosts that a plan of the default policy should reach are the local ones that are up.
LEMMA ViewFacts ==
    ASSUME HostsInStep
    PROVE  /\ View.eligible = Eligible /\ View.up = {h \in Hosts : IsUp(h)}
           /\ View.chosen = {h \in Hosts : Chosen(h)} /\ View.default = (lbPolicy.base = "Default")
           /\ ToSet(known) \subseteq Hosts /\ Eligible \subseteq ToSet(known)
           /\ View.default => Eligible = {h \in ToSet(known) : Chosen(h) /\ IsUp(h)}
<1>1. ToSet(known) \subseteq Hosts
  BY Elements DEF HostsInStep
<1>2. ASSUME lbPolicy.base = "Default" PROVE Eligible = {h \in ToSet(known) : Chosen(h) /\ IsUp(h)}
  <2>1. lbPolicy.wrappers = << >>
    BY <1>2, PolicyFacts
  <2>2. Len(lbPolicy.wrappers) = 0
    BY <2>1
  <2>3. \A h : Near(h, 1) <=> Chosen(h)
    BY <1>2, <2>2 DEF Near, Chosen
  <2> QED
    BY <1>2, <2>3 DEF Eligible
<1>3. Eligible \subseteq ToSet(known)
  BY DEF Eligible
<1> QED
  BY <1>1, <1>2, <1>3 DEF View

\* A plan that has just been made is one.
LEMMA NewPlanParts ==
    ASSUME NEW todo \in Seq(Hosts), NEW stage \in {"whole", "front"}, NEW skip \in SUBSET (Hosts \union {NoHost}),
           NEW preferred \in Hosts \union {NoHost}, NEW leading \in SUBSET Hosts, NEW trailing \in SUBSET Hosts,
           Eligible \in SUBSET Hosts
    PROVE  NewPlan(todo, stage, skip, preferred, leading, trailing) \in PlanRecords
<1> DEFINE D == Seq(Hosts)
           none == << >>
           plan == NewPlan(todo, stage, skip, preferred, leading, trailing)
<1>1. none \in D /\ todo \in D
  OBVIOUS
<1>2. plan = [state |-> "open", stage |-> stage, todo |-> todo, skip |-> skip, preferred |-> preferred, yielded |-> none,
              steady |-> Eligible, seen |-> Eligible, leading |-> leading, trailing |-> trailing]
  BY DEF NewPlan
<1> HIDE DEF D, none, plan
<1>3. plan \in
        [state : {"open", "done"}, stage : {"whole", "front", "local"}, todo : D,
         skip : SUBSET (Hosts \union {NoHost}), preferred : Hosts \union {NoHost}, yielded : D,
         steady : SUBSET Hosts, seen : SUBSET Hosts, leading : SUBSET Hosts, trailing : SUBSET Hosts]
  BY <1>1, <1>2
<1> QED
  BY <1>3 DEF PlanRecords, D, plan

\* A plan of the two older policies, with the wrappers around them.
LEMMA WholePlanMade ==
    ASSUME HostsInStep, lbPolicy.base # "Default", NEW replicas \in cluster.replicas,
           ToSet(replicas) \subseteq ToSet(known), NEW start \in Nat, NEW base \in Seq(Hosts), IsInjective(base),
           ToSet(base) = {h \in ToSet(known) : Near(h, Len(lbPolicy.wrappers) + 1)}
    PROVE  PlanInStep(NewPlan(WrappedPlan(base, replicas, start), "whole", {}, NoHost, Leading(replicas), {}), View)
<1> DEFINE w == WrappedPlan(base, replicas, start)
           n == Len(lbPolicy.wrappers)
           near == {h \in ToSet(replicas) : Near(h, 1)}
           lead == Leading(replicas)
           plan == NewPlan(w, "whole", {}, NoHost, lead, {})
<1>1. /\ NoHost \notin Hosts /\ lbPolicy.wrappers \in Seq({"TokenAware", "AllowList"})
      /\ replicas \in Seq(Hosts) /\ IsInjective(replicas)
  BY PolicyFacts
<1>2. ToSet(known) \in SUBSET Hosts /\ Eligible \in SUBSET Hosts /\ View.eligible = Eligible
  BY ViewFacts
<1>3. WrapKept(w, replicas, ToSet(known), 1)
  BY <1>1, <1>2, WrappedPlanKeeps
<1>4. w \in Seq(Hosts) /\ IsInjective(w) /\ ToSet(w) = Eligible
  BY <1>3 DEF WrapKept, Eligible
<1>5. lead \in SUBSET Hosts /\ InFront(w, lead)
  <2>1. CASE "TokenAware" \in ToSet(lbPolicy.wrappers)
    <3>1. \E j \in 1 .. n : lbPolicy.wrappers[j] = "TokenAware"
      BY <1>1, <2>1, Elements
    <3>2. InFront(w, near)
      BY <1>3, <3>1 DEF WrapKept
    <3> QED
      BY <1>2, <2>1, <3>2 DEF Leading
  <2>2. CASE "TokenAware" \notin ToSet(lbPolicy.wrappers)
    BY <2>2 DEF Leading, InFront
  <2> QED
    BY <2>1, <2>2
<1> HIDE DEF w, lead
<1>6. /\ plan \in PlanRecords /\ plan.state = "open" /\ plan.stage = "whole"
      /\ plan.yielded \o plan.todo = w /\ plan.preferred = NoHost
      /\ plan.steady = Eligible /\ plan.seen = Eligible
      /\ plan.leading = lead /\ plan.trailing = {}
  <2>1. plan \in PlanRecords
    <3> DEFINE none == {}
               stage == "whole"
    <3>1. none \in SUBSET (Hosts \union {NoHost}) /\ none \in SUBSET Hosts /\ NoHost \in Hosts \union {NoHost}
          /\ stage \in {"whole", "front"}
      OBVIOUS
    <3>2. w \in Seq(Hosts) /\ lead \in SUBSET Hosts /\ Eligible \in SUBSET Hosts
      BY <1>2, <1>4, <1>5
    <3> HIDE DEF none, stage
    <3>3. NewPlan(w, stage, none, NoHost, lead, none) \in PlanRecords
      BY <3>1, <3>2, NewPlanParts
    <3> QED
      BY <3>3 DEF none, stage
  <2>2. << >> \o w = w
    BY <1>4, ConcatEmptySeq
  <2> QED
    BY <2>1, <2>2 DEF NewPlan
<1> HIDE DEF plan
<1>7. Fits(plan, w)
  <2>1. \A i, j \in 1 .. Len(w) : i < j => Lead(plan, w[i], w[j])
    BY <1>5, <1>6 DEF Lead, InFront
  <2>2. ToSet(w) \subseteq plan.seen \union {plan.preferred}
    BY <1>4, <1>6
  <2> QED
    BY <1>4, <2>1, <2>2 DEF Fits
<1>8. WholeInStep(plan)
  BY <1>4, <1>6, <1>7 DEF WholeInStep
<1>9. OpenInStep(plan, View)
  BY <1>2, <1>6, <1>8 DEF OpenInStep
<1> QED
  BY <1>6, <1>9 DEF PlanInStep, plan, w, lead

\* A plan of the default policy: the preferred host and the replicas, ordered.
LEMMA FrontPlanMade ==
    ASSUME HostsInStep, lbPolicy.base = "Default", NEW replicas \in cluster.replicas,
           ToSet(replicas) \subseteq ToSet(known), NEW preferred \in {NoHost} \union ToSet(known),
           NEW s \in SetToSeqs(UsableReplicas(replicas)), NEW dice \in BOOLEAN,
           NEW newest \in IF NewlyUp(UsableReplicas(replicas)) = {} THEN {NoHost}
                          ELSE NewlyUp(UsableReplicas(replicas))
    PROVE  LET usable == UsableReplicas(replicas)
               front == Only(OrderedReplicas(s, newest, dice), Hosts \ {preferred})
           IN  PlanInStep(NewPlan(IF preferred = NoHost THEN front ELSE <<preferred>> \o front, "front",
                                  usable \union {preferred}, preferred, usable, Trailing(usable)), View)
<1> DEFINE usable == UsableReplicas(replicas)
           t == OrderedReplicas(s, newest, dice)
           keep == Hosts \ {preferred}
           front == Only(t, keep)
           list == IF preferred = NoHost THEN front ELSE <<preferred>> \o front
           skip == usable \union {preferred}
           behind == Trailing(usable)
           plan == NewPlan(list, "front", skip, preferred, usable, behind)
<1>1. NoHost \notin Hosts /\ replicas \in Seq(Hosts) /\ IsInjective(replicas)
  BY PolicyFacts
<1>2. /\ View.eligible = Eligible /\ View.default /\ ToSet(known) \subseteq Hosts /\ Eligible \in SUBSET Hosts
      /\ Eligible = {h \in ToSet(known) : Chosen(h) /\ IsUp(h)}
  BY ViewFacts
<1>3. usable \subseteq Eligible /\ usable \in SUBSET Hosts /\ usable \subseteq ToSet(replicas)
  BY <1>2 DEF UsableReplicas, Chosen
<1>4. IsFiniteSet(usable)
  BY <1>1, <1>3, Distinct, FS_Subset
<1>5. preferred \in Hosts \union {NoHost} /\ skip \in SUBSET (Hosts \union {NoHost})
  BY <1>2, <1>3
<1>6. behind \in SUBSET Hosts
  BY <1>3 DEF Trailing
<1>7. s \in SetToSeqs(usable) /\ newest \in IF NewlyUp(usable) = {} THEN {NoHost} ELSE NewlyUp(usable)
  OBVIOUS
<1> HIDE DEF usable
<1>8. /\ Permutes(t, s) /\ ToSet(s) = usable
      /\ \A i, j \in 1 .. Len(t) : i < j /\ t[i] \in behind => t[j] \in behind
  BY <1>1, <1>3, <1>4, <1>7, OrderedReplicasKeep
<1>9. t \in Seq(Hosts) /\ IsInjective(t) /\ ToSet(t) = usable
  BY <1>8 DEF Permutes
<1> HIDE DEF t, keep, behind
<1>10. front \in Seq(Hosts) /\ ToSet(front) = usable \intersect keep /\ Ordered(front, t)
  BY <1>9, OnlyKeeps
<1>11. IsInjective(front)
  BY <1>9, <1>10, OrderedOnce
<1> HIDE DEF front
<1>12. \A i, j \in 1 .. Len(front) : i < j /\ front[i] \in behind => front[j] \in behind
  BY <1>8, <1>10 DEF Ordered
<1>13. \A i \in 1 .. Len(front) : front[i] \in usable
  BY <1>10, Elements
<1>14. ASSUME preferred # NoHost
       PROVE  /\ list \in Seq(Hosts) /\ IsInjective(list) /\ ToSet(list) = usable \union {preferred}
              /\ Len(front) \in Nat /\ Len(list) = Len(front) + 1 /\ list[1] = preferred
              /\ \A i \in 2 .. Len(front) + 1 : list[i] = front[i - 1]
  <2> DEFINE one == <<preferred>>
  <2>1. preferred \in Hosts
    BY <1>5, <1>14
  <2>2. one \in Seq(Hosts) /\ Len(one) = 1 /\ one[1] = preferred /\ \A i, j \in 1 .. 1 : i = j
    BY <2>1
  <2>3. ToSet(one) = {one[i] : i \in 1 .. 1} /\ IsInjective(one)
    BY <2>2, Elements
  <2>4. ToSet(one) = {preferred}
    BY <2>2, <2>3
  <2>5. list = one \o front
    BY <1>14
  <2> HIDE DEF one, list
  <2>6. ToSet(one) \intersect ToSet(front) = {}
    BY <1>10, <2>4 DEF keep
  <2>7. /\ list \in Seq(Hosts) /\ Len(list) = Len(one) + Len(front)
        /\ \A i \in 1 .. Len(one) + Len(front) : list[i] = IF i <= Len(one) THEN one[i] ELSE front[i - Len(one)]
    <3>1. front \in Seq(Hosts) /\ one \in Seq(Hosts)
      BY <1>10, <2>2
    <3>2. one \o front \in Seq(Hosts) /\ Len(one \o front) = Len(one) + Len(front)
      BY <3>1, Joined
    <3>3. \A i \in 1 .. Len(one) + Len(front) :
              (one \o front)[i] = IF i <= Len(one) THEN one[i] ELSE front[i - Len(one)]
      BY <3>1, Joined
    <3> QED
      BY <2>5, <3>2, <3>3
  <2>8. IsInjective(list) /\ ToSet(list) = ToSet(one) \union ToSet(front)
    BY <1>10, <1>11, <2>2, <2>3, <2>5, <2>6, Joined
  <2>9. Len(front) \in Nat
    BY <1>10
  <2>10. list[1] = preferred
    BY <2>2, <2>7, <2>9
  <2>11. \A i \in 2 .. Len(front) + 1 : list[i] = front[i - 1]
    BY <2>2, <2>7, <2>9
  <2>12. ToSet(list) = usable \union {preferred}
    BY <1>3, <1>10, <2>4, <2>8 DEF keep
  <2> QED
    BY <2>2, <2>7, <2>8, <2>9, <2>10, <2>11, <2>12
<1>15. ASSUME preferred = NoHost PROVE list = front /\ ToSet(list) = usable
  BY <1>1, <1>3, <1>10, <1>15 DEF keep
<1>16. list \in Seq(Hosts) /\ IsInjective(list) /\ ToSet(list) = skip \ {NoHost}
  <2>1. CASE preferred = NoHost
    BY <1>1, <1>3, <1>10, <1>11, <1>15, <2>1
  <2>2. CASE preferred # NoHost
    BY <1>1, <1>3, <1>5, <1>14, <2>2
  <2> QED
    BY <2>1, <2>2
<1>17. ASSUME NEW i \in 1 .. Len(list), NEW j \in 1 .. Len(list), i < j, list[i] # preferred
       PROVE  list[i] \in usable /\ (list[i] \in behind => list[j] \in behind)
  <2>1. CASE preferred = NoHost
    BY <1>12, <1>13, <1>15, <1>17, <2>1
  <2>2. CASE preferred # NoHost
    <3> DEFINE n == Len(front)
    <3>1. n \in Nat /\ Len(list) = n + 1 /\ list[1] = preferred /\ \A k \in 2 .. n + 1 : list[k] = front[k - 1]
      BY <1>14, <2>2
    <3> HIDE DEF n, list
    <3>2. i # 1 /\ i \in 2 .. n + 1 /\ j \in 2 .. n + 1 /\ i - 1 \in 1 .. n /\ j - 1 \in 1 .. n /\ i - 1 < j - 1
      BY <1>17, <3>1
    <3>3. list[i] = front[i - 1] /\ list[j] = front[j - 1]
      BY <3>1, <3>2
    <3> QED
      BY <1>12, <1>13, <3>2, <3>3 DEF n
  <2> QED
    BY <2>1, <2>2
<1> HIDE DEF list, skip
<1>18. /\ plan \in PlanRecords /\ plan.state = "open" /\ plan.stage = "front"
       /\ plan.yielded \o plan.todo = list /\ plan.skip = skip /\ plan.preferred = preferred
       /\ plan.steady = Eligible /\ plan.seen = Eligible
       /\ plan.leading = usable /\ plan.trailing = behind
  <2>1. plan \in PlanRecords
    <3> DEFINE stage == "front"
    <3>1. stage \in {"whole", "front"}
      OBVIOUS
    <3>2. /\ list \in Seq(Hosts) /\ skip \in SUBSET (Hosts \union {NoHost}) /\ preferred \in Hosts \union {NoHost}
          /\ usable \in SUBSET Hosts /\ behind \in SUBSET Hosts /\ Eligible \in SUBSET Hosts
      BY <1>2, <1>3, <1>5, <1>6, <1>16 DEF skip
    <3> HIDE DEF stage
    <3>3. NewPlan(list, stage, skip, preferred, usable, behind) \in PlanRecords
      BY <3>1, <3>2, NewPlanParts
    <3> QED
      BY <3>3 DEF stage
  <2>2. << >> \o list = list
    BY <1>16, ConcatEmptySeq
  <2> QED
    BY <2>1, <2>2 DEF NewPlan
<1> HIDE DEF plan
<1>19. Fits(plan, list)
  <2>1. \A i, j \in 1 .. Len(list) : i < j => Lead(plan, list[i], list[j])
    BY <1>17, <1>18 DEF Lead
  <2>2. ToSet(list) \subseteq plan.seen \union {plan.preferred}
    BY <1>3, <1>16, <1>18 DEF skip
  <2> QED
    BY <1>16, <2>1, <2>2 DEF Fits
<1>20. FrontInStep(plan, View)
  BY <1>2, <1>16, <1>18, <1>19 DEF FrontInStep, skip
<1>21. OpenInStep(plan, View)
  BY <1>2, <1>18, <1>20 DEF OpenInStep
<1> QED
  BY <1>18, <1>21 DEF PlanInStep, plan, list, skip, usable, behind, front, t, keep

\* A step that leaves the hosts as they are changes nothing of what plans depend on, and the
\* list of local hosts may be made.
LEMMA ViewStays ==
    ASSUME lbPolicy' = lbPolicy, known' = known, health' = health
    PROVE  View' = View
BY DEF View, Eligible, Near, IsLocal, LocalDc, IsUp, Chosen

\* The hosts and the list of local ones are in step after it.
LEMMA HostsStay ==
    ASSUME HostsInStep, cluster' = cluster, lbPolicy' = lbPolicy, known' = known, health' = health, lbIndex' \in Nat,
           (localCache' = localCache /\ cached' = cached) \/ (localCache' = LocalHosts /\ cached' = TRUE)
    PROVE  HostsInStep'
<1>1. \A h : Chosen(h)' <=> Chosen(h)
  BY DEF Chosen, IsLocal, LocalDc
<1>2. {h \in ToSet(known) : Chosen(h)}' = {h \in ToSet(known) : Chosen(h)}
  BY <1>1
<1>3. CASE localCache' = localCache /\ cached' = cached
  BY <1>2, <1>3 DEF HostsInStep
<1>4. CASE localCache' = LocalHosts /\ cached' = TRUE
  <2>1. /\ LocalHosts \in Seq(Hosts) /\ IsInjective(LocalHosts)
        /\ ToSet(LocalHosts) = {h \in ToSet(known) : Chosen(h)}
    BY LocalHostsKept
  <2>2. localCache' \in Seq(Hosts) /\ IsInjective(localCache') /\ ToSet(localCache') = {h \in ToSet(known) : Chosen(h)}'
    BY <1>2, <1>4, <2>1
  <2> QED
    BY <1>4, <2>2 DEF HostsInStep
<1> QED
  BY <1>3, <1>4

\* A step that changes one plan.
LEMMA OnePlan ==
    ASSUME PlansInStep, View' = View, NEW p \in Plans, NEW plan, PlanInStep(plan, View),
           plans' = [plans EXCEPT ![p] = plan]
    PROVE  PlansInStep'
<1>1. DOMAIN plans = Plans /\ \A q \in Plans : PlanInStep(plans[q], View)
  BY DEF PlansInStep
<1>2. DOMAIN plans' = Plans /\ \A q \in Plans : plans'[q] = IF q = p THEN plan ELSE plans[q]
  BY <1>1
<1>3. \A q \in Plans : PlanInStep(plans'[q], View')
  BY <1>1, <1>2
<1> QED
  BY <1>2, <1>3 DEF PlansInStep

\* There is a first place of those that fit.
LEMMA LeastPlace ==
    ASSUME NEW n \in Nat, NEW fit \in SUBSET (1 .. n), fit # {}
    PROVE  \E i \in fit : \A j \in fit : i <= j
<1> DEFINE S == {k \in 0 .. n : (\E i \in fit : i <= k) => \E i \in fit : \A j \in fit : i <= j}
<1>1. 0 \in S
  OBVIOUS
<1>2. ASSUME NEW k \in 1 .. n, k - 1 \in S PROVE k \in S
  <2> SUFFICES ASSUME NEW i \in fit, i <= k PROVE \E l \in fit : \A j \in fit : l <= j
    OBVIOUS
  <2>1. CASE \E l \in fit : l <= k - 1
    BY <1>2, <2>1
  <2>2. CASE ~\E l \in fit : l <= k - 1
    <3>1. i = k /\ \A j \in fit : k <= j
      BY <2>2
    <3> QED
      BY <3>1
  <2> QED
    BY <2>1, <2>2
<1> HIDE DEF S
<1>3. 0 .. n \subseteq S
  BY <1>1, <1>2, UpTo
<1>4. n \in S
  BY <1>3
<1>5. PICK i : i \in fit
  OBVIOUS
<1>6. i \in 1 .. n
  BY <1>5
<1>7. i <= n
  BY <1>6
<1> QED
  BY <1>4, <1>5, <1>7 DEF S

\* next() among the local hosts that are left changes one plan, which stays in step.
LEMMA NextOfKeeps ==
    ASSUME HostsInStep, NEW p, plans[p] \in PlanRecords, plans[p].state = "open", OpenInStep(plans[p], View),
           NEW s, Fits(plans[p], plans[p].yielded), RestInStep(plans[p], s, View)
    PROVE  \E plan : PlanInStep(plan, View) /\ NextOf(p, s) = [plans EXCEPT ![p] = plan]
<1> DEFINE plan == plans[p]
           view == View
           fit == {i \in 1 .. Len(s) : s[i] \notin plans[p].skip /\ IsUp(s[i])}
           place == {i \in 1 .. Len(s) : s[i] \notin plan.skip /\ s[i] \in view.up}
<1>1. /\ plan.steady \subseteq view.eligible /\ view.eligible \subseteq plan.seen /\ view.default
      /\ s \in Seq(Hosts)
  BY DEF OpenInStep, RestInStep
<1>2. view.eligible \subseteq view.up /\ view.up = {h \in Hosts : IsUp(h)}
  BY <1>1, ViewFacts
<1>3. NoHost \notin Hosts
  BY BalancingAssumption
<1>4. fit = place
  <2>1. \A i \in 1 .. Len(s) : s[i] \in Hosts
    BY <1>1
  <2> QED
    BY <1>2, <2>1
<1>5. plan \in PlanRecords /\ plan.state = "open" /\ Fits(plan, plan.yielded) /\ RestInStep(plan, s, view)
  OBVIOUS
<1>6. NextOf(p, s) = IF fit = {} THEN Ended(p)
                     ELSE Yielded(p, s[CHOOSE i \in fit : \A j \in fit : i <= j],
                                  SubSeq(s, (CHOOSE i \in fit : \A j \in fit : i <= j) + 1, Len(s)), "local")
  BY DEF NextOf
<1>7. Ended(p) = [plans EXCEPT ![p] = Finished(plan)]
  BY DEF Ended, Finished
<1>8. \A h, t : Yielded(p, h, t, "local") = [plans EXCEPT ![p] = Moved(plan, h, t, "local")]
  BY DEF Yielded, Moved
<1> HIDE DEF plan, view, fit
<1>9. /\ place = {} => PlanInStep(Finished(plan), view)
      /\ \A i \in place : (\A j \in place : i <= j) =>
             PlanInStep(Moved(plan, s[i], SubSeq(s, i + 1, Len(s)), "local"), view)
  BY <1>1, <1>2, <1>3, <1>5, RestKeeps
<1> HIDE DEF place
<1>10. CASE fit = {}
  BY <1>4, <1>6, <1>7, <1>9, <1>10 DEF view
<1>11. CASE fit # {}
  <2> DEFINE least == CHOOSE i \in fit : \A j \in fit : i <= j
  <2>1. Len(s) \in Nat /\ fit \in SUBSET (1 .. Len(s))
    BY <1>1 DEF fit
  <2>2. \E i \in fit : \A j \in fit : i <= j
    BY <1>11, <2>1, LeastPlace
  <2>3. least \in fit /\ \A j \in fit : least <= j
    BY <2>2
  <2>4. NextOf(p, s) = Yielded(p, s[least], SubSeq(s, least + 1, Len(s)), "local")
    BY <1>6, <1>11
  <2> HIDE DEF least
  <2>5. PlanInStep(Moved(plan, s[least], SubSeq(s, least + 1, Len(s)), "local"), view)
    BY <1>4, <1>9, <2>3
  <2> QED
    BY <1>8, <2>4, <2>5 DEF view
<1> QED
  BY <1>10, <1>11

\* The next index is one.
LEMMA NextIndexType ==
    ASSUME lbIndex \in Nat
    PROVE  NextIndex \in Nat
BY DEF NextIndex

\* newQueryPlan() of the two older policies.
LEMMA RoundRobinStep ==
    ASSUME LbInv, NEW p \in Plans, NEW replicas \in cluster.replicas, ToSet(replicas) \subseteq ToSet(known),
           NEW start \in 0 .. Len(replicas), RoundRobinNewPlan(p, replicas, start)
    PROVE  LbInv'
<1>1. /\ HostsInStep /\ PlansInStep /\ known \in Seq(Hosts) /\ IsInjective(known) /\ lbIndex \in Nat
      /\ lbPolicy.base = "RoundRobin" /\ lbIndex' = NextIndex
      /\ cluster' = cluster /\ lbPolicy' = lbPolicy /\ known' = known /\ health' = health
      /\ localCache' = localCache /\ cached' = cached
  BY DEF LbInv, HostsInStep, RoundRobinNewPlan
<1> DEFINE base == Rotated(known, lbIndex)
           plan == NewPlan(WrappedPlan(base, replicas, start), "whole", {}, NoHost, Leading(replicas), {})
<1>2. plans' = [plans EXCEPT ![p] = plan]
  BY DEF RoundRobinNewPlan
<1>3. base \in Seq(Hosts) /\ ToSet(base) = ToSet(known) /\ IsInjective(base)
  BY <1>1, RotatedKeeps
<1>4. lbPolicy.wrappers \in Seq({"TokenAware", "AllowList"}) /\ replicas \in Seq(Hosts)
  BY <1>1, PolicyFacts
<1>5. Len(lbPolicy.wrappers) \in Nat /\ start \in Nat
  <2>1. Len(replicas) \in Nat
    BY <1>4
  <2> QED
    BY <1>4, <2>1
<1>6. \A h : Near(h, Len(lbPolicy.wrappers) + 1)
  <2>1. Len(lbPolicy.wrappers) + 1 .. Len(lbPolicy.wrappers) = {}
    BY <1>5
  <2> QED
    BY <1>1, <2>1 DEF Near
<1>7. ToSet(base) = {h \in ToSet(known) : Near(h, Len(lbPolicy.wrappers) + 1)}
  BY <1>3, <1>6
<1> HIDE DEF base
<1>8. PlanInStep(plan, View)
  BY <1>1, <1>3, <1>5, <1>7, WholePlanMade
<1> HIDE DEF plan
<1>9. View' = View
  BY <1>1, ViewStays
<1>10. PlansInStep'
  BY <1>1, <1>2, <1>8, <1>9, OnePlan
<1>11. HostsInStep'
  BY <1>1, NextIndexType, HostsStay
<1> QED
  BY <1>10, <1>11 DEF LbInv

\* The same, with the list of local hosts and the index moved first.
LEMMA DCAwareStep ==
    ASSUME LbInv, NEW p \in Plans, NEW replicas \in cluster.replicas, ToSet(replicas) \subseteq ToSet(known),
           NEW start \in 0 .. Len(replicas), DCAwareNewPlan(p, replicas, start)
    PROVE  LbInv'
<1>1. /\ HostsInStep /\ PlansInStep /\ lbIndex \in Nat /\ lbPolicy.base = "DCAware" /\ lbIndex' = NextIndex
      /\ cluster' = cluster /\ lbPolicy' = lbPolicy /\ known' = known /\ health' = health
      /\ localCache' = LocalHosts /\ cached' = TRUE
  BY DEF LbInv, HostsInStep, DCAwareNewPlan
<1> DEFINE local == LocalHosts
           index == lbIndex'
           base == Rotated(local, index)
           plan == NewPlan(WrappedPlan(base, replicas, start), "whole", {}, NoHost, Leading(replicas), {})
<1>2. plans' = [plans EXCEPT ![p] = plan]
  BY DEF DCAwareNewPlan
<1>3. local \in Seq(Hosts) /\ IsInjective(local) /\ ToSet(local) = {h \in ToSet(known) : Chosen(h)}
  BY <1>1, LocalHostsKept
<1>4. index \in Nat
  BY <1>1, NextIndexType
<1> HIDE DEF local, index
<1>5. base \in Seq(Hosts) /\ ToSet(base) = ToSet(local) /\ IsInjective(base)
  BY <1>3, <1>4, RotatedKeeps
<1>6. lbPolicy.wrappers \in Seq({"TokenAware", "AllowList"}) /\ replicas \in Seq(Hosts)
  BY <1>1, PolicyFacts
<1>7. Len(lbPolicy.wrappers) \in Nat /\ start \in Nat
  <2>1. Len(replicas) \in Nat
    BY <1>6
  <2> QED
    BY <1>6, <2>1
<1>8. \A h : Near(h, Len(lbPolicy.wrappers) + 1) <=> Chosen(h)
  <2>1. Len(lbPolicy.wrappers) + 1 .. Len(lbPolicy.wrappers) = {}
    BY <1>7
  <2> QED
    BY <1>1, <2>1 DEF Near, Chosen
<1>9. ToSet(base) = {h \in ToSet(known) : Near(h, Len(lbPolicy.wrappers) + 1)}
  BY <1>3, <1>5, <1>8
<1> HIDE DEF base
<1>10. PlanInStep(plan, View)
  BY <1>1, <1>5, <1>7, <1>9, WholePlanMade
<1> HIDE DEF plan
<1>11. View' = View
  BY <1>1, ViewStays
<1>12. PlansInStep'
  BY <1>1, <1>2, <1>10, <1>11, OnePlan
<1>13. HostsInStep'
  BY <1>1, NextIndexType, HostsStay
<1> QED
  BY <1>12, <1>13 DEF LbInv

\* newQueryPlan() of the default policy.
LEMMA DefaultStep ==
    ASSUME LbInv, NEW p \in Plans, NEW replicas \in cluster.replicas, ToSet(replicas) \subseteq ToSet(known),
           NEW preferred \in {NoHost} \union ToSet(known), DefaultNewPlan(p, replicas, preferred)
    PROVE  LbInv'
<1>1. /\ HostsInStep /\ PlansInStep /\ lbIndex' \in Nat /\ lbPolicy.base = "Default"
      /\ cluster' = cluster /\ lbPolicy' = lbPolicy /\ known' = known /\ health' = health
      /\ localCache' = localCache /\ cached' = cached
  BY DEF LbInv, HostsInStep, DefaultNewPlan
<1> DEFINE usable == UsableReplicas(replicas)
<1>2. PICK s \in SetToSeqs(usable), dice \in BOOLEAN,
           newest \in IF NewlyUp(usable) = {} THEN {NoHost} ELSE NewlyUp(usable) :
              LET front == Only(OrderedReplicas(s, newest, dice), Hosts \ {preferred})
              IN  plans' = [plans EXCEPT ![p] =
                      NewPlan(IF preferred = NoHost THEN front ELSE <<preferred>> \o front, "front",
                              usable \union {preferred}, preferred, usable, Trailing(usable))]
  BY DEF DefaultNewPlan
<1> DEFINE front == Only(OrderedReplicas(s, newest, dice), Hosts \ {preferred})
           plan == NewPlan(IF preferred = NoHost THEN front ELSE <<preferred>> \o front, "front",
                           usable \union {preferred}, preferred, usable, Trailing(usable))
<1>3. PlanInStep(plan, View)
  BY <1>1, FrontPlanMade
<1>4. plans' = [plans EXCEPT ![p] = plan]
  BY <1>2
<1> HIDE DEF plan
<1>5. View' = View
  BY <1>1, ViewStays
<1>6. PlansInStep'
  BY <1>1, <1>3, <1>4, <1>5, OnePlan
<1>7. HostsInStep'
  BY <1>1, HostsStay
<1> QED
  BY <1>6, <1>7 DEF LbInv

\* next() of a plan that was settled when it was made, and its end.
LEMMA PlannedStep ==
    ASSUME LbInv, NEW p \in Plans, NextPlanned(p) \/ NextDone(p)
    PROVE  LbInv'
<1>1. /\ HostsInStep /\ PlansInStep /\ lbIndex' \in Nat
      /\ cluster' = cluster /\ lbPolicy' = lbPolicy /\ known' = known /\ health' = health
      /\ localCache' = localCache /\ cached' = cached
  BY DEF LbInv, HostsInStep, NextPlanned, NextDone
<1> DEFINE plan == plans[p]
           view == View
<1>2. PlanInStep(plan, view)
  BY <1>1 DEF PlansInStep
<1>3. \E next : PlanInStep(next, view) /\ plans' = [plans EXCEPT ![p] = next]
  <2>1. CASE NextPlanned(p)
    <3> DEFINE next == Moved(plan, Head(plan.todo), Tail(plan.todo), plan.stage)
    <3>1. plan.state = "open" /\ plan.stage \in {"whole", "front"} /\ plan.todo # << >>
      BY <2>1 DEF NextPlanned
    <3>2. plans' = [plans EXCEPT ![p] = next]
      BY <2>1 DEF NextPlanned, Yielded, Moved
    <3> HIDE DEF plan, view
    <3>3. PlanInStep(next, view)
      BY <1>2, <3>1, PlannedKeeps
    <3> HIDE DEF next
    <3> QED
      BY <3>2, <3>3
  <2>2. CASE NextDone(p)
    <3> DEFINE next == Finished(plan)
    <3>1. plan.state = "open" /\ plan.stage = "whole" /\ plan.todo = << >>
      BY <2>2 DEF NextDone
    <3>2. plans' = [plans EXCEPT ![p] = next]
      BY <2>2 DEF NextDone, Ended, Finished
    <3> HIDE DEF plan, view
    <3>3. PlanInStep(next, view)
      BY <1>2, <3>1, EndKeeps
    <3> HIDE DEF next
    <3> QED
      BY <3>2, <3>3
  <2> QED
    BY <2>1, <2>2
<1>4. View' = View
  BY <1>1, ViewStays
<1>5. PlansInStep'
  BY <1>1, <1>3, <1>4, OnePlan
<1>6. HostsInStep'
  BY <1>1, HostsStay
<1> QED
  BY <1>5, <1>6 DEF LbInv

\* next() once the replicas are used up, and from then on.
LEMMA LocalFirstStep ==
    ASSUME LbInv, NEW p \in Plans, NextLocalFirst(p)
    PROVE  LbInv'
<1>1. /\ HostsInStep /\ PlansInStep /\ lbIndex \in Nat /\ lbIndex' = NextIndex
      /\ cluster' = cluster /\ lbPolicy' = lbPolicy /\ known' = known /\ health' = health
      /\ localCache' = LocalHosts /\ cached' = TRUE
  BY DEF LbInv, HostsInStep, NextLocalFirst
<1> DEFINE plan == plans[p]
           view == View
           local == LocalHosts
           s == Rotated(local, lbIndex)
<1>2. PlanInStep(plan, view)
  BY <1>1 DEF PlansInStep
<1>3. plan.state = "open" /\ plan.stage = "front" /\ plan.todo = << >> /\ plans' = NextOf(p, s)
  BY DEF NextLocalFirst
<1>4. local \in Seq(Hosts) /\ IsInjective(local) /\ ToSet(local) = {h \in ToSet(known) : Chosen(h)}
  BY <1>1, LocalHostsKept
<1> HIDE DEF local
<1>5. s \in Seq(Hosts) /\ IsInjective(s) /\ ToSet(s) = ToSet(local)
  BY <1>1, <1>4, RotatedKeeps
<1> HIDE DEF s, plan
<1>6. plan \in PlanRecords /\ OpenInStep(plan, view)
  BY <1>2, <1>3, OpenPlan
<1>7. view.default
  BY <1>3, <1>6 DEF OpenInStep, FrontInStep
<1>8. ToSet(s) \subseteq view.chosen /\ ToSet(s) \intersect view.up = view.eligible
  BY <1>1, <1>4, <1>5, <1>7, ViewFacts
<1> HIDE DEF view
<1>9. Fits(plan, plan.yielded) /\ RestInStep(plan, s, view)
  BY <1>3, <1>5, <1>6, <1>8, FrontEnds
<1>10. \E next : PlanInStep(next, View) /\ NextOf(p, s) = [plans EXCEPT ![p] = next]
  BY <1>1, <1>3, <1>6, <1>9, NextOfKeeps DEF plan, view
<1>11. View' = View
  BY <1>1, ViewStays
<1>12. PlansInStep'
  BY <1>1, <1>3, <1>10, <1>11, OnePlan
<1>13. HostsInStep'
  BY <1>1, NextIndexType, HostsStay
<1> QED
  BY <1>12, <1>13 DEF LbInv

\* next() among the local hosts that are left.
LEMMA LocalStep ==
    ASSUME LbInv, NEW p \in Plans, NextLocal(p)
    PROVE  LbInv'
<1>1. /\ HostsInStep /\ PlansInStep /\ lbIndex' \in Nat
      /\ cluster' = cluster /\ lbPolicy' = lbPolicy /\ known' = known /\ health' = health
      /\ localCache' = localCache /\ cached' = cached
  BY DEF LbInv, HostsInStep, NextLocal
<1> DEFINE plan == plans[p]
           view == View
<1>2. PlanInStep(plan, view)
  BY <1>1 DEF PlansInStep
<1>3. plan.state = "open" /\ plan.stage = "local" /\ plans' = NextOf(p, plan.todo)
  BY DEF NextLocal
<1> HIDE DEF plan, view
<1>4. plan \in PlanRecords /\ OpenInStep(plan, view)
  BY <1>2, <1>3, OpenPlan
<1>5. Fits(plan, plan.yielded) /\ RestInStep(plan, plan.todo, view)
  BY <1>3, <1>4 DEF OpenInStep
<1>6. \E next : PlanInStep(next, View) /\ NextOf(p, plan.todo) = [plans EXCEPT ![p] = next]
  BY <1>1, <1>3, <1>4, <1>5, NextOfKeeps DEF plan, view
<1>7. View' = View
  BY <1>1, ViewStays
<1>8. PlansInStep'
  BY <1>1, <1>3, <1>6, <1>7, OnePlan
<1>9. HostsInStep'
  BY <1>1, HostsStay
<1> QED
  BY <1>8, <1>9 DEF LbInv

\* A change of the cluster, as the plans see it.
LEMMA ObservedStep ==
    ASSUME PlansInStep, Observed, lbPolicy' = lbPolicy, ToSet(known') \subseteq Hosts,
           lbPolicy.base = "Default" => \A h \in Hosts : Chosen(h) /\ IsUp(h)' => IsUp(h) \/ h \in Eligible'
    PROVE  PlansInStep'
<1> DEFINE view == View
           next == View'
           e == Eligible'
<1>1. \A h : Chosen(h)' <=> Chosen(h)
  BY DEF Chosen, IsLocal, LocalDc
<1>2. /\ view.chosen = {h \in Hosts : Chosen(h)} /\ view.up = {h \in Hosts : IsUp(h)}
      /\ view.default = (lbPolicy.base = "Default")
  BY DEF View
<1>3. next = [eligible |-> Eligible', up |-> {h \in Hosts : IsUp(h)'}, chosen |-> {h \in Hosts : Chosen(h)'},
              default |-> lbPolicy'.base = "Default"]
  BY DEF View
<1>4. e \in SUBSET Hosts
  BY DEF Eligible
<1> HIDE DEF e
<1>5. /\ next.chosen = {h \in Hosts : Chosen(h)'} /\ next.up = {h \in Hosts : IsUp(h)'}
      /\ next.default = (lbPolicy'.base = "Default") /\ next.eligible = e
  BY <1>3 DEF e
<1>6. next.chosen = view.chosen /\ next.default = view.default
  BY <1>1, <1>2, <1>5
<1>7. view.default => \A h \in view.chosen : h \in next.up => h \in view.up \/ h \in next.eligible
  BY <1>2, <1>5 DEF e
<1>8. \A q \in Plans : PlanInStep(plans[q], view)
  BY DEF PlansInStep
<1>9. plans' = [q \in Plans |-> IF plans[q].state # "open" THEN plans[q] ELSE Seen(plans[q], e)]
  BY DEF Observed, Seen, e
<1> HIDE DEF view, next
<1>10. ASSUME NEW q \in Plans PROVE PlanInStep(plans'[q], next)
  <2> DEFINE plan == plans[q]
  <2>1. plans'[q] = IF plan.state # "open" THEN plan ELSE Seen(plan, next.eligible)
    BY <1>5, <1>9
  <2>2. PlanInStep(plan, view)
    BY <1>8
  <2> HIDE DEF plan
  <2>3. next.eligible \in SUBSET Hosts
    BY <1>4, <1>5
  <2>4. PlanInStep(IF plan.state # "open" THEN plan ELSE Seen(plan, next.eligible), next)
    BY <1>6, <1>7, <2>2, <2>3, ObservedKeeps
  <2> QED
    BY <2>1, <2>4
<1>11. DOMAIN plans' = Plans
  BY <1>9
<1> QED
  BY <1>10, <1>11 DEF PlansInStep, next

\* A host comes.
LEMMA AddStep ==
    ASSUME LbInv, NEW h \in Hosts, AddHost(h)
    PROVE  LbInv'
<1>1. /\ PlansInStep /\ known \in Seq(Hosts) /\ IsInjective(known) /\ h \notin ToSet(known)
      /\ known' = Append(known, h) /\ cached' = FALSE
      /\ cluster' = cluster /\ lbPolicy' = lbPolicy /\ health' = health /\ lbIndex' = lbIndex /\ Observed
  BY DEF LbInv, HostsInStep, AddHost
<1> DEFINE m == Len(known)
           new == Append(known, h)
<1>2. /\ new \in Seq(Hosts) /\ Len(new) = m + 1 /\ (\A i \in 1 .. m : new[i] = known[i]) /\ new[m + 1] = h
  BY <1>1, Appended
<1>3. m \in Nat /\ ToSet(known) = {known[i] : i \in 1 .. m} /\ \A i, j \in 1 .. m : known[i] = known[j] => i = j
  BY <1>1, Elements
<1> HIDE DEF new, m
<1>4. ToSet(new) \subseteq Hosts /\ (IsInjective(new) <=> \A i, j \in 1 .. m + 1 : new[i] = new[j] => i = j)
  BY <1>2, Elements
<1>5. IsInjective(new)
  <2>1. \A i \in 1 .. m + 1 : i \in 1 .. m \/ i = m + 1
    BY <1>3
  <2>2. \A i \in 1 .. m : new[i] # h
    BY <1>1, <1>2, <1>3
  <2>3. \A i, j \in 1 .. m : new[i] = new[j] => i = j
    BY <1>2, <1>3
  <2> QED
    BY <1>2, <1>4, <2>1, <2>2, <2>3
<1>6. known' = new
  BY <1>1 DEF new
<1>7. PlansInStep'
  <2>1. \A g : IsUp(g)' <=> IsUp(g)
    BY <1>1 DEF IsUp
  <2> QED
    BY <1>1, <1>4, <1>6, <2>1, ObservedStep
<1>8. HostsInStep'
  BY <1>1, <1>2, <1>5, <1>6 DEF LbInv, HostsInStep
<1> QED
  BY <1>7, <1>8 DEF LbInv

\* A host goes.
LEMMA RemoveStep ==
    ASSUME LbInv, NEW h \in Hosts, RemoveHost(h)
    PROVE  LbInv'
<1> DEFINE keep == Hosts \ {h}
           new == Only(known, keep)
<1>1. /\ PlansInStep /\ known \in Seq(Hosts) /\ IsInjective(known)
      /\ known' = new /\ cached' = FALSE
      /\ cluster' = cluster /\ lbPolicy' = lbPolicy /\ health' = health /\ lbIndex' = lbIndex /\ Observed
  BY DEF LbInv, HostsInStep, RemoveHost
<1> HIDE DEF keep
<1>2. new \in Seq(Hosts) /\ Ordered(new, known)
  BY <1>1, OnlyKeeps
<1>3. IsInjective(new)
  BY <1>1, <1>2, OrderedOnce
<1>4. ToSet(new) \subseteq Hosts
  BY <1>2, Elements
<1> HIDE DEF new
<1>5. PlansInStep'
  <2>1. \A g : IsUp(g)' <=> IsUp(g)
    BY <1>1 DEF IsUp
  <2> QED
    BY <1>1, <1>4, <2>1, ObservedStep
<1>6. HostsInStep'
  BY <1>1, <1>2, <1>3 DEF LbInv, HostsInStep
<1> QED
  BY <1>5, <1>6 DEF LbInv

\* A host fails or recovers: one that comes up is known, so that plans may reach it.
LEMMA HealthStep ==
    ASSUME LbInv, NEW h \in Hosts, NEW to \in {"idle", "down"}, HealthChanges(h, to)
    PROVE  LbInv'
<1>1. /\ HostsInStep /\ PlansInStep /\ known \in Seq(Hosts) /\ IsInjective(known) /\ h \in ToSet(known)
      /\ health \in [Hosts -> Healths] /\ health' = [health EXCEPT ![h] = to]
      /\ cluster' = cluster /\ lbPolicy' = lbPolicy /\ known' = known /\ lbIndex' = lbIndex
      /\ cached' = cached /\ localCache' = localCache /\ Observed
  BY DEF LbInv, HostsInStep, HealthChanges
<1>2. health' \in [Hosts -> Healths]
  BY <1>1 DEF Healths
<1>3. \A g : Chosen(g)' <=> Chosen(g)
  BY <1>1 DEF Chosen, IsLocal, LocalDc
<1>4. {g \in ToSet(known) : Chosen(g)}' = {g \in ToSet(known) : Chosen(g)}
  BY <1>1, <1>3
<1>5. HostsInStep'
  BY <1>1, <1>2, <1>4 DEF HostsInStep
<1>6. ToSet(known') \subseteq Hosts
  BY <1>1, Elements
<1>7. ASSUME lbPolicy.base = "Default", NEW g \in Hosts, Chosen(g), IsUp(g)', ~IsUp(g)
      PROVE  g \in Eligible'
  <2>1. g = h
    BY <1>1, <1>7 DEF IsUp
  <2>2. lbPolicy.wrappers = << >>
    BY <1>1, <1>7, PolicyFacts
  <2>3. 1 .. Len(lbPolicy.wrappers) = {}
    BY <2>2
  <2>4. Near(g, 1)'
    <3>1. Near(g, 1)
      BY <1>7, <2>3 DEF Near, Chosen
    <3> QED
      BY <1>1, <3>1 DEF Near, IsLocal, LocalDc
  <2> QED
    BY <1>1, <1>7, <2>1, <2>4 DEF Eligible
<1>8. PlansInStep'
  BY <1>1, <1>6, <1>7, ObservedStep
<1> QED
  BY <1>5, <1>8 DEF LbInv

\* init(), and newQueryPlan() before it.
LEMMA RefusedStep ==
    ASSUME LbInv, InitPolicy \/ \E p \in Plans : PlanRefused(p)
    PROVE  LbInv'
<1>1. /\ HostsInStep /\ PlansInStep /\ lbIndex' \in Nat
      /\ cluster' = cluster /\ lbPolicy' = lbPolicy /\ known' = known /\ health' = health
      /\ localCache' = localCache /\ cached' = cached
  BY DEF LbInv, HostsInStep, InitPolicy, PlanRefused
<1>2. HostsInStep'
  BY <1>1, HostsStay
<1>3. View' = View
  BY <1>1, ViewStays
<1>4. CASE InitPolicy
  <2>1. plans' = plans
    BY <1>4 DEF InitPolicy
  <2> QED
    BY <1>1, <1>2, <1>3, <2>1 DEF LbInv, PlansInStep
<1>5. ASSUME NEW p \in Plans, PlanRefused(p) PROVE PlansInStep'
  <2> DEFINE plan == [state |-> "error"]
  <2>1. plans' = [plans EXCEPT ![p] = plan] /\ PlanInStep(plan, View)
    BY <1>5 DEF PlanRefused, PlanInStep
  <2> HIDE DEF plan
  <2> QED
    BY <1>1, <1>3, <1>5, <2>1, OnePlan
<1> QED
  BY <1>2, <1>4, <1>5 DEF LbInv

\* The hosts, the list of local hosts and the plans stay in step.
THEOREM LbInvariant == LbSpec => []LbInv
<1>1. LbInit => LbInv
  <2> SUFFICES ASSUME LbInit PROVE LbInv
    OBVIOUS
  <2>1. /\ cluster \in Clusters /\ lbPolicy = cluster.policy /\ known = cluster.hosts /\ health = cluster.health
        /\ lbIndex = 0 /\ cached = FALSE /\ plans = [p \in Plans |-> NotMade]
    BY DEF LbInit
  <2>2. cluster.hosts \in Seq(Hosts) /\ IsInjective(cluster.hosts) /\ cluster.health \in [Hosts -> Healths]
    BY <2>1, BalancingAssumption DEF Healths
  <2>3. HostsInStep
    BY <2>1, <2>2 DEF HostsInStep
  <2>4. PlansInStep
    BY <2>1 DEF PlansInStep, PlanInStep
  <2> QED
    BY <2>3, <2>4 DEF LbInv
<1>2. LbInv /\ [LbNext]_lbVars => LbInv'
  <2> SUFFICES ASSUME LbInv, [LbNext]_lbVars PROVE LbInv'
    OBVIOUS
  <2>1. CASE InitPolicy
    BY <2>1, RefusedStep
  <2>2. ASSUME NEW p \in Plans, PlanMade(p) PROVE LbInv'
    <3>1. CASE PlanRefused(p)
      BY <3>1, RefusedStep
    <3>2. ASSUME NEW replicas \in cluster.replicas, ToSet(replicas) \subseteq ToSet(known),
                 NEW start \in 0 .. Len(replicas),
                 RoundRobinNewPlan(p, replicas, start) \/ DCAwareNewPlan(p, replicas, start)
          PROVE  LbInv'
      BY <3>2, RoundRobinStep, DCAwareStep
    <3>3. ASSUME NEW replicas \in cluster.replicas, ToSet(replicas) \subseteq ToSet(known),
                 NEW preferred \in {NoHost} \union (cluster.preferred \intersect ToSet(known)),
                 DefaultNewPlan(p, replicas, preferred)
          PROVE  LbInv'
      <4>1. preferred \in {NoHost} \union ToSet(known)
        OBVIOUS
      <4> QED
        BY <3>3, <4>1, DefaultStep
    <3> QED
      BY <2>2, <3>1, <3>2, <3>3 DEF PlanMade
  <2>3. ASSUME NEW p \in Plans, PlanRead(p) PROVE LbInv'
    BY <2>3, PlannedStep, LocalFirstStep, LocalStep DEF PlanRead
  <2>4. ASSUME NEW h \in Hosts, AddHost(h) \/ RemoveHost(h) \/ \E to \in {"idle", "down"} : HealthChanges(h, to)
        PROVE  LbInv'
    BY <2>4, AddStep, RemoveStep, HealthStep
  <2>5. CASE UNCHANGED lbVars
    <3>1. /\ plans' = plans /\ cluster' = cluster /\ lbPolicy' = lbPolicy /\ known' = known /\ health' = health
          /\ lbIndex' = lbIndex /\ localCache' = localCache /\ cached' = cached
      BY <2>5 DEF lbVars
    <3>2. View' = View
      BY <3>1, ViewStays
    <3>3. lbIndex' \in Nat
      BY <3>1 DEF LbInv, HostsInStep
    <3>4. HostsInStep'
      BY <3>1, <3>3, HostsStay DEF LbInv
    <3> QED
      BY <3>1, <3>2, <3>4 DEF LbInv, PlansInStep
  <2> QED
    BY <2>1, <2>2, <2>3, <2>4, <2>5 DEF LbNext
<1> QED
  BY <1>1, <1>2, PTL DEF LbSpec

\* What has been read of a plan that is in step.
LEMMA ReadFits ==
    ASSUME NEW plan, NEW view, PlanInStep(plan, view), plan.state \in {"open", "done"}
    PROVE  /\ plan.yielded \in Seq(Hosts) /\ Fits(plan, plan.yielded)
           /\ plan.state = "done" => plan.steady \subseteq ToSet(plan.yielded)
<1>1. plan # NotMade /\ plan # [state |-> "error"]
  BY DEF NotMade
<1>2. plan \in PlanRecords
  BY <1>1 DEF PlanInStep
<1>3. plan.yielded \in Seq(Hosts) /\ plan.todo \in Seq(Hosts) /\ plan.stage \in {"whole", "front", "local"}
  BY <1>2, PlanParts
<1>4. CASE plan.state = "done"
  BY <1>1, <1>3, <1>4 DEF PlanInStep
<1>5. CASE plan.state = "open"
  <2>1. OpenInStep(plan, view)
    BY <1>5, OpenPlan
  <2>2. CASE plan.stage = "local"
    BY <1>3, <1>5, <2>1, <2>2 DEF OpenInStep
  <2>3. CASE plan.stage # "local"
    <3>1. Fits(plan, plan.yielded \o plan.todo)
      BY <1>3, <2>1, <2>3 DEF OpenInStep, WholeInStep, FrontInStep
    <3>2. Fits(plan, plan.yielded)
      BY <1>3, <3>1, FitsAtFirst
    <3> QED
      BY <1>3, <1>5, <3>2
  <2> QED
    BY <1>3, <1>5, <2>2, <2>3
<1> QED
  BY <1>4, <1>5

\* A query plan yields no host twice and none that was not allowed, local and, for the default
\* policy, up, but the preferred one; when it is read to its end it has yielded every host that
\* was all of that from its start on: the cached list, the shared index and hosts that come,
\* go, fail and recover meanwhile make no difference (newQueryPlan() and next() of the
\* policies, for any hosts, wrappers, replicas and number of changes).
THEOREM PlansAreComplete == LbSpec => []PlansComplete
<1>1. LbInv => PlansComplete
  <2> SUFFICES ASSUME LbInv, NEW p \in Plans, Started(p)
               PROVE  /\ Cardinality(Read(p)) = Len(plans[p].yielded)
                      /\ Read(p) \subseteq plans[p].seen \union {plans[p].preferred}
                      /\ plans[p].state = "done" => plans[p].steady \subseteq Read(p)
    BY DEF PlansComplete
  <2> DEFINE plan == plans[p]
             view == View
  <2>1. PlanInStep(plan, view) /\ plan.state \in {"open", "done"} /\ Read(p) = ToSet(plan.yielded)
    BY DEF LbInv, PlansInStep, Started, Read
  <2> HIDE DEF plan, view
  <2>2. /\ plan.yielded \in Seq(Hosts) /\ Fits(plan, plan.yielded)
        /\ plan.state = "done" => plan.steady \subseteq ToSet(plan.yielded)
    BY <2>1, ReadFits
  <2>3. IsInjective(plan.yielded) /\ ToSet(plan.yielded) \subseteq plan.seen \union {plan.preferred}
    BY <2>2 DEF Fits
  <2>4. Cardinality(ToSet(plan.yielded)) = Len(plan.yielded)
    BY <2>2, <2>3, Distinct
  <2> QED
    BY <2>1, <2>2, <2>3, <2>4 DEF plan
<1> QED
  BY <1>1, LbInvariant, PTL

\* The replicas come before all other hosts but the preferred one; and of three replicas or
\* more, none of them newly up, the unhealthy ones come behind the healthy ones when those are
\* the majority (TokenAwareIterator, _sendUnhealthyToTheBack() and the power of two choices
\* that follows it).  Nothing is claimed of the unhealthy replicas of a plan with a replica
\* that is newly up: the code leaves them where they are, though the comment of the class
\* promises to reorder them.
THEOREM ReplicasComeFirst == LbSpec => []ReplicasLead
<1>1. LbInv => ReplicasLead
  <2> SUFFICES ASSUME LbInv, NEW p \in Plans, Started(p),
                      NEW i \in 1 .. Len(plans[p].yielded), NEW j \in 1 .. Len(plans[p].yielded), i < j
               PROVE  Lead(plans[p], plans[p].yielded[i], plans[p].yielded[j])
    BY DEF ReplicasLead, Lead
  <2> DEFINE plan == plans[p]
             view == View
  <2>1. PlanInStep(plan, view) /\ plan.state \in {"open", "done"}
        /\ i \in 1 .. Len(plan.yielded) /\ j \in 1 .. Len(plan.yielded)
    BY DEF LbInv, PlansInStep, Started
  <2> HIDE DEF plan, view
  <2>2. Fits(plan, plan.yielded)
    BY <2>1, ReadFits
  <2>3. Lead(plan, plan.yielded[i], plan.yielded[j])
    BY <2>1, <2>2 DEF Fits
  <2> QED
    BY <2>3 DEF plan
<1> QED
  BY <1>1, LbInvariant, PTL

=============================================================================
