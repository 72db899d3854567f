----------------------- MODULE ExecuteConcurrentProofs -----------------------
(***************************************************************************)
(* Proofs about executeConcurrent(), for any number of items, any          *)
(* concurrencyLevel and any maxErrors.                                     *)
(***************************************************************************)
EXTENDS ExecuteConcurrent, FiniteSetTheorems, TLAPS

\* There are n numbers from 0 to n - 1.
LEMMA Counting ==
    ASSUME NEW n \in Nat
    PROVE  IsFiniteSet(0 .. n - 1) /\ Cardinality(0 .. n - 1) = n
<1>1. 0 \in Int /\ n - 1 \in Int
  OBVIOUS
<1>2. IsFiniteSet(0 .. n - 1) /\ Cardinality(0 .. n - 1) = IF 0 > n - 1 THEN 0 ELSE (n - 1) - 0 + 1
  BY <1>1, FS_Interval
<1> QED
  BY <1>2

-----------------------------------------------------------------------------
(* The result group.                                                       *)

\* Marking an item that had no entry adds it to the settled ones and leaves the others.
LEMMA ResultAccounted ==
    ASSUME NEW S, IsFiniteSet(S), NEW g, IsGroup(g, S), NEW m \in Nat \ {0},
           Accounts(g, m), NEW i \in S, g.resultItems[i] = "none"
    PROVE  /\ IsGroup(WithResult(g, i), S)
           /\ Accounts(WithResult(g, i), m)
           /\ \A j \in S : WithResult(g, i).resultItems[j] =
                              IF j = i THEN "rows" ELSE g.resultItems[j]
<1> DEFINE h == WithResult(g, i)
<1>1. /\ DOMAIN h = DOMAIN g
      /\ h.totalExecuted = g.totalExecuted + 1
      /\ h.errors = g.errors
      /\ h.resultItems = [g.resultItems EXCEPT ![i] = "rows"]
  BY DEF WithResult, IsGroup
<1>2. Settled(h) = Settled(g) \cup {i} /\ i \notin Settled(g) /\ Settled(g) \subseteq S
  BY <1>1 DEF Settled, IsGroup
<1>3. Failed(h) = Failed(g)
  BY <1>1 DEF Failed, IsGroup
<1>4. IsFiniteSet(Settled(g))
  BY <1>2, FS_Subset
<1>5. Cardinality(Settled(h)) = Cardinality(Settled(g)) + 1
  BY <1>2, <1>4, FS_AddElement
<1>6. IsGroup(h, S)
  BY <1>1 DEF IsGroup
<1>7. Accounts(h, m)
  BY <1>1, <1>3, <1>5 DEF Accounts
<1> QED
  BY <1>1, <1>6, <1>7 DEF IsGroup

\* The same for an item that failed, of which only the first maxErrors errors are kept.
LEMMA ErrorAccounted ==
    ASSUME NEW S, IsFiniteSet(S), NEW g, IsGroup(g, S), NEW m \in Nat \ {0},
           Accounts(g, m), NEW i \in S, g.resultItems[i] = "none"
    PROVE  /\ IsGroup(WithError(g, i, m), S)
           /\ Accounts(WithError(g, i, m), m)
           /\ \A j \in S : WithError(g, i, m).resultItems[j] =
                              IF j = i THEN "error" ELSE g.resultItems[j]
<1> DEFINE h == WithError(g, i, m)
<1>1. /\ DOMAIN h = DOMAIN g
      /\ h.totalExecuted = g.totalExecuted + 1
      /\ h.errors = IF Len(g.errors) < m THEN Append(g.errors, i) ELSE g.errors
      /\ h.resultItems = [g.resultItems EXCEPT ![i] = "error"]
  BY DEF WithError, IsGroup
<1>2. Settled(h) = Settled(g) \cup {i} /\ i \notin Settled(g) /\ Settled(g) \subseteq S
  BY <1>1 DEF Settled, IsGroup
<1>3. Failed(h) = Failed(g) \cup {i} /\ i \notin Failed(g) /\ Failed(g) \subseteq S
  BY <1>1 DEF Failed, IsGroup
<1>4. IsFiniteSet(Settled(g)) /\ IsFiniteSet(Failed(g))
  BY <1>2, <1>3, FS_Subset
<1>5. Cardinality(Settled(h)) = Cardinality(Settled(g)) + 1
  BY <1>2, <1>4, FS_AddElement
<1>6. Cardinality(Failed(h)) = Cardinality(Failed(g)) + 1 /\ Cardinality(Failed(g)) \in Nat
  BY <1>3, <1>4, FS_AddElement, FS_CardinalityType
<1>7. IsGroup(h, S)
  BY <1>1 DEF IsGroup
<1>8. /\ Len(h.errors) = Least(m, Cardinality(Failed(h)))
      /\ \A j \in DOMAIN h.errors : h.errors[j] \in Failed(h)
  <2>1. g.errors \in Seq(S)
    BY DEF IsGroup
  <2>2. CASE Len(g.errors) < m
    <3>1. h.errors = Append(g.errors, i)
      BY <1>1, <2>2
    <3>2. Len(g.errors) = Cardinality(Failed(g))
      BY <2>2, <1>6 DEF Accounts, Least
    <3>3. Len(h.errors) = Least(m, Cardinality(Failed(h)))
      BY <2>1, <2>2, <3>1, <3>2, <1>6 DEF Least
    <3>4. \A j \in 1 .. Len(g.errors) + 1 : h.errors[j] \in Failed(h)
      BY <2>1, <3>1, <1>3 DEF Accounts
    <3> QED
      BY <2>1, <3>1, <3>3, <3>4
  <2>3. CASE ~(Len(g.errors) < m)
    BY <2>1, <2>3, <1>1, <1>3, <1>6 DEF Accounts, Least
  <2> QED
    BY <2>2, <2>3
<1>9. Accounts(h, m)
  BY <1>1, <1>5, <1>8 DEF Accounts
<1> QED
  BY <1>1, <1>7, <1>9 DEF IsGroup

-----------------------------------------------------------------------------
(* The array.  Item i is handled by chain i % level in its iteration       *)
(* i \div level: the strides of the chains part the array among them.      *)

Owner(i) == i % level
Turn(i) == i \div level

\* The quotient and the remainder by which a chain and its turn are told from an index.
LEMMA Division ==
    ASSUME NEW l \in Nat \ {0}, NEW i \in Nat
    PROVE  i % l \in 0 .. l - 1 /\ i \div l \in Nat /\ i = (i % l) + l * (i \div l)
  OBVIOUS

\* Two turns of the same chain are at least a stride of all the chains apart.
LEMMA Product ==
    ASSUME NEW l \in Nat \ {0}, NEW s \in Nat, NEW t \in Nat, s < t
    PROVE  l * s + l <= l * t
<1>1. PICK d \in Nat : t = s + 1 + d
  <2>1. t - s - 1 \in Nat /\ t = s + 1 + (t - s - 1)
    OBVIOUS
  <2> QED
    BY <2>1
<1>2. l * t = l * s + l + l * d /\ l * d \in Nat
  BY <1>1
<1> QED
  BY <1>2

\* The strides of two chains have no item in common.
LEMMA Strides ==
    ASSUME NEW l \in Nat \ {0}, NEW w \in 0 .. l - 1, NEW t \in Nat
    PROVE  /\ w + l * t \in Nat
           /\ (w + l * t) % l = w
           /\ (w + l * t) \div l = t
<1> DEFINE i == w + l * t
           v == i % l
           s == i \div l
<1>1. i \in Nat
  OBVIOUS
<1>2. v \in 0 .. l - 1 /\ s \in Nat /\ i = v + l * s
  BY <1>1, Division
<1> HIDE DEF v, s
<1>3. ~(s < t)
  BY <1>2, Product
<1>4. ~(t < s)
  BY <1>2, Product
<1>5. s = t
  BY <1>2, <1>3, <1>4
<1>6. v = w
  BY <1>2, <1>5
<1> QED
  BY <1>1, <1>5, <1>6 DEF v, s

\* Where an item is: its chain has gone past it, is at it, or has still to come to it.
ItemInStep(i) ==
    LET w == Owner(i)
        settled == result.resultItems[i] # "none"
    IN  /\ Turn(i) < iteration[w] => sent[i] = 1 /\ settled
        /\ Turn(i) > iteration[w] => sent[i] = 0 /\ ~settled
        /\ Turn(i) = iteration[w] =>
             /\ pc[w] \in {"new", "preparing", "done"} => sent[i] = 0 /\ ~settled
             /\ pc[w] = "executing" => sent[i] = 1 /\ ~settled
             /\ pc[w] = "next" => sent[i] = 1 /\ settled
             /\ pc[w] = "failed" => sent[i] \in {0, 1}
ItemsInStep == \A i \in Array!Parameters : ItemInStep(i)

\* A chain that works on an item has one, and one that is done has no further item or
\* was stopped.
ChainsInStep ==
    \A w \in Array!Chain :
        /\ pc[w] = "new" => iteration[w] = 0
        /\ pc[w] \in {"preparing", "executing", "next"} => Array!Item(w) \in Array!Parameters
        /\ pc[w] = "done" => Array!Item(w) \notin Array!Parameters \/ stop

\* What an error leads to: with raiseOnFirstError it stops the chains, a chain that fails
\* rejects the promise, and the promise is fulfilled only by chains that are all done.
ErrorsInStep ==
    /\ stop => raise /\ promise = "rejected" /\ \E w \in Array!Chain : pc[w] = "failed"
    /\ raise /\ Failed(result) # {} => stop
    /\ \A w \in Array!Chain : pc[w] = "failed" => promise = "rejected"
    /\ promise = "fulfilled" => \A w \in Array!Chain : pc[w] = "done"

\* Once stopped, only the chains that await prepareQuery() are going to execute an item,
\* and the chain that met the error is not one of them.
Preparing == {w \in Array!Chain : pc[w] = "preparing"}
LateInStep ==
    /\ ~stop => late = 0
    /\ stop => late + Cardinality(Preparing) < level

ArrayInv ==
    /\ \E n \in Nat : Array!Parameters = 0 .. n - 1 /\ level <= n /\ (n > 0 => level > 0)
    /\ query \in [Array!Parameters -> Statement]
    /\ Array!TypeOK
    /\ GroupAccounts
    /\ ItemsInStep
    /\ ChainsInStep
    /\ ErrorsInStep
    /\ LateInStep

\* Every index belongs to one turn of one chain, and there are finitely many.
LEMMA OwnItems ==
    ASSUME ArrayInv
    PROVE  /\ level \in Nat /\ Array!Chain = 0 .. level - 1
           /\ IsFiniteSet(Array!Parameters) /\ IsFiniteSet(Array!Chain)
           /\ Cardinality(Array!Parameters) \in Nat /\ Cardinality(Array!Chain) = level
           /\ \A w \in Array!Chain, t \in Nat :
                 /\ Array!Index(w, t) \in Nat
                 /\ Owner(Array!Index(w, t)) = w /\ Turn(Array!Index(w, t)) = t
                 /\ Array!Index(w, t) \in Array!Parameters <=>
                        Array!Index(w, t) < Cardinality(Array!Parameters)
           /\ \A w \in Array!Chain : Array!Index(w, 0) = w /\ w \in Array!Parameters
           /\ \A i \in Array!Parameters :
                 /\ Owner(i) \in Array!Chain /\ Turn(i) \in Nat
                 /\ i = Array!Index(Owner(i), Turn(i))
<1>1. PICK n \in Nat : Array!Parameters = 0 .. n - 1 /\ level <= n /\ (n > 0 => level > 0)
  BY DEF ArrayInv
<1>2. level \in Nat /\ Array!Chain = 0 .. level - 1
  BY DEF ArrayInv, Array!TypeOK, Array!Chain
<1>3. /\ IsFiniteSet(Array!Parameters) /\ Cardinality(Array!Parameters) = n
      /\ IsFiniteSet(Array!Chain) /\ Cardinality(Array!Chain) = level
  BY <1>1, <1>2, Counting
<1>4. \A w \in Array!Chain, t \in Nat :
                 /\ Array!Index(w, t) \in Nat
                 /\ Owner(Array!Index(w, t)) = w /\ Turn(Array!Index(w, t)) = t
                 /\ Array!Index(w, t) \in Array!Parameters <=>
                        Array!Index(w, t) < Cardinality(Array!Parameters)
  <2> SUFFICES ASSUME NEW w \in Array!Chain, NEW t \in Nat
               PROVE  /\ Array!Index(w, t) \in Nat
                      /\ Owner(Array!Index(w, t)) = w /\ Turn(Array!Index(w, t)) = t
                      /\ Array!Index(w, t) \in Array!Parameters <=>
                             Array!Index(w, t) < Cardinality(Array!Parameters)
    OBVIOUS
  <2>1. level \in Nat \ {0} /\ w \in 0 .. level - 1
    BY <1>2
  <2>2. /\ Array!Index(w, t) \in Nat
        /\ Owner(Array!Index(w, t)) = w /\ Turn(Array!Index(w, t)) = t
    BY <2>1, Strides DEF Array!Index, Owner, Turn
  <2> QED
    BY <2>2, <1>1, <1>3
<1>5. \A w \in Array!Chain : Array!Index(w, 0) = w /\ w \in Array!Parameters
  BY <1>1, <1>2 DEF Array!Index
<1>6. ASSUME NEW i \in Array!Parameters
      PROVE  /\ Owner(i) \in Array!Chain /\ Turn(i) \in Nat
             /\ i = Array!Index(Owner(i), Turn(i))
  <2>1. level \in Nat \ {0} /\ i \in Nat
    BY <1>1, <1>2
  <2> QED
    BY <2>1, <1>2, Division DEF Array!Index, Owner, Turn
<1> QED
  BY <1>1, <1>2, <1>3, <1>4, <1>5, <1>6

\* ConcurrentArray uses the operators of this module's ResultSetGroup.
LEMMA ArrayNames ==
    /\ \A S : Array!Cardinality(S) = Cardinality(S)
    /\ \A g, S : Array!IsGroup(g, S) = IsGroup(g, S)
    /\ \A g, i : Array!WithResult(g, i) = WithResult(g, i)
    /\ \A g, i, m : Array!WithError(g, i, m) = WithError(g, i, m)
    /\ \A g : Array!Settled(g) = Settled(g)
    /\ \A S : Array!EmptyGroup(S) = EmptyGroup(S)
    /\ \A a, b : Array!Least(a, b) = Least(a, b) /\ Array!OrDefault(a, b) = OrDefault(a, b)
<1>1. \A S : Array!Cardinality(S) = Cardinality(S)
  BY DEF Array!Cardinality, Cardinality
<1>2. \A g, S : Array!IsGroup(g, S) = IsGroup(g, S)
  BY DEF Array!IsGroup, IsGroup
<1>3. \A g, i : Array!WithResult(g, i) = WithResult(g, i)
  BY DEF Array!WithResult, WithResult
<1>4. \A g, i, m : Array!WithError(g, i, m) = WithError(g, i, m)
  BY DEF Array!WithError, WithError
<1>5. \A g : Array!Settled(g) = Settled(g)
  BY DEF Array!Settled, Settled
<1>6. \A S : Array!EmptyGroup(S) = EmptyGroup(S)
  BY DEF Array!EmptyGroup, EmptyGroup
<1>7. \A a, b : Array!Least(a, b) = Least(a, b) /\ Array!OrDefault(a, b) = OrDefault(a, b)
  BY DEF Array!Least, Least, Array!OrDefault, OrDefault
<1> QED
  BY <1>1, <1>2, <1>3, <1>4, <1>5, <1>6, <1>7

\* The array executor begins with every chain before its first item.
LEMMA ArrayStarts ==
    ASSUME Array!Init
    PROVE  ArrayInv
<1> USE OptionsAssumption
<1>1. PICK n \in 0 .. MaxItems, l \in 0 .. MaxLevel :
          query \in [0 .. n - 1 -> Statement] /\ level = Least(OrDefault(l, DefaultLevel), n)
  BY ArrayNames DEF Array!Init
<1>2. Array!Parameters = 0 .. n - 1 /\ level \in Nat /\ level <= n /\ (n > 0 => level > 0)
  BY <1>1 DEF Array!Parameters, Least, OrDefault
<1>3. PICK m \in 0 .. MaxErrorsLimit : maxErrors = OrDefault(m, DefaultErrors)
  BY ArrayNames DEF Array!Init
<1>4. maxErrors \in Nat \ {0}
  BY <1>3 DEF OrDefault
<1>5. result = EmptyGroup(Array!Parameters)
  BY ArrayNames DEF Array!Init
<1>6. IsGroup(result, Array!Parameters)
  BY <1>5 DEF EmptyGroup, IsGroup
<1>7. Settled(result) = {} /\ Failed(result) = {} /\ Cardinality({}) = 0
  BY <1>5, FS_EmptySet DEF EmptyGroup, Settled, Failed
<1>8. GroupAccounts
  <2>1. result.totalExecuted = 0 /\ result.errors = << >>
    BY <1>5 DEF EmptyGroup
  <2> QED
    BY <2>1, <1>4, <1>7 DEF GroupAccounts, Accounts, Least
<1>9. Cardinality(Array!Parameters) = n
  BY <1>2, Counting
<1>10. Array!TypeOK
  BY <1>2, <1>4, <1>6, <1>9, ArrayNames DEF Array!Init, Array!TypeOK
<1>11. Array!Chain = 0 .. level - 1
  BY DEF Array!Init, Array!Chain
<1>12. ASSUME NEW i \in Array!Parameters
       PROVE  Owner(i) \in Array!Chain /\ Turn(i) \in Nat
  <2>1. level \in Nat \ {0} /\ i \in Nat
    BY <1>2
  <2> QED
    BY <2>1, <1>11, Division DEF Owner, Turn
<1>13. ItemsInStep
  BY <1>5, <1>11, <1>12 DEF ItemsInStep, ItemInStep, Array!Init, EmptyGroup
<1>14. ChainsInStep /\ ErrorsInStep /\ LateInStep
  BY <1>7, <1>11 DEF ChainsInStep, ErrorsInStep, LateInStep, Array!Init
<1> QED
  BY <1>1, <1>2, <1>8, <1>10, <1>13, <1>14 DEF ArrayInv

\* What does not change as long as the options do not.
ArrayStill ==
    /\ level' = level /\ raise' = raise /\ maxErrors' = maxErrors /\ query' = query
    /\ Array!Parameters' = Array!Parameters /\ Array!Chain' = Array!Chain
    /\ \A i : Owner(i)' = Owner(i) /\ Turn(i)' = Turn(i)
    /\ \A w : /\ Array!Item(w) = Array!Index(w, iteration[w])
              /\ Array!Item(w)' = Array!Index(w, iteration'[w])

\* Without a change of the options and of the chains there are, items keep their chains and turns.
LEMMA ArrayStable ==
    ASSUME UNCHANGED Array!options, DOMAIN pc' = DOMAIN pc
    PROVE  ArrayStill
  BY DEF ArrayStill, Array!options, Array!Parameters, Array!Chain, Owner, Turn, Array!Item, Array!Index

\* execute() starts all the chains.
LEMMA ExecuteKeeps ==
    ASSUME ArrayInv, Array!Execute
    PROVE  ArrayInv'
<1>1. ArrayStill
  BY ArrayStable DEF Array!Execute, Array!Chain
<1> USE <1>1 DEF ArrayStill
<1>2. Array!TypeOK'
  BY DEF Array!Execute, ArrayInv, Array!TypeOK, Array!Chain
<1>3. GroupAccounts' /\ Failed(result)' = Failed(result)
  BY DEF Array!Execute, ArrayInv, GroupAccounts
<1>4. ItemsInStep'
  BY OwnItems DEF Array!Execute, ArrayInv, ItemsInStep, ItemInStep
<1>5. ChainsInStep'
  <2> SUFFICES ASSUME NEW w \in Array!Chain
               PROVE  pc'[w] = "preparing" /\ Array!Item(w)' \in Array!Parameters
    BY DEF ChainsInStep
  <2>1. pc'[w] = "preparing" /\ iteration'[w] = 0
    BY DEF Array!Execute, ArrayInv, ChainsInStep
  <2> QED
    BY <2>1, OwnItems
<1>6. ErrorsInStep'
  BY <1>3, OwnItems DEF Array!Execute, ArrayInv, ErrorsInStep
<1>7. LateInStep'
  BY DEF Array!Execute, ArrayInv, ErrorsInStep, LateInStep
<1> QED
  BY <1>1, <1>2, <1>3, <1>4, <1>5, <1>6, <1>7 DEF ArrayInv

\* Leaving "preparing" makes room for one late execution.
LEMMA PreparingLess ==
    ASSUME ArrayInv, NEW w \in Array!Chain, pc[w] = "preparing", NEW where,
           where # "preparing", pc' = [pc EXCEPT ![w] = where]
    PROVE  /\ IsFiniteSet(Preparing) /\ Cardinality(Preparing) \in Nat
           /\ Cardinality(Preparing') = Cardinality(Preparing) - 1
<1>1. Preparing' = Preparing \ {w} /\ w \in Preparing /\ Preparing \subseteq Array!Chain
  BY DEF Preparing, Array!Chain
<1>2. IsFiniteSet(Preparing)
  BY <1>1, OwnItems, FS_Subset
<1> QED
  BY <1>1, <1>2, FS_RemoveElement, FS_CardinalityType

\* prepareQuery() is answered, and the item is executed.
LEMMA PreparedKeeps ==
    ASSUME ArrayInv, NEW w \in Array!Chain, Array!Prepared(w)
    PROVE  ArrayInv'
<1> DEFINE i == Array!Item(w)
<1>1. ArrayStill
  BY ArrayStable DEF Array!Prepared, Array!Send, Array!Goto
<1>2. /\ w \in 0 .. level - 1 /\ iteration[w] \in Nat /\ pc[w] = "preparing"
      /\ i \in Array!Parameters /\ i = Array!Index(w, iteration[w])
      /\ Owner(i) = w /\ Turn(i) = iteration[w]
  BY OwnItems DEF Array!Prepared, ArrayInv, Array!TypeOK, ChainsInStep, Array!Item
<1>3. /\ pc' = [pc EXCEPT ![w] = "executing"]
      /\ sent' = [sent EXCEPT ![i] = @ + 1]
      /\ late' = IF stop THEN late + 1 ELSE late
      /\ cache' = cache \cup {query[i]}
      /\ stop' = stop /\ result' = result /\ iteration' = iteration /\ promise' = promise
  BY DEF Array!Prepared, Array!Send, Array!Goto
<1> HIDE DEF i
<1> USE <1>1, <1>2, <1>3 DEF ArrayStill
<1>4. Array!TypeOK'
  <2>1. cache' \subseteq Statement /\ sent' \in [Array!Parameters -> Nat] /\ late' \in Nat
    BY DEF ArrayInv, Array!TypeOK
  <2> QED
    BY <2>1 DEF ArrayInv, Array!TypeOK
<1>5. GroupAccounts' /\ Failed(result)' = Failed(result)
  BY DEF ArrayInv, GroupAccounts
<1>6. ItemsInStep'
  <2>1. ASSUME NEW j \in Array!Parameters, j # i
        PROVE  sent'[j] = sent[j] /\ (Turn(j) = iteration[Owner(j)] => pc'[Owner(j)] = pc[Owner(j)])
    BY <2>1, OwnItems DEF ArrayInv, Array!TypeOK
  <2>2. sent[i] = 0 /\ sent'[i] = 1 /\ pc'[w] = "executing" /\ result.resultItems[i] = "none"
    <3>1. ItemInStep(i) /\ sent \in [Array!Parameters -> Nat] /\ pc[w] = "preparing"
      BY DEF ArrayInv, Array!TypeOK, ItemsInStep
    <3>2. sent[i] = 0 /\ result.resultItems[i] = "none"
      BY <3>1 DEF ItemInStep
    <3> QED
      BY <3>1, <3>2 DEF ArrayInv, Array!TypeOK
  <2> SUFFICES ASSUME NEW j \in Array!Parameters
               PROVE  ItemInStep(j)'
    BY DEF ItemsInStep
  <2>3. CASE j = i
    BY <2>2, <2>3 DEF ItemInStep
  <2>4. CASE j # i
    BY <2>1, <2>4 DEF ArrayInv, ItemsInStep, ItemInStep
  <2> QED
    BY <2>3, <2>4
<1>7. ChainsInStep'
  BY OwnItems DEF ArrayInv, Array!TypeOK, ChainsInStep
<1>8. ErrorsInStep'
  BY <1>5, OwnItems DEF ArrayInv, Array!TypeOK, ErrorsInStep
<1>9. LateInStep'
  <2>1. /\ Cardinality(Preparing) \in Nat
        /\ Cardinality(Preparing)' = Cardinality(Preparing) - 1
    BY PreparingLess
  <2> QED
    BY <2>1, OwnItems DEF ArrayInv, Array!TypeOK, LateInStep
<1> QED
  BY <1>4, <1>5, <1>6, <1>7, <1>8, <1>9 DEF ArrayInv

\* prepareQuery() is rejected, which ends the chain past _setError.
LEMMA PrepareFailsKeeps ==
    ASSUME ArrayInv, NEW w \in Array!Chain, Array!PrepareFails(w)
    PROVE  ArrayInv'
<1>1. ArrayStill
  BY ArrayStable DEF Array!PrepareFails, Array!Reject, Array!Goto
<1>2. w \in 0 .. level - 1 /\ pc[w] = "preparing"
  BY OwnItems DEF Array!PrepareFails
<1>3. /\ pc' = [pc EXCEPT ![w] = "failed"]
      /\ promise' = IF promise = "pending" THEN "rejected" ELSE promise
      /\ sent' = sent /\ late' = late /\ cache' = cache
      /\ stop' = stop /\ result' = result /\ iteration' = iteration
  BY DEF Array!PrepareFails, Array!Reject, Array!Goto
<1> USE <1>1, <1>2, <1>3 DEF ArrayStill
<1>4. Array!TypeOK'
  BY DEF ArrayInv, Array!TypeOK
<1>5. GroupAccounts' /\ Failed(result)' = Failed(result)
  BY DEF ArrayInv, GroupAccounts
<1>6. ItemsInStep'
  BY OwnItems DEF ArrayInv, Array!TypeOK, ItemsInStep, ItemInStep
<1>7. ChainsInStep'
  BY OwnItems DEF ArrayInv, Array!TypeOK, ChainsInStep
<1>8. ErrorsInStep'
  BY <1>5, OwnItems DEF ArrayInv, Array!TypeOK, ErrorsInStep
<1>9. LateInStep'
  <2>1. /\ Cardinality(Preparing) \in Nat
        /\ Cardinality(Preparing)' = Cardinality(Preparing) - 1
    BY PreparingLess
  <2> QED
    BY <2>1, OwnItems DEF ArrayInv, Array!TypeOK, LateInStep
<1> QED
  BY <1>4, <1>5, <1>6, <1>7, <1>8, <1>9 DEF ArrayInv

\* The answer of the client is kept in the group.
LEMMA SetResultItemKeeps ==
    ASSUME ArrayInv, NEW w \in Array!Chain, Array!SetResultItem(w)
    PROVE  ArrayInv'
<1> DEFINE i == Array!Item(w)
<1>1. ArrayStill
  BY ArrayStable DEF Array!SetResultItem, Array!Goto
<1>2. /\ w \in 0 .. level - 1 /\ iteration[w] \in Nat /\ pc[w] = "executing"
      /\ i \in Array!Parameters /\ i = Array!Index(w, iteration[w])
      /\ Owner(i) = w /\ Turn(i) = iteration[w]
  BY OwnItems DEF Array!SetResultItem, ArrayInv, Array!TypeOK, ChainsInStep, Array!Item
<1>3. /\ pc' = [pc EXCEPT ![w] = "next"]
      /\ result' = WithResult(result, i)
      /\ sent' = sent /\ late' = late /\ cache' = cache
      /\ stop' = stop /\ iteration' = iteration /\ promise' = promise
  BY ArrayNames DEF Array!SetResultItem, Array!Goto
<1>4. sent[i] = 1 /\ result.resultItems[i] = "none"
  BY <1>2 DEF ArrayInv, ItemsInStep, ItemInStep
<1>5. IsGroup(result, Array!Parameters) /\ IsFiniteSet(Array!Parameters) /\ maxErrors \in Nat \ {0}
  BY ArrayNames, OwnItems DEF ArrayInv, Array!TypeOK
<1>6. /\ IsGroup(WithResult(result, i), Array!Parameters)
      /\ Accounts(WithResult(result, i), maxErrors)
      /\ \A j \in Array!Parameters :
            result'.resultItems[j] = IF j = i THEN "rows" ELSE result.resultItems[j]
  BY <1>2, <1>3, <1>4, <1>5, ResultAccounted DEF ArrayInv, GroupAccounts
<1> HIDE DEF i
<1> USE <1>1, <1>2, <1>3 DEF ArrayStill
<1>7. Failed(result)' = Failed(result)
  BY <1>4, <1>5, <1>6 DEF Failed, IsGroup
<1>8. Array!TypeOK'
  <2>1. Array!IsGroup(result, Array!Parameters)'
    BY <1>6, ArrayNames
  <2> QED
    BY <2>1 DEF ArrayInv, Array!TypeOK
<1>9. GroupAccounts'
  BY <1>6 DEF GroupAccounts
<1>10. ItemsInStep'
  <2> SUFFICES ASSUME NEW j \in Array!Parameters
               PROVE  ItemInStep(j)'
    BY DEF ItemsInStep
  <2>1. DOMAIN pc = 0 .. level - 1
    BY DEF ArrayInv, Array!TypeOK
  <2>2. CASE j = i
    BY <2>1, <2>2, <1>4, <1>6 DEF ItemInStep
  <2>3. CASE j # i
    <3>1. Turn(j) = iteration[Owner(j)] => pc'[Owner(j)] = pc[Owner(j)]
      BY <2>1, <2>3, OwnItems
    <3> QED
      BY <2>3, <3>1, <1>6 DEF ArrayInv, ItemsInStep, ItemInStep
  <2> QED
    BY <2>2, <2>3
<1>11. ChainsInStep'
  BY OwnItems DEF ArrayInv, Array!TypeOK, ChainsInStep
<1>12. ErrorsInStep'
  BY <1>7, OwnItems DEF ArrayInv, Array!TypeOK, ErrorsInStep
<1>13. LateInStep'
  <2>1. Preparing' = Preparing
    BY DEF Preparing, ArrayInv, Array!TypeOK
  <2> QED
    BY <2>1 DEF ArrayInv, LateInStep
<1> QED
  BY <1>8, <1>9, <1>10, <1>11, <1>12, <1>13 DEF ArrayInv

\* The error of the client is kept in the group, and raised at once or not.
LEMMA SetErrorKeeps ==
    ASSUME ArrayInv, NEW w \in Array!Chain, Array!SetError(w)
    PROVE  ArrayInv'
<1> DEFINE i == Array!Item(w)
<1>1. ArrayStill
  BY ArrayStable DEF Array!SetError, Array!Reject, Array!Goto
<1>2. /\ w \in 0 .. level - 1 /\ iteration[w] \in Nat /\ pc[w] = "executing"
      /\ i \in Array!Parameters /\ i = Array!Index(w, iteration[w])
      /\ Owner(i) = w /\ Turn(i) = iteration[w]
  BY OwnItems DEF Array!SetError, ArrayInv, Array!TypeOK, ChainsInStep, Array!Item
<1>3. /\ result' = WithError(result, i, maxErrors)
      /\ sent' = sent /\ late' = late /\ cache' = cache /\ iteration' = iteration
      /\ \/ /\ raise /\ stop' = TRUE /\ pc' = [pc EXCEPT ![w] = "failed"]
            /\ promise' = IF promise = "pending" THEN "rejected" ELSE promise
         \/ /\ ~raise /\ pc' = [pc EXCEPT ![w] = "next"]
            /\ stop' = stop /\ promise' = promise
  BY ArrayNames DEF Array!SetError, Array!Reject, Array!Goto
<1>4. sent[i] = 1 /\ result.resultItems[i] = "none"
  BY <1>2 DEF ArrayInv, ItemsInStep, ItemInStep
<1>5. IsGroup(result, Array!Parameters) /\ IsFiniteSet(Array!Parameters) /\ maxErrors \in Nat \ {0}
  BY ArrayNames, OwnItems DEF ArrayInv, Array!TypeOK
<1>6. /\ IsGroup(WithError(result, i, maxErrors), Array!Parameters)
      /\ Accounts(WithError(result, i, maxErrors), maxErrors)
      /\ \A j \in Array!Parameters :
            result'.resultItems[j] = IF j = i THEN "error" ELSE result.resultItems[j]
  BY <1>2, <1>3, <1>4, <1>5, ErrorAccounted DEF ArrayInv, GroupAccounts
<1> HIDE DEF i
<1> USE <1>1, <1>2, <1>3 DEF ArrayStill
<1>7. DOMAIN pc = 0 .. level - 1 /\ pc'[w] \in {"failed", "next"}
      /\ \A v \in Array!Chain : v # w => pc'[v] = pc[v]
  BY DEF ArrayInv, Array!TypeOK, Array!Chain
<1>8. Array!TypeOK'
  <2>1. Array!IsGroup(result, Array!Parameters)'
    BY <1>6, ArrayNames
  <2> QED
    BY <2>1 DEF ArrayInv, Array!TypeOK
<1>9. GroupAccounts'
  BY <1>6 DEF GroupAccounts
<1>10. ItemsInStep'
  <2> SUFFICES ASSUME NEW j \in Array!Parameters
               PROVE  ItemInStep(j)'
    BY DEF ItemsInStep
  <2>1. CASE j = i
    BY <2>1, <1>4, <1>6, <1>7 DEF ItemInStep
  <2>2. CASE j # i
    <3>1. Owner(j) \in Array!Chain /\ (Turn(j) = iteration[Owner(j)] => Owner(j) # w)
      BY <2>2, OwnItems
    <3>2. Turn(j) = iteration[Owner(j)] => pc'[Owner(j)] = pc[Owner(j)]
      BY <3>1, <1>7
    <3> QED
      BY <2>2, <3>2, <1>6 DEF ArrayInv, ItemsInStep, ItemInStep
  <2> QED
    BY <2>1, <2>2
<1>11. ChainsInStep'
  BY <1>7, OwnItems DEF ArrayInv, Array!TypeOK, ChainsInStep
<1>12. ErrorsInStep'
  <2>1. promise \in {"pending", "rejected"}
    BY DEF ArrayInv, Array!TypeOK, ErrorsInStep
  <2>2. CASE raise
    BY <2>1, <2>2, <1>7 DEF ErrorsInStep
  <2>3. CASE ~raise
    <3>1. pc'[w] = "next" /\ stop' = stop /\ promise' = promise
      BY <2>3, <1>7
    <3>2. ~stop
      BY <2>3 DEF ArrayInv, ErrorsInStep
    <3> QED
      BY <2>3, <3>1, <3>2, <1>7 DEF ArrayInv, ErrorsInStep
  <2> QED
    BY <2>2, <2>3
<1>13. LateInStep'
  <2>1. Preparing' = Preparing
    BY <1>7 DEF Preparing
  <2>2. CASE stop \/ ~raise
    BY <2>1, <2>2 DEF ArrayInv, ErrorsInStep, LateInStep
  <2>3. CASE ~stop /\ raise
    <3>1. late = 0 /\ Preparing \subseteq Array!Chain \ {w}
      BY <2>3 DEF ArrayInv, LateInStep, Preparing
    <3>2. IsFiniteSet(Array!Chain \ {w}) /\ Cardinality(Array!Chain \ {w}) = level - 1
      BY OwnItems, FS_RemoveElement
    <3>3. Cardinality(Preparing) <= level - 1 /\ Cardinality(Preparing) \in Nat
      BY <3>1, <3>2, FS_Subset, FS_CardinalityType
    <3> QED
      BY <2>1, <2>3, <3>1, <3>3, OwnItems DEF LateInStep
  <2> QED
    BY <2>2, <2>3
<1> QED
  BY <1>8, <1>9, <1>10, <1>11, <1>12, <1>13 DEF ArrayInv

\* Promise.all() over the chains fulfils the promise.
LEMMA ResolveKeeps ==
    ASSUME ArrayInv, Array!Resolve
    PROVE  ArrayInv'
<1>1. ArrayStill
  BY ArrayStable DEF Array!Resolve
<1> USE <1>1 DEF ArrayStill
<1>2. Array!TypeOK' /\ GroupAccounts' /\ Failed(result)' = Failed(result)
  BY DEF Array!Resolve, ArrayInv, Array!TypeOK, GroupAccounts
<1>3. ItemsInStep' /\ ChainsInStep'
  BY DEF Array!Resolve, ArrayInv, ItemsInStep, ItemInStep, ChainsInStep
<1>4. ErrorsInStep'
  BY <1>2 DEF Array!Resolve, ArrayInv, ErrorsInStep
<1>5. LateInStep'
  <2>1. Preparing' = Preparing
    BY DEF Array!Resolve, Preparing
  <2> QED
    BY <2>1 DEF Array!Resolve, ArrayInv, LateInStep
<1> QED
  BY <1>2, <1>3, <1>4, <1>5 DEF ArrayInv

\* A chain goes on with the next item of its stride, or ends.
LEMMA NextItemKeeps ==
    ASSUME ArrayInv, NEW w \in Array!Chain, Array!NextItem(w)
    PROVE  ArrayInv'
<1> DEFINE t == iteration[w] + 1
           i == Array!Index(w, t)
<1>1. ArrayStill
  BY ArrayStable DEF Array!NextItem, Array!EnterItem, Array!Send, Array!Goto
<1>2. /\ w \in 0 .. level - 1 /\ iteration[w] \in Nat /\ pc[w] = "next" /\ t \in Nat
      /\ i \in Nat /\ Owner(i) = w /\ Turn(i) = t
      /\ i \in Array!Parameters <=> i < Cardinality(Array!Parameters)
      /\ Cardinality(Array!Parameters) \in Nat
  <2>1. w \in 0 .. level - 1 /\ iteration[w] \in Nat /\ pc[w] = "next"
    BY OwnItems DEF Array!NextItem, ArrayInv, Array!TypeOK
  <2>2. t \in Nat
    BY <2>1
  <2> HIDE DEF t
  <2> QED
    BY <2>1, <2>2, OwnItems
<1>3. /\ cache' = cache /\ stop' = stop /\ promise' = promise /\ result' = result
      /\ iteration' = [iteration EXCEPT ![w] = t]
      /\ \/ /\ i \notin Array!Parameters \/ stop
            /\ pc' = [pc EXCEPT ![w] = "done"] /\ sent' = sent /\ late' = late
         \/ /\ i \in Array!Parameters /\ ~stop
            /\ pc' = [pc EXCEPT ![w] = "preparing"] /\ sent' = sent /\ late' = late
         \/ /\ i \in Array!Parameters /\ ~stop
            /\ pc' = [pc EXCEPT ![w] = "executing"]
            /\ sent' = [sent EXCEPT ![i] = @ + 1] /\ late' = late
  BY <1>2, ArrayNames DEF Array!NextItem, Array!EnterItem, Array!Send, Array!Goto
<1> HIDE DEF i
<1> USE <1>1, <1>2 DEF ArrayStill
<1>4. /\ \A v \in Array!Chain : v # w => pc'[v] = pc[v] /\ iteration'[v] = iteration[v]
      /\ iteration'[w] = t /\ pc'[w] \in {"done", "preparing", "executing"}
      /\ \A j \in Array!Parameters : j # i => sent'[j] = sent[j]
      /\ i \in Array!Parameters =>
            sent'[i] = IF pc'[w] = "executing" THEN sent[i] + 1 ELSE sent[i]
      /\ pc'[w] = "done" <=> i \notin Array!Parameters \/ stop
  BY <1>3 DEF ArrayInv, Array!TypeOK, Array!Chain
<1>5. Array!TypeOK'
  <2>1. /\ sent' \in [Array!Parameters -> Nat]
        /\ iteration' \in [0 .. level - 1 -> Nat]
        /\ pc' \in [0 .. level - 1 -> {"new", "preparing", "executing", "next", "done", "failed"}]
    <3>1. /\ sent \in [Array!Parameters -> Nat]
          /\ iteration \in [0 .. level - 1 -> Nat]
          /\ pc \in [0 .. level - 1 -> {"new", "preparing", "executing", "next", "done", "failed"}]
      BY DEF ArrayInv, Array!TypeOK
    <3>2. sent' \in [Array!Parameters -> Nat]
      BY <3>1, <1>3
    <3>3. iteration' \in [0 .. level - 1 -> Nat]
      BY <3>1, <1>3
    <3>4. pc' \in [0 .. level - 1 -> {"new", "preparing", "executing", "next", "done", "failed"}]
      BY <3>1, <1>3
    <3> QED
      BY <3>2, <3>3, <3>4
  <2>2. late' = late
    BY <1>3
  <2> QED
    BY <1>3, <2>1, <2>2 DEF ArrayInv, Array!TypeOK
<1>6. GroupAccounts' /\ Failed(result)' = Failed(result)
  BY <1>3 DEF ArrayInv, GroupAccounts
<1>7. ItemsInStep'
  <2> SUFFICES ASSUME NEW j \in Array!Parameters
               PROVE  ItemInStep(j)'
    BY DEF ItemsInStep
  <2>1. ItemInStep(j) /\ Owner(j) \in Array!Chain /\ Turn(j) \in Nat /\ result' = result
    BY <1>3, OwnItems DEF ArrayInv, ItemsInStep
  <2>2. CASE Owner(j) # w
    <3>1. j # i
      BY <2>2
    <3> QED
      BY <2>1, <2>2, <3>1, <1>4 DEF ItemInStep
  <2>3. CASE Owner(j) = w /\ j # i
    <3>1. Turn(j) # t
      BY <2>3, OwnItems DEF i
    <3>2. sent'[j] = sent[j] /\ iteration'[w] = iteration[w] + 1
      BY <2>3, <1>4
    <3>3. CASE Turn(j) < t
      BY <2>1, <2>3, <3>1, <3>2, <3>3 DEF ItemInStep
    <3>4. CASE Turn(j) > t
      BY <2>1, <2>3, <3>1, <3>2, <3>4 DEF ItemInStep
    <3> QED
      BY <2>1, <3>1, <3>3, <3>4
  <2>4. CASE j = i
    <3>1. sent[i] = 0 /\ result.resultItems[i] = "none"
      BY <2>1, <2>4 DEF ItemInStep
    <3> QED
      BY <2>1, <2>4, <3>1, <1>4 DEF ItemInStep
  <2> QED
    BY <2>2, <2>3, <2>4
<1>8. ChainsInStep'
  <2> SUFFICES ASSUME NEW v \in Array!Chain
               PROVE  /\ pc'[v] = "new" => iteration'[v] = 0
                      /\ pc'[v] \in {"preparing", "executing", "next"} => Array!Item(v)' \in Array!Parameters
                      /\ pc'[v] = "done" => Array!Item(v)' \notin Array!Parameters \/ stop'
    BY DEF ChainsInStep
  <2>1. CASE v = w
    BY <2>1, <1>3, <1>4 DEF i
  <2>2. CASE v # w
    BY <2>2, <1>3, <1>4 DEF ArrayInv, ChainsInStep
  <2> QED
    BY <2>1, <2>2
<1>9. ErrorsInStep'
  <2>1. stop' = stop /\ promise' = promise /\ promise # "fulfilled"
    BY <1>3 DEF ArrayInv, ErrorsInStep
  <2> QED
    BY <2>1, <1>4, <1>6 DEF ArrayInv, ErrorsInStep
<1>10. LateInStep'
  <2>1. stop' = stop /\ late' = late
    BY <1>3
  <2>2. stop => Preparing' = Preparing
    BY <1>4 DEF Preparing
  <2> QED
    BY <2>1, <2>2 DEF ArrayInv, LateInStep
<1> QED
  BY <1>3, <1>5, <1>6, <1>7, <1>8, <1>9, <1>10 DEF ArrayInv

\* Every step of the array executor keeps its invariant.
LEMMA ArrayKeeps ==
    ASSUME ArrayInv, Array!Next
    PROVE  ArrayInv'
  BY ExecuteKeeps, ResolveKeeps, PreparedKeeps, PrepareFailsKeeps, SetResultItemKeeps,
     SetErrorKeeps, NextItemKeeps DEF Array!Next, Array!Step

\* What the invariant says of the properties.
LEMMA ArrayInvImplies ==
    ASSUME ArrayInv
    PROVE  /\ Array!AtMostOnce /\ Array!StopsSoon /\ Array!TypeOK /\ GroupAccounts
           /\ Array!FulfilledMeansAll /\ (promise = "fulfilled" /\ raise => Failed(result) = {})
<1>1. \A i \in Array!Parameters :
        /\ ItemInStep(i) /\ i \in Nat /\ Turn(i) \in Nat
        /\ Owner(i) \in Array!Chain /\ Owner(i) \in 0 .. level - 1 /\ level \in Nat
        /\ i = Array!Index(Owner(i), Turn(i))
        /\ iteration[Owner(i)] \in Nat /\ Array!Index(Owner(i), iteration[Owner(i)]) \in Nat
        /\ pc[Owner(i)] \in {"new", "preparing", "executing", "next", "done", "failed"}
  <2> SUFFICES ASSUME NEW i \in Array!Parameters
               PROVE  /\ ItemInStep(i) /\ i \in Nat /\ Turn(i) \in Nat
                      /\ Owner(i) \in Array!Chain /\ Owner(i) \in 0 .. level - 1 /\ level \in Nat
                      /\ i = Array!Index(Owner(i), Turn(i))
                      /\ iteration[Owner(i)] \in Nat /\ Array!Index(Owner(i), iteration[Owner(i)]) \in Nat
                      /\ pc[Owner(i)] \in {"new", "preparing", "executing", "next", "done", "failed"}
    OBVIOUS
  <2>1. /\ ItemInStep(i) /\ Turn(i) \in Nat /\ level \in Nat /\ i \in Nat
        /\ Owner(i) \in Array!Chain /\ Owner(i) \in 0 .. level - 1
        /\ i = Array!Index(Owner(i), Turn(i))
    <3>1. ItemInStep(i) /\ i \in Nat
      BY DEF ArrayInv, ItemsInStep
    <3> QED
      BY <3>1, OwnItems
  <2>2. /\ iteration[Owner(i)] \in Nat
        /\ pc[Owner(i)] \in {"new", "preparing", "executing", "next", "done", "failed"}
    BY <2>1 DEF ArrayInv, Array!TypeOK
  <2> QED
    BY <2>1, <2>2, OwnItems
<1>2. Array!AtMostOnce
  <2> SUFFICES ASSUME NEW i \in Array!Parameters PROVE sent[i] <= 1
    BY DEF Array!AtMostOnce
  <2>1. /\ pc[Owner(i)] \in {"new", "preparing", "executing", "next", "done", "failed"}
        /\ iteration[Owner(i)] \in Nat /\ Turn(i) \in Nat
    BY <1>1
  <2> QED
    BY <1>1, <2>1 DEF ItemInStep
<1>3. Array!StopsSoon
  <2>1. IsFiniteSet(Preparing)
    BY OwnItems, FS_Subset DEF Preparing
  <2>2. Cardinality(Preparing) \in Nat
    BY <2>1, FS_CardinalityType
  <2> QED
    BY <2>2, OwnItems DEF Array!StopsSoon, ArrayInv, LateInStep, Array!TypeOK
<1>4. ASSUME promise = "fulfilled"
      PROVE  /\ \A i \in Array!Parameters : sent[i] = 1 /\ result.resultItems[i] # "none"
             /\ raise => Failed(result) = {}
  <2>1. ~stop /\ \A w \in Array!Chain : pc[w] = "done"
    BY <1>4 DEF ArrayInv, ErrorsInStep
  <2> SUFFICES ASSUME NEW i \in Array!Parameters
               PROVE  sent[i] = 1 /\ result.resultItems[i] # "none"
    BY <1>4, <2>1 DEF ArrayInv, ErrorsInStep
  <2>2. Array!Item(Owner(i)) = Array!Index(Owner(i), iteration[Owner(i)])
    BY DEF Array!Item
  <2>3. Array!Index(Owner(i), iteration[Owner(i)]) \notin Array!Parameters
    BY <1>1, <2>1, <2>2 DEF ArrayInv, ChainsInStep
  <2>4. ~(iteration[Owner(i)] <= Turn(i))
    <3>1. SUFFICES ASSUME iteration[Owner(i)] <= Turn(i) PROVE FALSE
      OBVIOUS
    <3>2. Array!Index(Owner(i), iteration[Owner(i)]) <= Array!Index(Owner(i), Turn(i))
      <4>1. level \in Nat \ {0} /\ iteration[Owner(i)] \in Nat /\ Turn(i) \in Nat /\ Owner(i) \in Nat
        BY <1>1
      <4>2. CASE iteration[Owner(i)] = Turn(i)
        BY <4>1, <4>2, OwnItems
      <4>3. CASE iteration[Owner(i)] < Turn(i)
        BY <4>1, <4>3, Product DEF Array!Index
      <4> QED
        BY <3>1, <4>1, <4>2, <4>3
    <3> QED
      BY <1>1, <2>3, <3>2 DEF ArrayInv
  <2> QED
    BY <1>1, <2>4 DEF ItemInStep
<1>5. Array!FulfilledMeansAll
  <2> SUFFICES ASSUME promise = "fulfilled"
               PROVE  /\ \A i \in Array!Parameters : sent[i] = 1
                      /\ Settled(result) = Array!Parameters
                      /\ result.totalExecuted = Cardinality(Array!Parameters)
    BY ArrayNames DEF Array!FulfilledMeansAll
  <2>1. Settled(result) = Array!Parameters
    BY <1>4, ArrayNames DEF ArrayInv, Array!TypeOK, IsGroup, Settled
  <2> QED
    BY <1>4, <2>1 DEF ArrayInv, GroupAccounts, Accounts
<1> QED
  BY <1>2, <1>3, <1>4, <1>5 DEF ArrayInv

-----------------------------------------------------------------------------
(* The stream.                                                             *)

Executing == {i \in Stream!Item : stage[i] = "executing"}
Counted == {i \in Stream!Item : stage[i] = "counted"}

\* The items are taken in hand in the order of their indexes, and an item has an entry in
\* the result once the client has answered.
ItemsByIndex ==
    /\ index + remaining <= MaxItems
    /\ \A i \in Stream!Item :
          /\ stage[i] = "none" <=> i >= index
          /\ result.resultItems[i] # "none" <=> stage[i] \in {"counted", "done"}

\* An execution whose last continuation has not run keeps its place, and the input flows
\* only when a place is free.
PlacesKept ==
    /\ inFlight = Cardinality(Executing)
    /\ ~microtask =>
          /\ inFlight + Cardinality(Counted) <= level
          /\ ~paused => inFlight < level

\* What the promise says of the reading: it stays open until the reading has ended, and
\* then only the end of the input leaves it open for the executions in flight.
PromiseInStep ==
    /\ ~readEnded => promise = "pending"
    /\ readEnded /\ promise = "pending" => source = "ended"
    /\ promise = "fulfilled" => readEnded /\ inFlight = 0 /\ source = "ended"
    /\ raise /\ Failed(result) # {} => promise = "rejected"

StreamInv ==
    /\ Stream!TypeOK
    /\ GroupAccounts
    /\ ItemsByIndex
    /\ PlacesKept
    /\ Stream!NoStall
    /\ PromiseInStep

\* ConcurrentStream uses the operators of this module's ResultSetGroup.
LEMMA StreamNames ==
    /\ \A S : Stream!Cardinality(S) = Cardinality(S)
    /\ \A g, S : Stream!IsGroup(g, S) = IsGroup(g, S)
    /\ \A g, i : Stream!WithResult(g, i) = WithResult(g, i)
    /\ \A g, i, m : Stream!WithError(g, i, m) = WithError(g, i, m)
    /\ \A g : Stream!Settled(g) = Settled(g)
    /\ \A S : Stream!EmptyGroup(S) = EmptyGroup(S)
    /\ \A a, b : Stream!OrDefault(a, b) = OrDefault(a, b)
<1>1. \A S : Stream!Cardinality(S) = Cardinality(S)
  BY DEF Stream!Cardinality, Cardinality
<1>2. \A g, S : Stream!IsGroup(g, S) = IsGroup(g, S)
  BY DEF Stream!IsGroup, IsGroup
<1>3. \A g, i : Stream!WithResult(g, i) = WithResult(g, i)
  BY DEF Stream!WithResult, WithResult
<1>4. \A g, i, m : Stream!WithError(g, i, m) = WithError(g, i, m)
  BY DEF Stream!WithError, WithError
<1>5. \A g : Stream!Settled(g) = Settled(g)
  BY DEF Stream!Settled, Settled
<1>6. \A S : Stream!EmptyGroup(S) = EmptyGroup(S)
  BY DEF Stream!EmptyGroup, EmptyGroup
<1>7. \A a, b : Stream!OrDefault(a, b) = OrDefault(a, b)
  BY DEF Stream!OrDefault, OrDefault
<1> QED
  BY <1>1, <1>2, <1>3, <1>4, <1>5, <1>6, <1>7

\* The items of a stream, and sets of them, are finitely many.
LEMMA ItemsFinite ==
    /\ Stream!Item = 0 .. MaxItems - 1
    /\ IsFiniteSet(Stream!Item) /\ Cardinality(Stream!Item) = MaxItems
    /\ \A S : S \subseteq Stream!Item =>
          IsFiniteSet(S) /\ Cardinality(S) \in Nat /\ Cardinality(S) <= MaxItems
<1>1. Stream!Item = 0 .. MaxItems - 1 /\ IsFiniteSet(Stream!Item) /\ Cardinality(Stream!Item) = MaxItems
  BY Counting, OptionsAssumption DEF Stream!Item
<1> QED
  BY <1>1, FS_Subset, FS_CardinalityType

\* The stream executor begins with nothing read and a place free.
LEMMA StreamStarts ==
    ASSUME Stream!Init
    PROVE  StreamInv
<1> USE OptionsAssumption
<1>1. level \in Nat \ {0} /\ maxErrors \in Nat \ {0}
  BY StreamNames DEF Stream!Init, OrDefault
<1>2. result = EmptyGroup(Stream!Item)
  BY StreamNames DEF Stream!Init
<1>3. /\ IsGroup(result, Stream!Item) /\ result.totalExecuted = 0 /\ result.errors = << >>
      /\ result.resultItems = [i \in Stream!Item |-> "none"]
  BY <1>2 DEF EmptyGroup, IsGroup
<1>4. Settled(result) = {} /\ Failed(result) = {} /\ Cardinality({}) = 0
  BY <1>3, FS_EmptySet DEF Settled, Failed
<1>5. GroupAccounts
  BY <1>1, <1>3, <1>4 DEF GroupAccounts, Accounts, Least
<1>6. Stream!TypeOK
  <2>1. Stream!IsGroup(result, Stream!Item)
    BY <1>3, StreamNames
  <2>2. inFlight \in 0 .. MaxItems /\ index \in 0 .. MaxItems /\ remaining \in 0 .. MaxItems
    BY DEF Stream!Init
  <2>3. stage \in [Stream!Item -> Stream!Stage]
    BY DEF Stream!Init, Stream!Stage
  <2> QED
    BY <1>1, <2>1, <2>2, <2>3 DEF Stream!Init, Stream!TypeOK
<1>7. ItemsByIndex
  BY <1>3, ItemsFinite DEF Stream!Init, ItemsByIndex
<1>8. Executing = {} /\ Counted = {}
  BY DEF Stream!Init, Executing, Counted
<1>9. PlacesKept
  BY <1>1, <1>4, <1>8 DEF Stream!Init, PlacesKept
<1>10. Stream!NoStall /\ PromiseInStep
  BY <1>4 DEF Stream!Init, Stream!NoStall, PromiseInStep
<1> QED
  BY <1>5, <1>6, <1>7, <1>9, <1>10 DEF StreamInv

\* Taking an item in hand adds it to those that execute.
LEMMA ExecuteOneKeeps ==
    ASSUME StreamInv, Stream!Data, ~readEnded, Stream!ExecuteOne
    PROVE  StreamInv'
<1>1. /\ remaining \in Nat /\ remaining > 0 /\ index \in Nat /\ index \in Stream!Item
      /\ stage \in [Stream!Item -> Stream!Stage] /\ level \in Nat \ {0} /\ inFlight \in Nat
      /\ ~paused /\ (microtask \/ \A i \in Stream!Item : stage[i] # "counted")
  BY ItemsFinite, OptionsAssumption DEF StreamInv, Stream!TypeOK, ItemsByIndex, Stream!Data, Stream!MayEmit
<1>2. /\ raise' = raise /\ level' = level /\ maxErrors' = maxErrors /\ microtask' = microtask
      /\ source' = source /\ result' = result /\ readEnded' = readEnded /\ promise' = promise
      /\ remaining' = remaining - 1 /\ inFlight' = inFlight + 1 /\ index' = index + 1
      /\ stage' = [stage EXCEPT ![index] = "executing"]
      /\ paused' = (paused \/ inFlight + 1 >= level)
  BY DEF Stream!Data, Stream!ExecuteOne, Stream!options
<1>3. Stream!Item' = Stream!Item
  BY DEF Stream!Item
<1>4. stage[index] = "none"
  BY <1>1, ItemsFinite DEF StreamInv, ItemsByIndex
<1>5. Executing' = Executing \cup {index} /\ index \notin Executing /\ Counted' = Counted
  BY <1>1, <1>2, <1>3, <1>4 DEF Executing, Counted
<1>6. /\ Cardinality(Executing') = Cardinality(Executing) + 1
      /\ Cardinality(Executing') <= MaxItems
  <2>1. Executing \subseteq Stream!Item /\ Executing' \subseteq Stream!Item
    BY <1>3 DEF Executing
  <2> QED
    BY <2>1, <1>5, ItemsFinite, FS_AddElement
<1>7. Stream!TypeOK'
  <2>1. inFlight' \in 0 .. MaxItems /\ index' \in 0 .. MaxItems /\ remaining' \in 0 .. MaxItems
    BY <1>1, <1>2, <1>6, OptionsAssumption DEF StreamInv, Stream!TypeOK, PlacesKept, ItemsByIndex
  <2>2. stage' \in [Stream!Item -> Stream!Stage] /\ paused' \in BOOLEAN
    BY <1>1, <1>2 DEF Stream!Stage, StreamInv, Stream!TypeOK
  <2>3. Stream!IsGroup(result, Stream!Item)'
    BY <1>2, <1>3, StreamNames DEF StreamInv, Stream!TypeOK
  <2> QED
    BY <1>2, <1>3, <2>1, <2>2, <2>3 DEF StreamInv, Stream!TypeOK, Stream!Stage
<1>8. GroupAccounts' /\ Failed(result)' = Failed(result)
  BY <1>2 DEF StreamInv, GroupAccounts
<1>9. ItemsByIndex'
  BY <1>1, <1>2, <1>3, <1>4, ItemsFinite, OptionsAssumption DEF StreamInv, ItemsByIndex
<1>10. PlacesKept'
  <2>1. inFlight' = Cardinality(Executing)'
    BY <1>2, <1>6 DEF StreamInv, PlacesKept
  <2>2. ~microtask => Counted = {}
    BY <1>1 DEF Counted
  <2>3. Cardinality({}) = 0
    BY FS_EmptySet
  <2>4. ~microtask => Cardinality(Counted)' = 0 /\ inFlight < level
    BY <1>1, <1>5, <2>2, <2>3 DEF StreamInv, PlacesKept
  <2>5. ~paused' => ~(inFlight + 1 >= level)
    BY <1>2, Zenon
  <2>6. ~microtask => inFlight' + Cardinality(Counted)' <= level'
    BY <1>1, <1>2, <2>4
  <2> QED
    BY <1>1, <1>2, <2>1, <2>5, <2>6 DEF PlacesKept
<1>11. Stream!NoStall'
  BY <1>1, <1>2, <1>3 DEF Stream!NoStall
<1>12. PromiseInStep'
  BY <1>2, <1>8 DEF StreamInv, PromiseInStep
<1> QED
  BY <1>7, <1>8, <1>9, <1>10, <1>11, <1>12 DEF StreamInv

\* The steps of the input that do not start an execution.
LEMMA ReadingKeeps ==
    ASSUME StreamInv, Stream!Data \/ Stream!End \/ Stream!Error,
           UNCHANGED <<inFlight, index, stage, paused>>
    PROVE  StreamInv'
<1>1. /\ raise' = raise /\ level' = level /\ maxErrors' = maxErrors /\ microtask' = microtask
      /\ result' = result /\ inFlight' = inFlight /\ index' = index /\ stage' = stage
      /\ paused' = paused /\ source = "open"
      /\ Stream!Item' = Stream!Item
  BY DEF Stream!Data, Stream!End, Stream!Error, Stream!options, Stream!MayEmit, Stream!Item
<1>2. promise # "fulfilled" /\ (readEnded => promise = "rejected")
  BY <1>1 DEF StreamInv, PromiseInStep, Stream!TypeOK
<1>3. remaining' \in Nat /\ remaining' <= remaining
  BY OptionsAssumption DEF StreamInv, Stream!TypeOK, Stream!Data, Stream!End, Stream!Error
<1>4. \/ readEnded' = TRUE /\ source' \in {"open", "closed"} /\ promise' = "rejected"
      \/ readEnded /\ source' = source /\ readEnded' = readEnded /\ promise' = promise
      \/ /\ readEnded' = TRUE /\ source' = "ended"
         /\ promise' = IF ~readEnded /\ inFlight = 0 THEN "fulfilled" ELSE promise
  <2>1. CASE Stream!Data
    BY <2>1, <1>1, <1>2 DEF StreamInv, PromiseInStep, Stream!Data, Stream!SetReadEndedWith, Stream!Settle,
        Stream!ExecuteOne, Stream!TypeOK
  <2>2. CASE Stream!End
    BY <2>2, <1>1, <1>2 DEF StreamInv, PromiseInStep, Stream!End, Stream!SetReadEnded, Stream!Settle
  <2>3. CASE Stream!Error
    BY <2>3, <1>1, <1>2 DEF StreamInv, PromiseInStep, Stream!Error, Stream!SetReadEndedWith, Stream!Settle
  <2> QED
    BY <2>1, <2>2, <2>3
<1>5. Stream!TypeOK'
  <2>1. Stream!IsGroup(result, Stream!Item)'
    BY <1>1, StreamNames DEF StreamInv, Stream!TypeOK
  <2>2. remaining' \in 0 .. MaxItems
    BY <1>3, OptionsAssumption DEF StreamInv, Stream!TypeOK
  <2>3. /\ promise' \in {"pending", "fulfilled", "rejected"}
        /\ readEnded' \in BOOLEAN /\ source' \in {"open", "ended", "closed"}
    BY <1>1, <1>4 DEF StreamInv, Stream!TypeOK
  <2> QED
    BY <1>1, <2>1, <2>2, <2>3 DEF StreamInv, Stream!TypeOK, Stream!Stage
<1>6. GroupAccounts' /\ Failed(result)' = Failed(result)
  BY <1>1 DEF StreamInv, GroupAccounts
<1>7. ItemsByIndex'
  <2>1. index \in Nat /\ remaining \in Nat /\ MaxItems \in Nat /\ index + remaining <= MaxItems
    BY OptionsAssumption DEF StreamInv, ItemsByIndex, Stream!TypeOK
  <2>2. \A a, b, c, m \in Nat : a + b <= m /\ c <= b => a + c <= m
    OBVIOUS
  <2>3. index + remaining' <= MaxItems
    BY <1>3, <2>1, <2>2
  <2> QED
    BY <1>1, <2>3 DEF StreamInv, ItemsByIndex
<1>8. PlacesKept' /\ Stream!NoStall'
  BY <1>1 DEF StreamInv, PlacesKept, Executing, Counted, Stream!NoStall
<1>9. PromiseInStep'
  BY <1>1, <1>2, <1>4, <1>6 DEF StreamInv, PromiseInStep
<1> QED
  BY <1>5, <1>6, <1>7, <1>8, <1>9 DEF StreamInv

\* The client's answer moves an execution from those that execute to those that are counted.
LEMMA AnswerKeeps ==
    ASSUME StreamInv, NEW i \in Stream!Item, Stream!Answer(i)
    PROVE  StreamInv'
<1>1. /\ raise' = raise /\ level' = level /\ maxErrors' = maxErrors /\ microtask' = microtask
      /\ source' = source /\ remaining' = remaining /\ paused' = paused /\ index' = index
      /\ stage[i] = "executing" /\ stage' = [stage EXCEPT ![i] = "counted"]
      /\ inFlight' = inFlight - 1
      /\ Stream!Item' = Stream!Item
  BY DEF Stream!Answer, Stream!Fulfilled, Stream!Rejected, Stream!options, Stream!stream, Stream!Item
<1>2. /\ stage \in [Stream!Item -> Stream!Stage] /\ IsGroup(result, Stream!Item)
      /\ maxErrors \in Nat \ {0} /\ Accounts(result, maxErrors) /\ level \in Nat
      /\ result.resultItems[i] = "none"
  BY <1>1, StreamNames DEF StreamInv, Stream!TypeOK, GroupAccounts, ItemsByIndex
<1>3. \/ /\ result' = WithResult(result, i)
         /\ readEnded' = readEnded /\ promise' = promise
      \/ /\ result' = WithError(result, i, maxErrors)
         /\ \/ raise /\ readEnded' = TRUE /\ promise' = IF promise = "pending" THEN "rejected" ELSE promise
            \/ ~raise /\ readEnded' = readEnded /\ promise' = promise
  BY StreamNames DEF Stream!Answer, Stream!Fulfilled, Stream!Rejected, Stream!Settle
<1>4. /\ IsGroup(result', Stream!Item) /\ Accounts(result', maxErrors)
      /\ result'.resultItems[i] # "none"
      /\ \A j \in Stream!Item : j # i => result'.resultItems[j] = result.resultItems[j]
      /\ result' = WithResult(result, i) => result'.resultItems[i] = "rows"
      /\ result' = WithError(result, i, maxErrors) => result'.resultItems[i] = "error"
  <2>1. IsFiniteSet(Stream!Item)
    BY ItemsFinite
  <2>2. /\ WithResult(result, i).resultItems[i] = "rows"
        /\ WithError(result, i, maxErrors).resultItems[i] = "error"
    BY <2>1, <1>2, ResultAccounted, ErrorAccounted
  <2>3. CASE result' = WithResult(result, i)
    BY <2>1, <2>2, <2>3, <1>2, ResultAccounted
  <2>4. CASE result' = WithError(result, i, maxErrors)
    BY <2>1, <2>2, <2>4, <1>2, ErrorAccounted
  <2> QED
    BY <1>3, <2>3, <2>4
<1>5. /\ Executing' = Executing \ {i} /\ i \in Executing
      /\ Counted' = Counted \cup {i} /\ i \notin Counted
  BY <1>1, <1>2 DEF Executing, Counted
<1>6. /\ Cardinality(Executing)' = Cardinality(Executing) - 1
      /\ Cardinality(Counted)' = Cardinality(Counted) + 1
      /\ Cardinality(Executing) \in Nat /\ Cardinality(Executing) <= MaxItems
      /\ Cardinality(Counted) \in Nat /\ Cardinality(Executing)' \in Nat
  <2>1. Executing \subseteq Stream!Item /\ Counted \subseteq Stream!Item /\ Executing' \subseteq Stream!Item
    BY <1>1 DEF Executing, Counted
  <2>2. /\ Cardinality(Executing) \in Nat /\ Cardinality(Executing) <= MaxItems
        /\ IsFiniteSet(Executing) /\ IsFiniteSet(Counted)
        /\ Cardinality(Counted) \in Nat /\ Cardinality(Executing') \in Nat
    BY <2>1, ItemsFinite
  <2>3. Cardinality(Executing') = Cardinality(Executing) - 1
    BY <2>2, <1>5, FS_RemoveElement
  <2>4. Cardinality(Counted') = Cardinality(Counted) + 1
    BY <2>2, <1>5, FS_AddElement
  <2> QED
    BY <2>2, <2>3, <2>4
<1>7. Stream!TypeOK'
  <2>1. Stream!IsGroup(result, Stream!Item)'
    BY <1>1, <1>4, StreamNames
  <2>2. inFlight' \in 0 .. MaxItems
    BY <1>1, <1>6, OptionsAssumption DEF StreamInv, PlacesKept
  <2>3. stage' \in [Stream!Item -> Stream!Stage]
    BY <1>1, <1>2 DEF Stream!Stage
  <2>4. readEnded' \in BOOLEAN /\ promise' \in {"pending", "fulfilled", "rejected"}
    BY <1>3 DEF StreamInv, Stream!TypeOK
  <2> QED
    BY <1>1, <2>1, <2>2, <2>3, <2>4 DEF StreamInv, Stream!TypeOK, Stream!Stage
<1>8. GroupAccounts'
  BY <1>1, <1>4 DEF GroupAccounts
<1>9. ItemsByIndex'
  <2>1. index + remaining' <= MaxItems
    BY <1>1 DEF StreamInv, ItemsByIndex
  <2>2. ASSUME NEW j \in Stream!Item
        PROVE  /\ stage'[j] = "none" <=> j >= index
               /\ result'.resultItems[j] # "none" <=> stage'[j] \in {"counted", "done"}
    BY <1>1, <1>2, <1>4 DEF StreamInv, ItemsByIndex
  <2> QED
    BY <1>1, <2>1, <2>2 DEF ItemsByIndex
<1>10. PlacesKept'
  BY <1>1, <1>2, <1>6 DEF StreamInv, PlacesKept
<1>11. Stream!NoStall'
  BY <1>1, <1>2 DEF Stream!NoStall
<1>12. PromiseInStep'
  <2>1. inFlight # 0 /\ promise \in {"pending", "rejected"}
    <3>1. inFlight # 0
      BY <1>5, <1>6, FS_EmptySet, ItemsFinite DEF StreamInv, PlacesKept
    <3> QED
      BY <3>1 DEF StreamInv, PromiseInStep, Stream!TypeOK
  <2>2. CASE result' = WithError(result, i, maxErrors) /\ raise
    <3>1. promise' = "rejected" /\ readEnded' = TRUE
      BY <2>1, <2>2, <1>3, <1>4 DEF StreamInv, PromiseInStep
    <3> QED
      BY <3>1 DEF PromiseInStep
  <2>3. CASE ~(result' = WithError(result, i, maxErrors) /\ raise)
    <3>1. readEnded' = readEnded /\ promise' = promise
      BY <2>3, <1>3
    <3>2. raise => Failed(result)' = Failed(result)
      <4>1. raise => result'.resultItems[i] = "rows"
        BY <2>3, <1>3, <1>4
      <4> QED
        BY <4>1, <1>2, <1>4 DEF Failed, IsGroup
    <3> QED
      BY <1>1, <2>1, <3>1, <3>2 DEF StreamInv, PromiseInStep
  <2> QED
    BY <2>2, <2>3
<1> QED
  BY <1>7, <1>8, <1>9, <1>10, <1>11, <1>12 DEF StreamInv

\* The last continuation of an execution, which resumes the source or settles the promise.
LEMMA CompleteKeeps ==
    ASSUME StreamInv, NEW i \in Stream!Item, Stream!Complete(i)
    PROVE  StreamInv'
<1>1. /\ raise' = raise /\ level' = level /\ maxErrors' = maxErrors /\ microtask' = microtask
      /\ source' = source /\ remaining' = remaining /\ paused' = FALSE /\ index' = index
      /\ stage[i] = "counted" /\ stage' = [stage EXCEPT ![i] = "done"]
      /\ inFlight' = inFlight /\ readEnded' = readEnded /\ result' = result
      /\ Stream!Item' = Stream!Item
      /\ promise' = IF readEnded /\ inFlight = 0 /\ promise = "pending" THEN "fulfilled" ELSE promise
  BY DEF Stream!Complete, Stream!options, Stream!Item, Stream!Settle
<1>2. stage \in [Stream!Item -> Stream!Stage] /\ level \in Nat \ {0} /\ inFlight \in Nat
  BY OptionsAssumption DEF StreamInv, Stream!TypeOK
<1>3. Executing' = Executing /\ Counted' = Counted \ {i} /\ i \in Counted
  BY <1>1, <1>2 DEF Executing, Counted
<1>4. Cardinality(Counted)' = Cardinality(Counted) - 1 /\ Cardinality(Counted)' \in Nat
      /\ Cardinality(Counted) \in Nat
  <2>1. Counted \subseteq Stream!Item /\ Counted' \subseteq Stream!Item
    BY <1>1 DEF Counted
  <2> QED
    BY <2>1, <1>3, ItemsFinite, FS_RemoveElement
<1>5. Stream!TypeOK'
  <2>1. Stream!IsGroup(result, Stream!Item)'
    BY <1>1, StreamNames DEF StreamInv, Stream!TypeOK
  <2>2. stage' \in [Stream!Item -> Stream!Stage]
    BY <1>1, <1>2 DEF Stream!Stage
  <2>3. promise' \in {"pending", "fulfilled", "rejected"} /\ paused' \in BOOLEAN
    BY <1>1 DEF StreamInv, Stream!TypeOK
  <2> QED
    BY <1>1, <2>1, <2>2, <2>3 DEF StreamInv, Stream!TypeOK, Stream!Stage
<1>6. GroupAccounts' /\ Failed(result)' = Failed(result)
  BY <1>1 DEF StreamInv, GroupAccounts
<1>7. ItemsByIndex'
  BY <1>1, <1>2 DEF StreamInv, ItemsByIndex
<1>8. PlacesKept'
  BY <1>1, <1>2, <1>3, <1>4 DEF StreamInv, PlacesKept
<1>9. Stream!NoStall'
  BY <1>1 DEF Stream!NoStall
<1>10. PromiseInStep'
  <2>1. CASE readEnded /\ inFlight = 0 /\ promise = "pending"
    <3>1. source = "ended" /\ ~(raise /\ Failed(result) # {})
      BY <2>1 DEF StreamInv, PromiseInStep
    <3> QED
      BY <1>1, <1>6, <2>1, <3>1 DEF PromiseInStep
  <2>2. CASE ~(readEnded /\ inFlight = 0 /\ promise = "pending")
    BY <1>1, <1>6, <2>2 DEF StreamInv, PromiseInStep
  <2> QED
    BY <2>1, <2>2
<1> QED
  BY <1>5, <1>6, <1>7, <1>8, <1>9, <1>10 DEF StreamInv

\* Every step of the stream executor keeps its invariant.
LEMMA StreamKeeps ==
    ASSUME StreamInv, Stream!Next
    PROVE  StreamInv'
<1>1. CASE Stream!Data
  <2>1. \/ UNCHANGED <<inFlight, index, stage, paused>>
        \/ ~readEnded /\ Stream!ExecuteOne
    BY <1>1 DEF Stream!Data
  <2> QED
    BY <1>1, <2>1, ExecuteOneKeeps, ReadingKeeps
<1>2. CASE Stream!End
  BY <1>2, ReadingKeeps DEF Stream!End
<1>3. CASE Stream!Error
  BY <1>3, ReadingKeeps DEF Stream!Error
<1>4. CASE \E i \in Stream!Item : Stream!Answer(i) \/ Stream!Complete(i)
  BY <1>4, AnswerKeeps, CompleteKeeps
<1> QED
  BY <1>1, <1>2, <1>3, <1>4 DEF Stream!Next, Stream!Progress

\* What the invariant of the stream executor says of the checked properties.
LEMMA StreamInvImplies ==
    ASSUME StreamInv
    PROVE  /\ Stream!ConcurrencyBound /\ Stream!NoStall /\ Stream!TypeOK /\ GroupAccounts
           /\ Stream!FulfilledMeansAll /\ (promise = "fulfilled" /\ raise => Failed(result) = {})
<1>1. Cardinality(Counted) \in Nat /\ Cardinality(Executing) \in Nat /\ level \in Nat
  <2>1. Counted \subseteq Stream!Item /\ Executing \subseteq Stream!Item
    BY DEF Counted, Executing
  <2> QED
    BY <2>1, ItemsFinite DEF StreamInv, Stream!TypeOK
<1>2. Stream!ConcurrencyBound
  BY <1>1, StreamNames DEF StreamInv, PlacesKept, Executing, Stream!ConcurrencyBound
<1>3. Stream!FulfilledMeansAll
  <2> SUFFICES ASSUME promise = "fulfilled"
               PROVE  /\ readEnded /\ inFlight = 0 /\ source = "ended"
                      /\ result.totalExecuted = index
                      /\ Settled(result) = 0 .. index - 1
    BY StreamNames DEF Stream!FulfilledMeansAll
  <2>1. readEnded /\ inFlight = 0 /\ source = "ended"
    BY DEF StreamInv, PromiseInStep
  <2>2. Executing = {}
    BY <2>1, ItemsFinite, FS_EmptySet, FS_Subset DEF StreamInv, PlacesKept, Executing
  <2>3. index \in Nat /\ index <= MaxItems /\ DOMAIN result.resultItems = Stream!Item
    <3>1. index \in Nat /\ index <= MaxItems
      BY OptionsAssumption DEF StreamInv, Stream!TypeOK
    <3>2. IsGroup(result, Stream!Item)
      BY StreamNames DEF StreamInv, Stream!TypeOK
    <3> QED
      BY <3>1, <3>2 DEF IsGroup
  <2>4. ASSUME NEW i \in Stream!Item
        PROVE  result.resultItems[i] # "none" <=> i < index
    <3>1. stage[i] \in {"none", "counted", "done"}
      BY <2>2 DEF Executing, StreamInv, Stream!TypeOK, Stream!Stage
    <3> QED
      BY <2>3, <3>1, ItemsFinite DEF StreamInv, ItemsByIndex
  <2>5. Settled(result) = 0 .. index - 1
    BY <2>3, <2>4, ItemsFinite, OptionsAssumption DEF Settled
  <2>6. result.totalExecuted = index
    BY <2>3, <2>5, Counting DEF StreamInv, GroupAccounts, Accounts
  <2> QED
    BY <2>1, <2>5, <2>6
<1> QED
  BY <1>2, <1>3 DEF StreamInv, PromiseInStep

-----------------------------------------------------------------------------
\* The invariant of whichever executor runs.
IInv ==
    \/ input = "array" /\ ArrayInv
    \/ input = "stream" /\ StreamInv

\* Every step of executeConcurrent() keeps the invariant of its executor: the place of each
\* item, the state of each chain or execution and the promise fit together.
THEOREM InvariantHolds == Spec => []IInv
<1>1. Init => IInv
  BY ArrayStarts, StreamStarts DEF Init, OverArray, OverStream, IInv
<1>2. IInv /\ [Next]_vars => IInv'
  <2> SUFFICES ASSUME IInv, [Next]_vars PROVE IInv'
    OBVIOUS
  <2>1. CASE ArrayStep
    BY <2>1, ArrayKeeps DEF ArrayStep, IInv
  <2>2. CASE StreamStep
    BY <2>2, StreamKeeps DEF StreamStep, IInv
  <2>3. CASE UNCHANGED vars
    <3> USE <2>3 DEF vars, arrayVars, streamVars
    <3>1. CASE input = "array" /\ ArrayInv
      <4>1. ArrayStill
        BY ArrayStable DEF Array!options
      <4>2. Array!TypeOK' /\ GroupAccounts' /\ ItemsInStep' /\ ChainsInStep'
        BY <3>1, <4>1 DEF ArrayStill, ArrayInv, Array!TypeOK, GroupAccounts, ItemsInStep, ItemInStep,
            ChainsInStep
      <4>3. ErrorsInStep' /\ LateInStep'
        BY <3>1, <4>1 DEF ArrayStill, ArrayInv, ErrorsInStep, LateInStep, Preparing
      <4> QED
        BY <3>1, <4>1, <4>2, <4>3 DEF ArrayStill, ArrayInv, IInv
    <3>2. CASE input = "stream" /\ StreamInv
      BY <3>2 DEF StreamInv, Stream!TypeOK, Stream!Item, GroupAccounts, ItemsByIndex, PlacesKept,
          Executing, Counted, Stream!NoStall, PromiseInStep, IInv
    <3> QED
      BY <3>1, <3>2 DEF IInv
  <2> QED
    BY <2>1, <2>2, <2>3 DEF Next
<1> QED
  BY <1>1, <1>2, PTL DEF Spec

\* Each item of an array is executed once at the most, and few after an error was met,
\* whatever the size of the array, the concurrencyLevel and the order of the answers.
THEOREM ItemsAreControlled == Spec => []ItemsControlled
<1>1. IInv => ItemsControlled
  BY ArrayInvImplies DEF IInv, ItemsControlled, AtMostOnce, StopsSoon
<1> QED
  BY <1>1, InvariantHolds, PTL

\* The input stream flows exactly as fast as the executions allow.
THEOREM FlowIsControlled == Spec => []FlowControlled
<1>1. IInv => FlowControlled
  BY StreamInvImplies DEF IInv, FlowControlled, ConcurrencyBound, NoStall
<1> QED
  BY <1>1, InvariantHolds, PTL

\* The result group agrees with what happened to every item, and a fulfilled promise
\* means that all of them are in it.
THEOREM AllIsAccounted == Spec => []AllAccounted
<1>1. IInv => AllAccounted
  BY ArrayInvImplies, StreamInvImplies DEF IInv, AllAccounted, TypeOK, FulfilledMeansAll
<1> QED
  BY <1>1, InvariantHolds, PTL
=============================================================================
