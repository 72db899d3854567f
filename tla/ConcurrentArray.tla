--------------------------- MODULE ConcurrentArray ---------------------------
(***************************************************************************)
(* executeConcurrent() over an array (lib/concurrent/index.js): the        *)
(* ArrayBasedExecutor, the PreparedCache (lib/cache.js) its chains share   *)
(* and the ResultSetGroup they fill.                                       *)
(*                                                                         *)
(* The executor starts one promise chain per unit of concurrency; chain w  *)
(* handles the items w, w + level, w + 2 * level, ... one after another.   *)
(* An action is the code one chain runs between two awaits.                *)
(***************************************************************************)
EXTENDS ResultSetGroup

CONSTANT Statement  \* query strings

VARIABLES
    raise,          \* _raiseOnFirstError
    level,          \* _concurrencyLevel
    maxErrors,      \* _result._maxErrors
    query,          \* query[i]: statement of item i; its domain gives _parameters.length
    stop,           \* _stop
    cache,          \* _cache: the statements with a stored element
    result,         \* _result, a ResultSetGroup
    pc,             \* where each chain is suspended
    iteration,      \* the chain's iteration
    promise,        \* what the user of executeConcurrent() sees
    sent,           \* history: how often each item was given to rustyExecute
    late            \* history: number of items sent after _stop was set

options == <<raise, level, maxErrors, query>>
vars == <<options, stop, cache, result, pc, iteration, promise, sent, late>>

Parameters == DOMAIN query
Chain == DOMAIN pc

\* Faulty: the chains walk the array one by one instead of in strides.
Index_NoStride(w, it) == w + it

\* The item a chain handles in an iteration.
Index(w, it) == w + level * it
Item(w) == Index(w, iteration[w])

\* The constructors of ArrayBasedExecutor and ResultSetGroup.
Init ==
    /\ raise \in BOOLEAN
    /\ \E n \in 0 .. MaxItems :
          /\ query \in [0 .. n - 1 -> Statement]
          /\ \E l \in 0 .. MaxLevel : level = Least(OrDefault(l, DefaultLevel), n)
    /\ \E m \in 0 .. MaxErrorsLimit : maxErrors = OrDefault(m, DefaultErrors)
    /\ stop = FALSE
    /\ cache = {}
    /\ result = EmptyGroup(Parameters)
    /\ pc = [w \in 0 .. level - 1 |-> "new"]
    /\ iteration = [w \in 0 .. level - 1 |-> 0]
    /\ promise = "pending"
    /\ sent = [i \in Parameters |-> 0]
    /\ late = 0

-----------------------------------------------------------------------------
Goto(w, where) == pc' = [pc EXCEPT ![w] = where]

\* rustyExecute(prepared, params, options) is called for item i.
Send(w, i) ==
    /\ Goto(w, "executing")
    /\ sent' = [sent EXCEPT ![i] = @ + 1]
    /\ late' = IF stop THEN late + 1 ELSE late

\* The head of _executeOneAtATime: leave, await prepareQuery, or execute.
EnterItem(w, it) ==
    /\ iteration' = [iteration EXCEPT ![w] = it]
    /\ \/ /\ Index(w, it) >= Cardinality(Parameters) \/ stop
          /\ Goto(w, "done")
          /\ UNCHANGED <<sent, late>>
       \/ /\ Index(w, it) < Cardinality(Parameters) /\ ~stop
          /\ query[Index(w, it)] \notin cache
          /\ Goto(w, "preparing")
          /\ UNCHANGED <<sent, late>>
       \/ /\ Index(w, it) < Cardinality(Parameters) /\ ~stop
          /\ query[Index(w, it)] \in cache
          /\ Send(w, Index(w, it))

\* execute(): the chains are started in one go, before any answer can arrive.
\* Every one has an item, and the cache is empty: all of them await prepareQuery.
Execute ==
    /\ \A w \in Chain : pc[w] = "new"
    /\ Chain # {}
    /\ pc' = [w \in Chain |-> "preparing"]
    /\ UNCHANGED <<options, stop, cache, result, iteration, promise, sent, late>>

\* prepareQuery() is fulfilled: store the element and execute, whatever has become
\* of _stop during the await.
Prepared(w) ==
    /\ pc[w] = "preparing"
    /\ cache' = cache \cup {query[Item(w)]}
    /\ Send(w, Item(w))
    /\ UNCHANGED <<options, stop, result, iteration, promise>>

\* Faulty: the rejection of a chain is not passed on.
Reject_NotPropagated(w) ==
    /\ Goto(w, "failed")
    /\ UNCHANGED promise

\* The chain ends in a rejection; Promise.all takes the first one.
Reject(w) ==
    /\ Goto(w, "failed")
    /\ promise' = IF promise = "pending" THEN "rejected" ELSE promise

\* prepareQuery() is rejected: nothing catches it on the way out of the chain, and
\* the result group never hears of it.
PrepareFails(w) ==
    /\ pc[w] = "preparing"
    /\ Reject(w)
    /\ UNCHANGED <<options, stop, cache, result, iteration, sent, late>>

\* rustyExecute() is fulfilled: setResultItem.
SetResultItem(w) ==
    /\ pc[w] = "executing"
    /\ result' = WithResult(result, Item(w))
    /\ Goto(w, "next")
    /\ UNCHANGED <<options, stop, cache, iteration, promise, sent, late>>

\* Faulty: the error is recorded but not thrown on.
SetError_Swallowed(w) ==
    /\ pc[w] = "executing"
    /\ result' = WithError(result, Item(w), maxErrors)
    /\ stop' = (stop \/ raise)
    /\ Goto(w, "next")
    /\ UNCHANGED <<options, cache, iteration, promise, sent, late>>

\* rustyExecute() is rejected: setError, and with raiseOnFirstError stop and rethrow.
SetError(w) ==
    /\ pc[w] = "executing"
    /\ result' = WithError(result, Item(w), maxErrors)
    /\ \/ raise /\ stop' = TRUE /\ Reject(w)
       \/ ~raise /\ Goto(w, "next") /\ UNCHANGED <<stop, promise>>
    /\ UNCHANGED <<options, cache, iteration, sent, late>>

\* The last continuation of an item: _executeOneAtATime(initialIndex, iteration + 1).
NextItem(w) ==
    /\ pc[w] = "next"
    /\ EnterItem(w, iteration[w] + 1)
    /\ UNCHANGED <<options, stop, cache, result, promise>>

\* Promise.all over the chains is fulfilled (at once when there are none).
Resolve ==
    /\ promise = "pending"
    /\ \A w \in Chain : pc[w] = "done"
    /\ promise' = "fulfilled"
    /\ UNCHANGED <<options, stop, cache, result, pc, iteration, sent, late>>

Step(w) ==
    \/ Prepared(w)
    \/ PrepareFails(w)
    \/ SetResultItem(w)
    \/ SetError(w)
    \/ NextItem(w)

Next == Execute \/ Resolve \/ \E w \in Chain : Step(w)

Spec == Init /\ [][Next]_vars

-----------------------------------------------------------------------------
\* Every field of the executor holds a value of its kind; there are no more chains
\* than items.
TypeOK ==
    /\ raise \in BOOLEAN /\ stop \in BOOLEAN
    /\ level \in Nat /\ level <= Cardinality(Parameters)
    /\ maxErrors \in Nat \ {0}
    /\ cache \subseteq Statement
    /\ IsGroup(result, Parameters)
    /\ pc \in [0 .. level - 1 -> {"new", "preparing", "executing", "next", "done", "failed"}]
    /\ iteration \in [0 .. level - 1 -> Nat]
    /\ promise \in {"pending", "fulfilled", "rejected"}
    /\ sent \in [Parameters -> Nat]
    /\ late \in Nat

\* The strides of the chains are disjoint: no item of the array is ever executed
\* twice.
AtMostOnce == \A i \in Parameters : sent[i] <= 1

\* ... and together they cover the array: when the promise is fulfilled every item
\* has been executed and has an entry in the result group.
FulfilledMeansAll ==
    promise = "fulfilled" =>
        /\ \A i \in Parameters : sent[i] = 1
        /\ Settled(result) = Parameters
        /\ result.totalExecuted = Cardinality(Parameters)

\* After the first error each of the other chains executes at most the item it was
\* already preparing: fewer late executions than chains.
StopsSoon == late > 0 => late < level
=============================================================================
