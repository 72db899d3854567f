-------------------------- MODULE ConcurrentStream --------------------------
(***************************************************************************)
(* executeConcurrent() over a readable stream (lib/concurrent/index.js):   *)
(* the StreamBasedExecutor between an input stream it pauses and resumes   *)
(* and a client that answers in any order.                                 *)
(*                                                                         *)
(* The input is a Node.js stream: it emits "data" while it flows, "end"    *)
(* after its last item (also while paused) and may emit "error" at any     *)
(* time, after which it may or may not be closed.                          *)
(***************************************************************************)
EXTENDS ResultSetGroup

VARIABLES
    raise,      \* _raiseOnFirstError
    level,      \* _concurrencyLevel
    maxErrors,  \* _result._maxErrors
    microtask,  \* whether the source emits from promise continuations
    source,     \* "open", "ended" or "closed" (an error destroyed it)
    remaining,  \* items the source has still to emit
    paused,     \* _stream.isPaused()
    inFlight,   \* _inFlight
    index,      \* _index
    readEnded,  \* _readEnded
    result,     \* _result, a ResultSetGroup
    promise,    \* the promise returned by execute()
    stage       \* stage[i]: where the execution of item i is

options == <<raise, level, maxErrors>>
stream == <<microtask, source, remaining, paused>>
vars == <<options, stream, inFlight, index, readEnded, result, promise, stage>>

Item == 0 .. MaxItems - 1

\* none       not started
\* executing  awaiting client.execute()
\* counted    taken off _inFlight, its last continuation not yet run
\* done
Stage == {"none", "executing", "counted", "done"}

\* The constructor, and execute() attaching its listeners.
Init ==
    /\ raise \in BOOLEAN
    /\ \E l \in 0 .. MaxLevel : level = OrDefault(l, DefaultLevel)
    /\ \E m \in 0 .. MaxErrorsLimit : maxErrors = OrDefault(m, DefaultErrors)
    /\ microtask \in BOOLEAN
    /\ source = "open"
    /\ remaining \in 0 .. MaxItems
    /\ paused = FALSE
    /\ inFlight = 0
    /\ index = 0
    /\ readEnded = FALSE
    /\ result = EmptyGroup(Item)
    /\ promise = "pending"
    /\ stage = [i \in Item |-> "none"]

-----------------------------------------------------------------------------
\* Only the first call of _resolveCallback or _rejectCallback has an effect.
Settle(how) == promise' = IF promise = "pending" THEN how ELSE promise

\* A stream emits from the event loop, when the promise continuations that are
\* ready have run; only a source driven by promises can emit between two of them.
MayEmit ==
    /\ source = "open"
    /\ microtask \/ \A i \in Item : stage[i] # "counted"

\* _setReadEnded() without an error: by "end".
SetReadEnded ==
    /\ readEnded' = TRUE
    /\ IF ~readEnded /\ inFlight = 0 THEN Settle("fulfilled") ELSE UNCHANGED promise

\* _setReadEnded(err)
SetReadEndedWith ==
    /\ readEnded' = TRUE
    /\ IF ~readEnded THEN Settle("rejected") ELSE UNCHANGED promise

\* Faulty: the stream is paused one item too late.
ExecuteOne_LatePause ==
    /\ inFlight' = inFlight + 1
    /\ index' = index + 1
    /\ stage' = [stage EXCEPT ![index] = "executing"]
    /\ paused' = (paused \/ inFlight > level)
    /\ UNCHANGED <<readEnded, promise>>

\* An item taken in hand: count it, execute it, pause the stream at the limit.
ExecuteOne ==
    /\ inFlight' = inFlight + 1
    /\ index' = index + 1
    /\ stage' = [stage EXCEPT ![index] = "executing"]
    /\ paused' = (paused \/ inFlight + 1 >= level)
    /\ UNCHANGED <<readEnded, promise>>

\* "data": an item that is not an array ends the reading with a TypeError, an item
\* that comes after the reading ended is dropped.
Data ==
    /\ MayEmit
    /\ ~paused
    /\ remaining > 0
    /\ remaining' = remaining - 1
    /\ \/ SetReadEndedWith /\ UNCHANGED <<inFlight, index, stage, paused>>
       \/ readEnded /\ UNCHANGED <<readEnded, promise, inFlight, index, stage, paused>>
       \/ ~readEnded /\ ExecuteOne
    /\ UNCHANGED <<options, microtask, source, result>>

\* "end"
End ==
    /\ MayEmit
    /\ remaining = 0
    /\ source' = "ended"
    /\ SetReadEnded
    /\ UNCHANGED <<options, microtask, remaining, paused, inFlight, index, result, stage>>

\* "error"
Error ==
    /\ MayEmit
    /\ source' \in {"open", "closed"}
    /\ remaining' = IF source' = "open" THEN remaining ELSE 0
    /\ SetReadEndedWith
    /\ UNCHANGED <<options, microtask, paused, inFlight, index, result, stage>>

\* client.execute() is fulfilled.
Fulfilled(i) ==
    /\ stage[i] = "executing"
    /\ result' = WithResult(result, i)
    /\ inFlight' = inFlight - 1
    /\ stage' = [stage EXCEPT ![i] = "counted"]
    /\ UNCHANGED <<options, stream, index, readEnded, promise>>

\* client.execute() is rejected: _setError, which with raiseOnFirstError also ends
\* the reading.
Rejected(i) ==
    /\ stage[i] = "executing"
    /\ result' = WithError(result, i, maxErrors)
    /\ inFlight' = inFlight - 1
    /\ stage' = [stage EXCEPT ![i] = "counted"]
    /\ IF raise
       THEN readEnded' = TRUE /\ Settle("rejected")
       ELSE UNCHANGED <<readEnded, promise>>
    /\ UNCHANGED <<options, stream, index>>

\* The last continuation of an execution: resume the stream, and settle when this
\* was the last one.
Complete(i) ==
    /\ stage[i] = "counted"
    /\ stage' = [stage EXCEPT ![i] = "done"]
    /\ paused' = FALSE
    /\ IF readEnded /\ inFlight = 0 THEN Settle("fulfilled") ELSE UNCHANGED promise
    /\ UNCHANGED <<options, microtask, source, remaining, inFlight, index, readEnded, result>>

Answer(i) == Fulfilled(i) \/ Rejected(i)

\* What goes on by itself: a source that flows emits its items and then ends, the
\* client answers, the event loop runs the continuations.
Progress ==
    \/ Data
    \/ End
    \/ \E i \in Item : Answer(i) \/ Complete(i)

Next == Progress \/ Error

Spec == Init /\ [][Next]_vars

-----------------------------------------------------------------------------
\* Every field of the executor and of the stream holds a value of its kind.
TypeOK ==
    /\ raise \in BOOLEAN
    /\ level \in Nat \ {0}
    /\ maxErrors \in Nat \ {0}
    /\ microtask \in BOOLEAN
    /\ source \in {"open", "ended", "closed"}
    /\ remaining \in 0 .. MaxItems
    /\ paused \in BOOLEAN
    /\ inFlight \in 0 .. MaxItems
    /\ index \in 0 .. MaxItems
    /\ readEnded \in BOOLEAN
    /\ IsGroup(result, Item)
    /\ promise \in {"pending", "fulfilled", "rejected"}
    /\ stage \in [Item -> Stage]

\* _inFlight is the number of executions the client has not answered, and with an
\* input that emits from the event loop it never exceeds concurrencyLevel.
ConcurrencyBound ==
    /\ inFlight = Cardinality({i \in Item : stage[i] = "executing"})
    /\ ~microtask => inFlight <= level

\* The input is never left paused with nobody to resume it: some execution is still
\* going to run its last continuation.
NoStall == paused => \E i \in Item : stage[i] \in {"executing", "counted"}

\* The promise is fulfilled only when the input has ended and everything read from it
\* was executed: nothing in flight, and an entry in the result for every item.
FulfilledMeansAll ==
    promise = "fulfilled" =>
        /\ readEnded /\ inFlight = 0
        /\ source = "ended"
        /\ result.totalExecuted = index
        /\ Settled(result) = 0 .. index - 1

=============================================================================
