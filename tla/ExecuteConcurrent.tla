-------------------------- MODULE ExecuteConcurrent --------------------------
(***************************************************************************)
(* executeConcurrent() (lib/concurrent/index.js): the function decides by  *)
(* its arguments which executor runs, and both executors promise their     *)
(* user the same things.                                                   *)
(***************************************************************************)
EXTENDS ResultSetGroup

CONSTANT Statement  \* query strings

VARIABLES
    input,                            \* what was passed: "array" or "stream"
    raise, level, maxErrors,          \* options of either executor
    result, promise,                  \* what its user gets
    query, stop, cache, pc, iteration, sent, late,                   \* the array's
    microtask, source, remaining, paused, inFlight, index, readEnded, stage  \* the stream's

arrayVars == <<query, stop, cache, pc, iteration, sent, late>>
streamVars == <<microtask, source, remaining, paused, inFlight, index, readEnded, stage>>
vars == <<input, raise, level, maxErrors, result, promise, arrayVars, streamVars>>

Array == INSTANCE ConcurrentArray
Stream == INSTANCE ConcurrentStream

None == << >>

\* The executor that is not created has no state.
NoArray ==
    /\ query = None /\ stop = None /\ cache = None /\ pc = None
    /\ iteration = None /\ sent = None /\ late = None
NoStream ==
    /\ microtask = None /\ source = None /\ remaining = None /\ paused = None
    /\ inFlight = None /\ index = None /\ readEnded = None /\ stage = None

\* A string and an array, or an array of statements with parameters.
OverArray ==
    /\ input = "array"
    /\ Array!Init
    /\ NoStream

\* A string and a stream.
OverStream ==
    /\ input = "stream"
    /\ Stream!Init
    /\ NoArray

\* executeConcurrent(). Other arguments make it throw before anything is started.
Init == OverArray \/ OverStream

ArrayStep == input = "array" /\ Array!Next /\ UNCHANGED <<input, streamVars>>
StreamStep == input = "stream" /\ Stream!Next /\ UNCHANGED <<input, arrayVars>>
StreamProgress == input = "stream" /\ Stream!Progress /\ UNCHANGED <<input, arrayVars>>

Next == ArrayStep \/ StreamStep

\* The event loop runs what is ready, the client answers every request and a source
\* that flows goes on; nothing obliges a source to fail. Neither executor can go round
\* in circles, so fairness of the whole is fairness of every part.
Fairness == WF_vars(ArrayStep) /\ WF_vars(StreamProgress)

Spec == Init /\ [][Next]_vars /\ Fairness

-----------------------------------------------------------------------------
\* The fields of the executor that runs hold values of their kinds.
TypeOK == IF input = "array" THEN Array!TypeOK ELSE Stream!TypeOK

\* No item of an array is executed twice: the strides of the chains are disjoint.
AtMostOnce == input = "array" => Array!AtMostOnce

\* After the first error each of the other chains executes at most the item it was
\* already preparing.
StopsSoon == input = "array" => Array!StopsSoon

\* _inFlight counts the executions the client has not answered and stays within
\* concurrencyLevel.
ConcurrencyBound == input = "stream" => Stream!ConcurrencyBound

\* A paused input always has somebody who will resume it.
NoStall == input = "stream" => Stream!NoStall

\* A fulfilled promise means that every item was executed and is in the result and,
\* with raiseOnFirstError, that none of them failed, whichever executor it came from.
FulfilledMeansAll ==
    /\ IF input = "array" THEN Array!FulfilledMeansAll ELSE Stream!FulfilledMeansAll
    /\ promise = "fulfilled" /\ raise => Failed(result) = {}

\* The counters of the result group agree with what happened, also when there are
\* more failures than maxErrors.
GroupAccounts == Accounts(result, maxErrors)

\* Each item is executed once at the most, and few after an error was met.
ItemsControlled == AtMostOnce /\ StopsSoon

\* The input flows exactly as fast as the executions allow: never more of them than
\* concurrencyLevel, never an input that nobody resumes.
FlowControlled == ConcurrencyBound /\ NoStall

\* The result and its counters agree with what happened to every item, at any time and
\* above all when the promise is fulfilled.
AllAccounted == TypeOK /\ GroupAccounts /\ FulfilledMeansAll

\* The promise of executeConcurrent() is eventually settled, whichever side of the
\* race finishes last.
PromiseSettles == <>(promise # "pending")
=============================================================================
