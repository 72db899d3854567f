--------------------------- MODULE RequestPolicies ---------------------------
(***************************************************************************)
(* What the policies say when things go wrong: lib/policies/retry.js about *)
(* a request that failed, speculative-execution.js about one that takes    *)
(* long, reconnection.js about a host that cannot be reached.  The request *)
(* execution that asks them is outside of the repository: here it goes     *)
(* along a query plan of PlanHosts hosts and counts its retries.           *)
(***************************************************************************)
EXTENDS Integers, Sequences

CONSTANTS
    PlanHosts,       \* hosts of the query plan
    SpeculativeMax,  \* _maxSpeculativeExecutions
    BaseDelay,       \* baseDelay
    MaxDelay,        \* maxDelay
    MaxExponent,     \* 64
    MaxAttempts      \* bound on the reconnection attempts

ASSUME PersistenceAssumption ==
    /\ PlanHosts \in Nat \ {0} /\ SpeculativeMax \in Nat
    /\ BaseDelay \in Nat /\ MaxDelay \in Nat
    /\ MaxExponent \in Nat /\ MaxAttempts \in Nat

VARIABLES
    retryPolicy,     \* "default" or "fallthrough"
    request,         \* "running", "succeeded" or "failed"
    host,            \* how many hosts of the plan have been used
    nbRetry,         \* OperationInfo.nbRetry
    executions,      \* of the speculative plan: calls of nextExecution()
    speculated,      \* history: speculative executions started
    startWithNoDelay,
    exponent,        \* index of newSchedule()
    attempts,        \* history: the delays it has yielded,
    before,          \*   the last but one
    delay            \*   and the last of them

requestVars == <<retryPolicy, request, host, nbRetry, executions, speculated>>
reconnectionVars == <<startWithNoDelay, exponent, attempts, before, delay>>

RequestInit ==
    /\ retryPolicy \in {"default", "fallthrough"}
    /\ request = "running" /\ host = 1 /\ nbRetry = 0
    /\ executions = 0 /\ speculated = 0

ReconnectionInit ==
    /\ startWithNoDelay \in BOOLEAN
    /\ exponent = IF startWithNoDelay THEN -1 ELSE 0
    /\ attempts = 0 /\ before = 0 /\ delay = 0

-----------------------------------------------------------------------------
Rethrow == [decision |-> "rethrow", useCurrentHost |-> FALSE]
Retry(useCurrentHost) == [decision |-> "retry", useCurrentHost |-> useCurrentHost]

\* What a request may fail with, and what the retry policies look at.
Failures ==
    [kind : {"unavailable", "request"}, retriable : {TRUE}] \union
    [kind : {"readTimeout", "writeTimeout"}, retriable : BOOLEAN]

\* Faulty: a timeout may be retried any number of times.
RetryDecision_NoLimit(failure) ==
    IF failure.kind = "request" THEN Retry(FALSE)
    ELSE IF failure.kind = "unavailable" THEN (IF nbRetry > 0 THEN Rethrow ELSE Retry(FALSE))
    ELSE IF failure.retriable THEN Retry(TRUE) ELSE Rethrow

\* RetryPolicy: unavailable hosts and timeouts are retried once, a timeout only when
\* retriable (enough replicas answered a read but the data is missing, or the batch log of
\* a write was not written); any other error is retried on the next host.
RetryDecision(failure) ==
    IF failure.kind = "request" THEN Retry(FALSE)
    ELSE IF nbRetry > 0 THEN Rethrow
    ELSE IF failure.kind = "unavailable" THEN Retry(FALSE)
    ELSE IF failure.retriable THEN Retry(TRUE) ELSE Rethrow

FallthroughDecision(failure) == Rethrow

Decision(failure) == IF retryPolicy = "default" THEN RetryDecision(failure) ELSE FallthroughDecision(failure)

\* The request fails on a host: the decision is carried out.
RequestFails(failure) ==
    /\ request = "running"
    /\ LET d == Decision(failure)
           next == IF d.useCurrentHost THEN host ELSE host + 1
       IN  IF d.decision = "rethrow" \/ next > PlanHosts
           THEN request' = "failed" /\ UNCHANGED <<host, nbRetry>>
           ELSE /\ host' = next
                /\ nbRetry' = nbRetry + 1
                /\ UNCHANGED request
    /\ UNCHANGED <<retryPolicy, executions, speculated>>

RequestSucceeds ==
    /\ request = "running"
    /\ request' = "succeeded"
    /\ UNCHANGED <<retryPolicy, host, nbRetry, executions, speculated>>

\* nextExecution(): the delay of one more execution, or -1.
SpeculativeDelay == IF executions < SpeculativeMax THEN 1 ELSE -1

\* The request takes long and the plan allows one more execution, on the next host.
Speculate ==
    /\ request = "running" /\ executions <= SpeculativeMax
    /\ executions' = executions + 1
    /\ IF SpeculativeDelay >= 0 /\ host < PlanHosts
       THEN speculated' = speculated + 1 /\ host' = host + 1
       ELSE UNCHANGED <<speculated, host>>
    /\ UNCHANGED <<retryPolicy, request, nbRetry>>

-----------------------------------------------------------------------------
PowerOf2[n \in Nat] == IF n = 0 THEN 1 ELSE 2 * PowerOf2[n - 1]

\* The delay that newSchedule() of ExponentialReconnectionPolicy makes of its index.
Backoff(index) ==
    IF index >= MaxExponent THEN MaxDelay
    ELSE IF index = -1 THEN 0
    ELSE IF PowerOf2[index] * BaseDelay < MaxDelay THEN PowerOf2[index] * BaseDelay ELSE MaxDelay

\* _addJitter(): the delays between the least and the greatest percentage of the value.
IsFirst(value) == ~startWithNoDelay /\ value = BaseDelay
LeastPercent(value) == IF IsFirst(value) THEN 100 ELSE 85
GreatestPercent(value) == IF value = MaxDelay /\ ~IsFirst(value) THEN 100 ELSE 115
Jittered(value) == (value * LeastPercent(value)) \div 100 .. (value * GreatestPercent(value)) \div 100

\* next() of the schedule, after one more attempt failed.
NextDelay(value) ==
    /\ attempts < MaxAttempts
    /\ attempts' = attempts + 1
    /\ before' = delay /\ delay' = value
    /\ exponent' = exponent + 1
    /\ UNCHANGED startWithNoDelay

RequestNext ==
    \/ \E failure \in Failures : RequestFails(failure)
    \/ RequestSucceeds
    \/ Speculate

ReconnectionNext == \E value \in Jittered(Backoff(exponent)) : NextDelay(value)

\* A request goes along its plan while a host that cannot be reached is tried again.
FailureVars == <<requestVars, reconnectionVars>>
FailureNext ==
    \/ RequestNext /\ UNCHANGED reconnectionVars
    \/ ReconnectionNext /\ UNCHANGED requestVars
FailureSpec == RequestInit /\ ReconnectionInit /\ [][FailureNext]_FailureVars

-----------------------------------------------------------------------------
\* The last delay, before its jitter.
Pure == Backoff(exponent - 1)

\* Where the code does not keep what its comment says, "the jitter will never cause the delay
\* to be less than the base delay, or more than the max delay".  Less: a schedule that starts
\* with no delay goes on with the base delay less up to 15 %, and a greatest delay that is
\* close to the base delay may fall below it.  More: a delay just short of the greatest one
\* gets up to 15 % more, and so does a base delay that is the greatest one.
MayUndercut == (startWithNoDelay /\ attempts <= 2) \/ 85 * MaxDelay < 100 * BaseDelay
MayExceed ==
    \/ Pure < MaxDelay /\ 115 * Pure > 100 * MaxDelay
    \/ ~startWithNoDelay /\ BaseDelay = MaxDelay

\* Reconnection attempts back off: the jitter is within 15 % of the delay; no delay is less
\* than the base delay or more than the greatest one, with the exceptions that the code makes
\* to its own comment (MayUndercut, MayExceed); and no attempt comes sooner than the one before
\* it until the delays have reached the greatest one, jitter included.
BacksOff ==
    attempts > 0 =>
        /\ 100 * (delay + 1) > 85 * Pure /\ 100 * delay <= 115 * Pure
        /\ delay >= BaseDelay \/ MayUndercut
        /\ delay <= MaxDelay \/ MayExceed
        /\ attempts > 1 => delay >= before \/ 100 * (delay + 1) > 85 * MaxDelay

\* Failing requests come to an end and slow ones do not multiply: whatever fails and in
\* whichever order, a request is tried once per host of its plan and once more, and no more
\* executions of it are started than the policy says.
RetriesBounded == nbRetry <= PlanHosts /\ speculated <= SpeculativeMax

\* Persistence has its limits, for requests and for connections.
FailuresBounded == RetriesBounded /\ BacksOff
=============================================================================
