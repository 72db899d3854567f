----------------------------- MODULE PagedResult -----------------------------
(***************************************************************************)
(* The two ways of the client to read a result of several pages, stream()  *)
(* and the async iterator of a ResultSet, and the RowDelivery that both    *)
(* promise.                                                                *)
(***************************************************************************)
EXTENDS Pages

CONSTANTS
    HighWaterMark,       \* size of the Readable's buffer
    MaxFailures,         \* bound: page requests of an iterator that fail
    IteratorEmptyPages   \* bound: pages without a row that an iterator meets

ASSUME ReadersAssumption ==
    HighWaterMark \in Nat \ {0} /\ MaxFailures \in Nat /\ IteratorEmptyPages \in Nat

VARIABLES
    reader,                     \* how the result is read: "stream" or "iterator"
    total, emptyPages, failed,  \* of either reader
    autoPage, refused, requests, pagingState, rowLength, rs, awake, consumed, ended,
    callbacks,                                            \* those of stream()
    failures, rows, index, pageState, pc, yielded         \* the iterator's

streamVars == <<autoPage, refused, requests, pagingState, rowLength, rs, awake, consumed,
                ended, callbacks>>
iteratorVars == <<failures, rows, index, pageState, pc, yielded>>
vars == <<reader, total, emptyPages, failed, streamVars, iteratorVars>>

Stream == INSTANCE RowStream
Iterator == INSTANCE ResultIterator WITH MaxEmptyPages <- IteratorEmptyPages

None == << >>

\* The reader that is not used has no state.
NoStream ==
    /\ autoPage = None /\ refused = None /\ requests = None /\ pagingState = None
    /\ rowLength = None /\ rs = None /\ awake = None /\ consumed = None
    /\ ended = None /\ callbacks = None
NoIterator ==
    /\ failures = None /\ rows = None /\ index = None /\ pageState = None
    /\ pc = None /\ yielded = None

Init ==
    \/ reader = "stream" /\ Stream!Init /\ NoIterator
    \/ reader = "iterator" /\ Iterator!Init /\ NoStream

StreamStep == reader = "stream" /\ Stream!Next /\ UNCHANGED <<reader, iteratorVars>>
StreamProgress ==
    reader = "stream" /\ Stream!Progress /\ UNCHANGED <<reader, iteratorVars>>
IteratorStep == reader = "iterator" /\ Iterator!Next /\ UNCHANGED <<reader, streamVars>>

Next == StreamStep \/ IteratorStep

\* Requests are answered, a consumer of the stream that was woken reads, and the user
\* of an iterator keeps calling next(). No reader can go round in circles, so fairness
\* of the whole is fairness of every part; reading ahead is left to Node.
Fairness == WF_vars(StreamProgress) /\ WF_vars(IteratorStep)

Spec == Init /\ [][Next]_vars /\ Fairness

-----------------------------------------------------------------------------
Delivered == IF reader = "stream" THEN consumed ELSE yielded
Finished == IF reader = "stream" THEN ended ELSE pc = "done"

\* The variables of the reader that is used hold values of their kinds.
TypeOK == IF reader = "stream" THEN Stream!TypeOK ELSE Iterator!TypeOK

\* No row is lost, repeated or overtaken: on its way through the buffers of stream(),
\* or between the page, the index and the page state of the iterator, also after a
\* page request was repeated.
RowsConserved ==
    IF reader = "stream" THEN Stream!RowsConserved ELSE Iterator!PositionKept

\* stream() has at most one page request in progress, and none while rows of the
\* previous page wait.
OnePageAtATime == reader = "stream" => Stream!OnePageAtATime

\* The callback of stream() is called at most once, after which nothing is fetched.
CallbackOnce == reader = "stream" => Stream!CallbackOnce

\* Every page is asked for once, when its rows can be taken, every row stays in its place
\* on the way to the reader, and the end is announced once.
FetchesOnce == TypeOK /\ RowsConserved /\ OnePageAtATime /\ CallbackOnce

Delivery == INSTANCE RowDelivery WITH delivered <- Delivered, finished <- Finished

\* Both readers deliver the result as RowDelivery says: row by row, in order, and the
\* end comes only after every row or after an error; stream() on any pages, the
\* iterator on pages that have rows.
ImplementsDelivery == Delivery!Spec

\* What the documentation of the async iterator promises: it yields all the rows of
\* the result, however they are distributed over pages.
DoneMeansAll == reader = "iterator" /\ Finished => Len(Delivered) = total

\* A user that keeps reading sees the end, after an error too: the valve of stream()
\* is always opened again.
ReadingEnds == <>Finished
=============================================================================
