------------------------------ MODULE RowStream ------------------------------
(***************************************************************************)
(* client.stream(): eachRow() fetching pages one after another             *)
(* (lib/client.js), the ResultStream that takes their rows and throttles   *)
(* the fetching (lib/types/result-stream.js), and a consumer that reads    *)
(* when it likes.                                                          *)
(*                                                                         *)
(* Between ResultStream and the consumer lies the buffer of Node's         *)
(* Readable, modelled by what push(), read() and read(0) do to it: read()  *)
(* asks _read() for more whenever the buffer is not full, and push()       *)
(* returns FALSE once it is.                                               *)
(***************************************************************************)
EXTENDS Pages, SequencesExt

CONSTANT HighWaterMark  \* size of the Readable's buffer (16 objects by default)

VARIABLES
    total,        \* rows the query has
    autoPage,     \* execOptions.isAutoPage()
    emptyPages,   \* pages without a row but with a successor sent so far
    refused,      \* the options were invalid: the failure waits in setImmediate
    requests,     \* #rustyPaged calls in progress, as the paging states they carry
    pagingState,  \* eachRow's pagingState
    rowLength,    \* eachRow's rowLength
    rs,           \* the ResultStream, see Fresh
    awake,        \* the consumer is going to call read()
    consumed,     \* the rows it has read
    failed,       \* the "error" event was emitted
    ended,        \* the "end" event was emitted
    callbacks     \* how often the callback of stream() was called

input == <<total, autoPage>>
vars == <<input, emptyPages, refused, requests, pagingState, rowLength, rs, awake,
          consumed, failed, ended, callbacks>>

EOF == 0

\* buffer    ResultStream.buffer; EOF is the null that ends the stream
\* paused    ResultStream.paused
\* readNext  a function is stored in ResultStream._readNext
\* pushed    the Readable's own buffer
\* closed    null was pushed
\* fetches   calls of nextPage() made while the record was computed
Fresh ==
    [buffer |-> << >>, paused |-> TRUE, readNext |-> FALSE,
     pushed |-> << >>, closed |-> FALSE, fetches |-> 0]

Init ==
    /\ total \in 0 .. MaxRows
    /\ autoPage \in BOOLEAN
    /\ emptyPages = 0
    /\ refused \in BOOLEAN
    /\ requests = IF refused THEN << >> ELSE <<0>>
    /\ pagingState = 0
    /\ rowLength = 0
    /\ rs = Fresh
    /\ awake = TRUE
    /\ consumed = << >>
    /\ failed = FALSE
    /\ ended = FALSE
    /\ callbacks = 0

-----------------------------------------------------------------------------
\* Faulty: _read() does not call the stored function.
Drain_NoReadNext(s) ==
    LET room == IF Len(s.pushed) < HighWaterMark
                THEN HighWaterMark - Len(s.pushed) ELSE 1
        moved == SubSeq(s.buffer, 1, Least(room, Len(s.buffer)))
        rest == SubSeq(s.buffer, Len(moved) + 1, Len(s.buffer))
        close == moved # << >> /\ Last(moved) = EOF
        pushed == s.pushed \o (IF close THEN Front(moved) ELSE moved)
        paused == moved # << >> /\ (close \/ Len(pushed) >= HighWaterMark)
    IN  [s EXCEPT !.buffer = rest, !.paused = paused, !.pushed = pushed,
                  !.closed = @ \/ close]

\* ResultStream._read(): push from the buffer until push() returns FALSE, and when
\* everything is out and there is room, call the stored function.
Drain(s) ==
    LET room == IF Len(s.pushed) < HighWaterMark
                THEN HighWaterMark - Len(s.pushed) ELSE 1
        moved == SubSeq(s.buffer, 1, Least(room, Len(s.buffer)))
        rest == SubSeq(s.buffer, Len(moved) + 1, Len(s.buffer))
        close == moved # << >> /\ Last(moved) = EOF
        pushed == s.pushed \o (IF close THEN Front(moved) ELSE moved)
        paused == moved # << >> /\ (close \/ Len(pushed) >= HighWaterMark)
        call == ~paused /\ rest = << >> /\ s.readNext
    IN  [buffer |-> rest, paused |-> paused, readNext |-> s.readNext /\ ~call,
         pushed |-> pushed, closed |-> s.closed \/ close,
         fetches |-> s.fetches + (IF call THEN 1 ELSE 0)]

\* Readable.read(0): _read() if the buffer is not full.
ReadZero(s) ==
    IF ~s.closed /\ Len(s.pushed) < HighWaterMark THEN Drain(s) ELSE s

\* ResultStream.add(chunk) for each of the chunks. Nothing runs between the calls, so
\* filling the Readable chunk by chunk comes to the same as filling it at the end.
Add(s, chunks) ==
    IF chunks = << >> THEN s ELSE ReadZero([s EXCEPT !.buffer = @ \o chunks])

\* Faulty: _valve(readNext) does not look at the buffer.
Valve_AlwaysFetch(s) == [s EXCEPT !.readNext = FALSE, !.fetches = @ + 1]

\* ResultStream._valve(readNext)
Valve(s) ==
    IF s.paused \/ s.buffer # << >>
    THEN [s EXCEPT !.readNext = TRUE]
    ELSE [s EXCEPT !.readNext = FALSE, !.fetches = @ + 1]

\* ResultStream._valve(null)
DropValve(s) == [s EXCEPT !.readNext = FALSE]

\* The end of stream()'s onFinish: drop the valve and end the ResultStream.
Close(s) == Add(DropValve(s), <<EOF>>)

\* Commit a computed ResultStream: nextPage() calls become requests that carry the
\* paging state, and rows in the Readable's buffer wake the consumer.
Commit(s, inProgress, state) ==
    /\ rs' = [s EXCEPT !.fetches = 0]
    /\ requests' = inProgress \o [j \in 1 .. s.fetches |-> state]

Wake(s) == awake' = (awake \/ s.pushed # << >>)

-----------------------------------------------------------------------------
\* What follows the rows of a page: the next page at once (autoPage), the next page
\* behind the valve, or the end.
After(s, more) ==
    IF ~more THEN Close(s)
    ELSE IF autoPage THEN [s EXCEPT !.fetches = @ + 1]
    ELSE Valve(s)

\* pageCallback(null, result): every row to the stream, then what follows.
PageArrives(i, n, more) ==
    LET s == Add(rs, PageRows(requests[i], n))
        state == IF more THEN requests[i] + n ELSE pagingState
    IN  /\ MayServe(total, emptyPages, requests[i], n, more)
        /\ emptyPages' = EmptyPages(emptyPages, n, more)
        /\ rowLength' = rowLength + n
        /\ pagingState' = state
        /\ Commit(After(s, more), RemoveAt(requests, i), state)
        /\ callbacks' = callbacks + (IF more THEN 0 ELSE 1)
        /\ Wake(rs')
        /\ UNCHANGED <<input, refused, consumed, failed, ended>>

\* onFinish(err)
Fail(inProgress) ==
    /\ failed' = TRUE
    /\ Commit(Close(rs), inProgress, pagingState)
    /\ callbacks' = callbacks + 1
    /\ Wake(rs')
    /\ UNCHANGED <<input, emptyPages, pagingState, rowLength, consumed, ended>>

\* pageCallback(err)
PageFails(i) ==
    /\ Fail(RemoveAt(requests, i))
    /\ UNCHANGED refused

\* eachRow() called back synchronously: stream() reports it in setImmediate.
OptionsRefused ==
    /\ refused
    /\ refused' = FALSE
    /\ Fail(requests)

\* The consumer calls read(): _read() first if the buffer has room, then the first
\* row, if there is one. After a null it sleeps until rows are pushed.
Read ==
    /\ awake
    /\ LET s == IF ~rs.closed /\ Len(rs.pushed) <= HighWaterMark THEN Drain(rs) ELSE rs
           row == SubSeq(s.pushed, 1, Least(1, Len(s.pushed)))
       IN  /\ consumed' = consumed \o row
           /\ Commit([s EXCEPT !.pushed = SubSeq(@, 2, Len(@))], requests, pagingState)
           /\ awake' = (row # << >>)
    /\ UNCHANGED <<input, emptyPages, refused, pagingState, rowLength, failed, ended,
                   callbacks>>

\* Readable reads ahead on its own after a push.
ReadMore ==
    /\ rs # ReadZero(rs)
    /\ Commit(ReadZero(rs), requests, pagingState)
    /\ Wake(rs')
    /\ UNCHANGED <<input, emptyPages, refused, pagingState, rowLength, consumed, failed,
                   ended, callbacks>>

\* Readable emits "end" when null was pushed and everything was read.
End ==
    /\ rs.closed /\ rs.pushed = << >> /\ ~ended
    /\ ended' = TRUE
    /\ UNCHANGED <<input, emptyPages, refused, requests, pagingState, rowLength, rs,
                   awake, consumed, failed, callbacks>>

Page ==
    \E i \in DOMAIN requests :
        \/ \E n \in 0 .. PageSize, more \in BOOLEAN : PageArrives(i, n, more)
        \/ PageFails(i)

\* What goes on by itself: requests are answered, the consumer reads while it is
\* awake, and the event loop runs what is ready. Reading ahead is Node's choice.
Progress == Page \/ OptionsRefused \/ Read \/ End

Next == Progress \/ ReadMore

Spec == Init /\ [][Next]_vars

-----------------------------------------------------------------------------
Chunk == 0 .. MaxRows

\* Every variable holds a value of its kind: the EOF mark never reaches the consumer.
TypeOK ==
    /\ total \in 0 .. MaxRows
    /\ autoPage \in BOOLEAN
    /\ emptyPages \in Nat
    /\ refused \in BOOLEAN
    /\ requests \in Seq(0 .. MaxRows)
    /\ pagingState \in 0 .. MaxRows
    /\ rowLength \in Nat
    /\ rs \in [buffer : Seq(Chunk), paused : BOOLEAN, readNext : BOOLEAN,
               pushed : Seq(Chunk \ {EOF}), closed : BOOLEAN, fetches : {0}]
    /\ awake \in BOOLEAN
    /\ consumed \in Seq(Chunk \ {EOF})
    /\ failed \in BOOLEAN
    /\ ended \in BOOLEAN
    /\ callbacks \in Nat

\* The rows in the buffer: what lies before the null that ends the stream.
Rows(buffer) == IF buffer # << >> /\ Last(buffer) = EOF THEN Front(buffer) ELSE buffer

\* What the consumer has read, what lies in the Readable and what lies in the
\* ResultStream are together the rows of the result so far, in order: nothing is
\* lost, repeated or overtaken, whenever the consumer reads.
RowsConserved ==
    consumed \o rs.pushed \o Rows(rs.buffer) = [j \in 1 .. rowLength |-> j]

\* There is never more than one page request in progress, and without autoPage none
\* is made while rows of the previous page wait in the ResultStream.
OnePageAtATime ==
    /\ Len(requests) + (IF rs.readNext THEN 1 ELSE 0) <= 1
    /\ requests # << >> /\ ~autoPage => rs.buffer = << >>

\* The callback of stream() is called at most once, and only when no request is left
\* that could add another row.
CallbackOnce ==
    /\ callbacks <= 1
    /\ callbacks = 1 => requests = << >> /\ ~rs.readNext /\ ~refused
=============================================================================
