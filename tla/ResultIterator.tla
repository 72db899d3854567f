--------------------------- MODULE ResultIterator ---------------------------
(***************************************************************************)
(* The async iterator of a ResultSet (lib/types/result-set.js) over the    *)
(* pages that nextPageAsync fetches through #rustyPaged (lib/client.js).   *)
(***************************************************************************)
EXTENDS Pages

CONSTANT MaxFailures  \* bound: page requests that fail

NoState == MaxRows + 1  \* rawPageState is undefined: there is no further page

VARIABLES
    total,       \* rows the query has
    emptyPages,  \* pages without a row, but with a successor, served so far
    failures,    \* page requests that failed so far
    rows,        \* the iterator's rows: the current page
    index,       \* the iterator's index into it
    pageState,   \* the iterator's pageState
    pc,          \* awaiting the "first" page, "idle", "fetching" a page or "done"
    yielded,     \* the values next() was fulfilled with
    failed       \* some next() was rejected

vars == <<total, emptyPages, failures, rows, index, pageState, pc, yielded, failed>>

Init ==
    /\ total \in 0 .. MaxRows
    /\ emptyPages = 0
    /\ failures = 0
    /\ rows = << >>
    /\ index = 0
    /\ pageState = NoState
    /\ pc = "first"
    /\ yielded = << >>
    /\ failed = FALSE

-----------------------------------------------------------------------------

\* #rustyPaged answers the request for the page at "from" with n rows and, if more,
\* the state of the following page (hasNextPage() and nextPage()).
Answer(from, n, more) ==
    /\ MayServe(total, emptyPages, from, n, more)
    /\ emptyPages' = EmptyPages(emptyPages, n, more)
    /\ rows' = PageRows(from, n)
    /\ pageState' = IF more THEN from + n ELSE NoState

\* execute() returns the first page. The iterator over a page without rows is done,
\* whether or not there is another page.
FirstPage(n, more) ==
    /\ pc = "first"
    /\ Answer(0, n, more)
    /\ pc' = IF n = 0 THEN "done" ELSE "idle"
    /\ UNCHANGED <<total, failures, index, yielded, failed>>

\* next() within a page
Yield ==
    /\ pc = "idle"
    /\ index < Len(rows)
    /\ yielded' = Append(yielded, rows[index + 1])
    /\ index' = index + 1
    /\ UNCHANGED <<total, emptyPages, failures, rows, pageState, pc, failed>>

\* next() at the end of a page that has a successor: await nextPageAsync(pageState).
Fetch ==
    /\ pc = "idle"
    /\ index >= Len(rows) /\ pageState # NoState
    /\ pc' = "fetching"
    /\ UNCHANGED <<total, emptyPages, failures, rows, index, pageState, yielded, failed>>

\* next() at the end of the last page
Done ==
    /\ pc = "idle"
    /\ index >= Len(rows) /\ pageState = NoState
    /\ pc' = "done"
    /\ UNCHANGED <<total, emptyPages, failures, rows, index, pageState, yielded, failed>>

\* next() after the await: the first row of the new page, or done if it has none.
PageArrives(n, more) ==
    /\ pc = "fetching"
    /\ Answer(pageState, n, more)
    /\ \/ /\ n > 0
          /\ yielded' = Append(yielded, Head(rows'))
          /\ index' = 1
          /\ pc' = "idle"
       \/ n = 0 /\ index' = 0 /\ pc' = "done" /\ UNCHANGED yielded
    /\ UNCHANGED <<total, failures, failed>>

\* nextPageAsync() rejects, and so does next(). The iterator still has its state:
\* another next() asks for the same page again.
PageFails ==
    /\ pc = "fetching"
    /\ failures < MaxFailures
    /\ failures' = failures + 1
    /\ failed' = TRUE
    /\ pc' = "idle"
    /\ UNCHANGED <<total, emptyPages, rows, index, pageState, yielded>>

Next ==
    \/ \E n \in 0 .. PageSize, more \in BOOLEAN : FirstPage(n, more) \/ PageArrives(n, more)
    \/ Yield
    \/ Fetch
    \/ Done
    \/ PageFails

Spec == Init /\ [][Next]_vars

-----------------------------------------------------------------------------
\* Every variable holds a value of its kind: the index stays within its page.
TypeOK ==
    /\ total \in 0 .. MaxRows
    /\ emptyPages \in 0 .. MaxEmptyPages
    /\ failures \in 0 .. MaxFailures
    /\ rows \in Seq(1 .. MaxRows)
    /\ index \in 0 .. Len(rows)
    /\ pageState \in 0 .. NoState
    /\ pc \in {"first", "idle", "fetching", "done"}
    /\ yielded \in Seq(1 .. MaxRows)
    /\ failed \in BOOLEAN

\* The position of the iterator: what was yielded, the rest of the page and the state
\* of the following page fit together, also after a page request was repeated.
PositionKept ==
    pc # "first" =>
        /\ yielded = [j \in 1 .. Len(yielded) |-> j]
        /\ pageState # NoState => Len(yielded) + Len(rows) - index = pageState
        /\ pageState = NoState => Len(yielded) + Len(rows) - index = total
=============================================================================
