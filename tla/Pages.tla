-------------------------------- MODULE Pages --------------------------------
(***************************************************************************)
(* The pages of a result, as #rustyPaged (lib/client.js) gets them from    *)
(* the Rust side (src/paging.rs).  Rows are the numbers 1, 2, 3, ...; a    *)
(* paging state is the number of rows served before the page it asks for.  *)
(***************************************************************************)
EXTENDS Naturals, Sequences

CONSTANTS
    MaxRows,        \* bound: rows of the whole result
    PageSize,       \* fetchSize
    MaxEmptyPages   \* bound: pages without a row that have a successor

ASSUME PagesAssumption ==
    MaxRows \in Nat /\ PageSize \in Nat \ {0} /\ MaxEmptyPages \in Nat

Least(a, b) == IF a < b THEN a ELSE b

\* Faulty: the rows of a page come in reverse order.
PageRows_Reversed(from, n) == [j \in 1 .. n |-> from + n + 1 - j]

\* The rows of a page.
PageRows(from, n) == [j \in 1 .. n |-> from + j]

\* Of a result of "total" rows, the page at paging state "from" may have n rows and,
\* if more, a successor (hasNextPage()). A server may send a page without rows that
\* has one; "empty" such pages were sent so far.
MayServe(total, empty, from, n, more) ==
    /\ n <= Least(PageSize, total - from)
    /\ from + n < total => more
    /\ n = 0 /\ more => empty < MaxEmptyPages

\* The pages without a row but with a successor, after this one.
EmptyPages(empty, n, more) == empty + (IF n = 0 /\ more THEN 1 ELSE 0)
=============================================================================
