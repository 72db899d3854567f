----------------------------- MODULE RowDelivery -----------------------------
(***************************************************************************)
(* What every way of reading a paged result promises its user, whatever    *)
(* the pages look like: the rows come one by one, in order and without     *)
(* repetition, and the result is reported as finished only when all rows   *)
(* were delivered or an error was reported.                                *)
(***************************************************************************)
EXTENDS Naturals, Sequences

VARIABLES
    total,      \* rows the query has
    delivered,  \* the rows given to the user
    failed,     \* an error was reported
    finished    \* the end was reported

vars == <<total, delivered, failed, finished>>

Init ==
    /\ total \in Nat
    /\ delivered = << >>
    /\ failed = FALSE
    /\ finished = FALSE

Deliver ==
    /\ ~finished
    /\ Len(delivered) < total
    /\ delivered' = Append(delivered, Len(delivered) + 1)
    /\ UNCHANGED <<total, failed, finished>>

Fail ==
    /\ ~finished
    /\ failed' = TRUE
    /\ UNCHANGED <<total, delivered, finished>>

Finish ==
    /\ ~finished
    /\ Len(delivered) = total \/ failed
    /\ finished' = TRUE
    /\ UNCHANGED <<total, delivered, failed>>

Next == Deliver \/ Fail \/ Finish

Spec == Init /\ [][Next]_vars
=============================================================================
