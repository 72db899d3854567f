--------------------------- MODULE ResultSetGroup ---------------------------
(***************************************************************************)
(* ResultSetGroup of lib/concurrent/index.js: what executeConcurrent()     *)
(* hands to its user. The executors over arrays and over streams both fill *)
(* one. An error is represented by the index of the item that failed.      *)
(* The bounds and defaults of the executors' options are declared here.    *)
(***************************************************************************)
EXTENDS Naturals, Sequences, FiniteSets

CONSTANTS
    MaxItems,       \* bound: length of the array, items the stream emits
    MaxLevel,       \* bound: the concurrencyLevel option
    DefaultLevel,   \* 100: used when concurrencyLevel is absent or 0
    MaxErrorsLimit, \* bound: the maxErrors option
    DefaultErrors   \* 100: used when maxErrors is absent or 0

ASSUME OptionsAssumption ==
    /\ MaxItems \in Nat /\ MaxLevel \in Nat /\ MaxErrorsLimit \in Nat
    /\ DefaultLevel \in Nat \ {0} /\ DefaultErrors \in Nat \ {0}

Least(a, b) == IF a < b THEN a ELSE b

\* An option that is absent or 0 takes its default.
OrDefault(option, default) == IF option = 0 THEN default ELSE option

EmptyGroup(items) ==
    [totalExecuted |-> 0,
     errors        |-> << >>,
     resultItems   |-> [i \in items |-> "none"]]

\* setResultItem(index, rs)
WithResult(g, index) ==
    [g EXCEPT !.totalExecuted = @ + 1,
              !.resultItems[index] = "rows"]

\* setError(index, err)
WithError(g, index, maxErrors) ==
    [g EXCEPT !.totalExecuted = @ + 1,
              !.errors = IF Len(@) < maxErrors THEN Append(@, index) ELSE @,
              !.resultItems[index] = "error"]

Settled(g) == {i \in DOMAIN g.resultItems : g.resultItems[i] # "none"}
Failed(g) == {i \in DOMAIN g.resultItems : g.resultItems[i] = "error"}

IsGroup(g, items) ==
    /\ DOMAIN g = {"totalExecuted", "errors", "resultItems"}
    /\ g.totalExecuted \in Nat
    /\ g.errors \in Seq(items)
    /\ g.resultItems \in [items -> {"none", "rows", "error"}]

\* The counters agree with the items, also when there are more failures than
\* maxErrors.
Accounts(g, maxErrors) ==
    /\ g.totalExecuted = Cardinality(Settled(g))
    /\ Len(g.errors) = Least(maxErrors, Cardinality(Failed(g)))
    /\ \A j \in DOMAIN g.errors : g.errors[j] \in Failed(g)
=============================================================================
