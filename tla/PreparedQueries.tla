--------------------------- MODULE PreparedQueries ---------------------------
(***************************************************************************)
(* The prepared statements that the metadata keeps by query and by id      *)
(* (PreparedQueries in metadata/index.js).  External: whoever asked for a  *)
(* statement prepares it, sets its queryId and hands it to setById.        *)
(***************************************************************************)
EXTENDS Naturals, Sequences, FiniteSets

CONSTANTS
    Queries,        \* keyspace and query, as getOrAdd puts them together
    MaxPrepared,    \* options.maxPrepared
    MaxInfos        \* bound: statements made

ASSUME PreparedAssumption == MaxPrepared \in Nat \ {0} /\ MaxInfos \in Nat

VARIABLES
    infos,          \* the statements made: [key, prepared, cleared]
    byKey,          \* _mapByKey: the numbers of its statements, which grow in the order of insertion
    byId,           \* _mapById: the numbers of its statements, each its own queryId
    preparedLength, \* this.length
    addedLast       \* the statement that getOrAdd made last, 0 after other operations

preparedVars == <<infos, byKey, byId, preparedLength, addedLast>>

PreparedInit ==
    infos = << >> /\ byKey = {} /\ byId = {} /\ preparedLength = 0 /\ addedLast = 0

HasId(i) == infos[i].prepared

\* Only statements with a queryId may go, and the oldest of them first.
Removable == {i \in byKey : HasId(i)}
OldestRemovable(out, count) ==
    /\ Cardinality(out) = IF count < Cardinality(Removable) THEN count ELSE Cardinality(Removable)
    /\ \A i \in out, j \in Removable \ out : i < j

\* Faulty: one statement fewer goes than has to.
Evicts_OneFewer(out) ==
    IF preparedLength < MaxPrepared THEN out = {}
    ELSE OldestRemovable(out, preparedLength - MaxPrepared)

\* _validateOverflow: the oldest statements that are prepared go.
Evicts(out) ==
    IF preparedLength < MaxPrepared THEN out = {}
    ELSE OldestRemovable(out, preparedLength - MaxPrepared + 1)

Known(key) == \E i \in byKey : infos[i].key = key

\* A statement that is known is returned as it is.
GetOrAdd(key) ==
    LET new == Len(infos) + 1
    IN  /\ ~Known(key) /\ new <= MaxInfos
        /\ \E out \in SUBSET Removable :
              /\ Evicts(out)
              /\ byKey' = (byKey \ out) \union {new}
              /\ byId' = byId \ out
              /\ preparedLength' = preparedLength - Cardinality(out) + 1
        /\ infos' = Append(infos, [key |-> key, prepared |-> FALSE, cleared |-> FALSE])
        /\ addedLast' = new

\* External, up to the call of setById.
SetById(i) ==
    /\ ~HasId(i)
    /\ infos' = [infos EXCEPT ![i].prepared = TRUE]
    /\ byId' = byId \union {i}
    /\ addedLast' = 0
    /\ UNCHANGED <<byKey, preparedLength>>

ClearPrepared ==
    /\ byKey # {}
    /\ infos' = [i \in DOMAIN infos |-> [infos[i] EXCEPT !.cleared = TRUE]]
    /\ byKey' = {} /\ byId' = {} /\ preparedLength' = 0 /\ addedLast' = 0

PreparedNext ==
    \/ \E key \in Queries : GetOrAdd(key)
    \/ \E i \in DOMAIN infos : SetById(i)
    \/ ClearPrepared

PreparedSpec == PreparedInit /\ [][PreparedNext]_preparedVars

-----------------------------------------------------------------------------
\* What is found by id: the statement is also found by its query, unless the cache was
\* cleared while it was being prepared; and every query has one statement.
ByIdMeansByKey ==
    /\ preparedLength = Cardinality(byKey)
    /\ \A i, j \in byKey : infos[i].key = infos[j].key => i = j
    /\ \A i \in byId : i \in byKey \/ infos[i].cleared
    /\ \A i \in byKey : HasId(i) => i \in byId

\* The cache of prepared statements agrees with itself and keeps to its maximum: when a
\* statement was just added, there are no more than maxPrepared unless the rest are all
\* still being prepared.
PreparedBounded ==
    /\ ByIdMeansByKey
    /\ addedLast # 0 /\ preparedLength > MaxPrepared =>
            \A i \in byKey : ~HasId(i)
=============================================================================
