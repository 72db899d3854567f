----------------------------- MODULE SchemaCache -----------------------------
(***************************************************************************)
(* What the metadata of a client knows of one keyspace and of one object   *)
(* in it, a table, a view, a user type or the functions of a name: the     *)
(* keyspace objects that refreshes install, the object cached in each, and *)
(* the callers that share one load of it (metadata/index.js, schema-       *)
(* parser.js).  The server is external: its schema has a version, a query  *)
(* reads it at some moment after it was sent, and the answers arrive in    *)
(* any order or as errors.                                                 *)
(***************************************************************************)
EXTENDS Naturals, Sequences, FiniteSets

CONSTANTS
    Callers,        \* calls of getTable, getMaterializedView, getUdt or getFunctions
    Refreshes,      \* calls of refreshKeyspace and refreshKeyspaces
    Settings,       \* of what is asked for: [kind, sync, virtual], kind one of "table",
                    \* "view", "udt" and "functions"
    MaxVersion      \* bound: versions of the schema

ASSUME SchemaAssumption ==
    /\ MaxVersion \in Nat \ {0}
    /\ Settings \subseteq [kind : {"table", "view", "udt", "functions"}, sync : BOOLEAN, virtual : BOOLEAN]

VARIABLES
    objectKind,     \* what the callers ask for
    syncEnabled,    \* options.isMetadataSyncEnabled
    isVirtual,      \* whether the keyspace is a virtual one
    history,        \* the versions of the schema: "object", "empty" or "none"
    keyspace,       \* this.keyspaces[name]: the number of the object, 0 when there is none
    entries,        \* by keyspace object: the entry of its cache
    call,           \* by caller
    refresh,        \* by refresh
    refreshedFrom   \* the version at which a refresh began that has completed

schemaVars ==
    <<objectKind, syncEnabled, isVirtual, history, keyspace, entries, call, refresh, refreshedFrom>>

Version == Len(history)
Unread == 0
Larger(a, b) == IF a >= b THEN a ELSE b

NewEntry == [loading |-> FALSE, loaded |-> Unread]
NoAnswer == [is |-> "nothing", version |-> Unread]
NewCall == [at |-> "idle", of |-> 0, read |-> Unread, rows |-> Unread, virtual |-> "no",
            since |-> Unread, answer |-> NoAnswer]
NewRefresh == [at |-> "idle", scope |-> "one", pending |-> << >>, found |-> FALSE, from |-> Unread]

SchemaInit ==
    /\ \E s \in Settings : objectKind = s.kind /\ syncEnabled = s.sync /\ isVirtual = s.virtual
    /\ history = <<"object">>
    /\ keyspace = 1
    /\ entries = <<NewEntry>>
    /\ call = [c \in Callers |-> NewCall]
    /\ refresh = [r \in Refreshes |-> NewRefresh]
    /\ refreshedFrom = Unread

\* External: the schema is changed.
AlterSchema ==
    /\ Version < MaxVersion
    /\ \E s \in {"object", "empty", "none"} : history' = Append(history, s)
    /\ UNCHANGED <<objectKind, syncEnabled, isVirtual, keyspace, entries, call, refresh, refreshedFrom>>

-----------------------------------------------------------------------------
\* The loads of the object.
Querying == {"row", "virtual", "columns", "indexes"}
Loading == Querying \union {"parse"}

Ended(started, answer) ==
    [NewCall EXCEPT !.at = "done", !.since = started.since, !.answer = answer]

\* Whether the keyspace of a call is known to be virtual: only its cached object tells.
VirtualOf == IF ~syncEnabled THEN "unknown" ELSE IF isVirtual THEN "yes" ELSE "no"

\* Without a keyspace object there is nothing to ask for.
AnswerMissing(c) ==
    /\ call[c].at = "idle" /\ syncEnabled /\ keyspace = 0
    /\ call' = [call EXCEPT ![c].at = "done", ![c].answer = [is |-> "no keyspace", version |-> Unread]]
    /\ UNCHANGED <<objectKind, syncEnabled, isVirtual, history, keyspace, entries, refresh, refreshedFrom>>

\* An object that is loaded is returned, one that is being loaded is waited for.
Get(c) ==
    LET of == IF syncEnabled THEN keyspace ELSE 0
        started == [NewCall EXCEPT !.of = of, !.virtual = VirtualOf,
                                   !.since = IF syncEnabled THEN refreshedFrom ELSE Version]
    IN  /\ call[c].at = "idle" /\ (syncEnabled => keyspace # 0)
        /\ CASE of # 0 /\ entries[of].loaded # Unread ->
                    /\ call' = [call EXCEPT ![c] =
                                Ended(started, [is |-> "found", version |-> entries[of].loaded])]
                    /\ UNCHANGED entries
             [] of # 0 /\ entries[of].loaded = Unread /\ entries[of].loading ->
                    /\ call' = [call EXCEPT ![c] = [started EXCEPT !.at = "waiting"]]
                    /\ UNCHANGED entries
             [] OTHER ->
                    /\ call' = [call EXCEPT ![c] = [started EXCEPT !.at = "row"]]
                    /\ entries' = IF of = 0 THEN entries ELSE [entries EXCEPT ![of].loading = TRUE]
        /\ UNCHANGED <<objectKind, syncEnabled, isVirtual, history, keyspace, refresh, refreshedFrom>>

\* External: the server reads what a query asks for.
ServerReads(c) ==
    /\ call[c].at \in Querying /\ call[c].read = Unread
    /\ call' = [call EXCEPT ![c].read = Version,
                            ![c].rows = IF @ = Unread THEN Version ELSE @]
    /\ UNCHANGED <<objectKind, syncEnabled, isVirtual, history, keyspace, entries, refresh, refreshedFrom>>

\* Virtual keyspaces only have tables, which are in tables of their own.
RowFound(c) ==
    /\ history[call[c].read] = "object"
    /\ IF objectKind = "table" THEN isVirtual = (call[c].at = "virtual" \/ call[c].virtual = "yes")
       ELSE ~isVirtual

\* Faulty: those who wait for the load are not told.
EndLoad_Silent(c, answer) ==
    LET of == call[c].of
    IN  /\ call' = [call EXCEPT ![c] = Ended(@, answer)]
        /\ entries' = IF of = 0 THEN entries
                      ELSE [entries EXCEPT ![of].loading = FALSE,
                                ![of].loaded = IF answer.is = "found" THEN answer.version ELSE @]

\* The load ends: "load" is emitted to those who wait for it.
EndLoad(c, answer) ==
    LET of == call[c].of
        told == {d \in Callers : call[d].at = "waiting" /\ call[d].of = of}
    IN  /\ call' = [d \in Callers |-> IF d \in told \union {c}
                                      THEN Ended(call[d], answer)
                                      ELSE call[d]]
        /\ entries' = IF of = 0 THEN entries
                      ELSE [entries EXCEPT ![of].loading = FALSE,
                                ![of].loaded = IF answer.is = "found" THEN answer.version ELSE @]

GoOn(c, step) ==
    /\ call' = [call EXCEPT ![c].at = step, ![c].read = Unread,
                   ![c].virtual = IF call[c].at = "virtual" THEN "yes" ELSE @]
    /\ UNCHANGED entries

\* A missing table of a keyspace of which nothing is known may be a virtual one.
RowMissing(c) ==
    IF objectKind = "table" /\ call[c].at = "row" /\ call[c].virtual = "unknown"
    THEN GoOn(c, "virtual")
    ELSE EndLoad(c, [is |-> "none", version |-> call[c].read])

\* The order of the queries of each kind of object.
NextForTable(c) ==
    CASE call[c].at \in {"row", "virtual"} -> "columns"
      [] call[c].at = "columns" /\ call[c].virtual # "yes" -> "indexes"
      [] OTHER -> "parse"
NextForView(c) == IF call[c].at = "row" THEN "columns" ELSE "parse"
NextForUdt(c) == "parse"
NextForFunctions(c) == "parse"

NextStep(c) ==
    CASE objectKind = "table" -> NextForTable(c)
      [] objectKind = "view" -> NextForView(c)
      [] objectKind = "udt" -> NextForUdt(c)
      [] objectKind = "functions" -> NextForFunctions(c)

QueryAnswered(c) ==
    /\ call[c].at \in Querying /\ call[c].read # Unread
    /\ IF call[c].at \in {"row", "virtual"} /\ ~RowFound(c) THEN RowMissing(c) ELSE GoOn(c, NextStep(c))
    /\ UNCHANGED <<objectKind, syncEnabled, isVirtual, history, keyspace, refresh, refreshedFrom>>

Parsed(c) ==
    /\ call[c].at = "parse"
    /\ EndLoad(c, [is |-> "found", version |-> call[c].rows])
    /\ UNCHANGED <<objectKind, syncEnabled, isVirtual, history, keyspace, refresh, refreshedFrom>>

\* The error of a query for a virtual table is taken for its absence.
LoadFails(c) ==
    /\ call[c].at \in Loading
    /\ EndLoad(c, [is |-> IF call[c].at = "virtual" THEN "none" ELSE "error", version |-> Version])
    /\ UNCHANGED <<objectKind, syncEnabled, isVirtual, history, keyspace, refresh, refreshedFrom>>

-----------------------------------------------------------------------------
\* The refreshes of the keyspace.

\* A single keyspace is looked for among the virtual ones once it is not found among the
\* others; all keyspaces are asked for at the same time.
StartRefresh(r, scope) ==
    /\ refresh[r].at = "idle"
    /\ refresh' = [refresh EXCEPT ![r] = [NewRefresh EXCEPT !.at = "sent", !.scope = scope, !.from = Version,
                !.pending = [q \in IF scope = "all" THEN {"real", "virtual"} ELSE {"real"} |-> Unread]]]
    /\ UNCHANGED <<objectKind, syncEnabled, isVirtual, history, keyspace, entries, call, refreshedFrom>>

ServerReadsKeyspace(r, q) ==
    /\ refresh[r].at = "sent" /\ q \in DOMAIN refresh[r].pending /\ refresh[r].pending[q] = Unread
    /\ refresh' = [refresh EXCEPT ![r].pending[q] = Version]
    /\ UNCHANGED <<objectKind, syncEnabled, isVirtual, history, keyspace, entries, call, refreshedFrom>>

\* Faulty: the new object of the keyspace takes over what the old one cached.
Install_KeepCache(r, found) ==
    /\ keyspace' = IF found THEN Len(entries) + 1 ELSE 0
    /\ entries' = IF found THEN Append(entries, IF keyspace = 0 THEN NewEntry ELSE entries[keyspace])
                  ELSE entries
    /\ refreshedFrom' = Larger(refreshedFrom, refresh[r].from)
    /\ refresh' = [refresh EXCEPT ![r].at = "done", ![r].pending = << >>]

\* The keyspace gets a new object, with nothing cached in it, or none.
Install(r, found) ==
    /\ keyspace' = IF found THEN Len(entries) + 1 ELSE 0
    /\ entries' = IF found THEN Append(entries, NewEntry) ELSE entries
    /\ refreshedFrom' = Larger(refreshedFrom, refresh[r].from)
    /\ refresh' = [refresh EXCEPT ![r].at = "done", ![r].pending = << >>]

\* What r makes of an answer to q: found tells whether the keyspace was in it.
Take(r, q, found) ==
    LET others == DOMAIN refresh[r].pending \ {q}
        known == refresh[r].found \/ found
    IN  CASE refresh[r].scope = "one" /\ q = "real" /\ ~found ->
                /\ refresh' = [refresh EXCEPT ![r].pending = [x \in {"virtual"} |-> Unread]]
                /\ UNCHANGED <<keyspace, entries, refreshedFrom>>
          [] ~(refresh[r].scope = "one" /\ q = "real" /\ ~found) /\ others # {} ->
                /\ refresh' = [refresh EXCEPT ![r].found = known,
                                  ![r].pending = [x \in others |-> refresh[r].pending[x]]]
                /\ UNCHANGED <<keyspace, entries, refreshedFrom>>
          [] OTHER -> Install(r, known)

KeyspaceAnswered(r, q) ==
    /\ refresh[r].at = "sent" /\ q \in DOMAIN refresh[r].pending /\ refresh[r].pending[q] # Unread
    /\ Take(r, q, /\ history[refresh[r].pending[q]] # "none" /\ isVirtual = (q = "virtual"))
    /\ UNCHANGED <<objectKind, syncEnabled, isVirtual, history, call>>

\* A server may not know virtual keyspaces: only the error of the other query counts.
KeyspaceFails(r, q) ==
    /\ refresh[r].at = "sent" /\ q \in DOMAIN refresh[r].pending
    /\ IF q = "virtual" THEN Take(r, q, FALSE)
       ELSE /\ refresh' = [refresh EXCEPT ![r].at = "done", ![r].pending = << >>]
            /\ UNCHANGED <<keyspace, entries, refreshedFrom>>
    /\ UNCHANGED <<objectKind, syncEnabled, isVirtual, history, call>>

-----------------------------------------------------------------------------
LoadStep(c) == ServerReads(c) \/ QueryAnswered(c) \/ Parsed(c) \/ LoadFails(c)

SchemaNext ==
    \/ AlterSchema
    \/ \E c \in Callers : AnswerMissing(c) \/ Get(c) \/ LoadStep(c)
    \/ \E r \in Refreshes :
            \/ \E scope \in {"one", "all"} : StartRefresh(r, scope)
            \/ \E q \in {"real", "virtual"} :
                    ServerReadsKeyspace(r, q) \/ KeyspaceAnswered(r, q) \/ KeyspaceFails(r, q)

\* The control connection answers every query, or fails it.
SchemaFairness == \A c \in Callers : WF_schemaVars(LoadStep(c))

SchemaSpec == SchemaInit /\ [][SchemaNext]_schemaVars /\ SchemaFairness

-----------------------------------------------------------------------------
LoadersOf(k) == {c \in Callers : call[c].at \in Loading /\ call[c].of = k}

\* Whoever waits for an object waits for a load that runs: an entry that is marked as
\* loading has exactly one loader, the others have none and nobody waiting for them,
\* whatever fails and however often the keyspace is replaced meanwhile.
LoadsShared ==
    \A k \in DOMAIN entries :
        /\ Cardinality(LoadersOf(k)) = (IF entries[k].loading THEN 1 ELSE 0)
        /\ (\E c \in Callers : call[c].at = "waiting" /\ call[c].of = k) => entries[k].loading

\* A call made after a refresh of the keyspace has completed is answered from rows that
\* were read no earlier than the beginning of that refresh, and without a cache from rows
\* read no earlier than the call. The code caches materialized views like the rest, so a
\* call for a view that comes after another may be answered without a query, although the
\* comment of getMaterializedView says that it never is: what holds of views is only that
\* a refresh of the keyspace forgets them.
FreshAfterRefresh ==
    \A c \in Callers : call[c].answer.is \in {"found", "none"} => call[c].answer.version >= call[c].since

\* Every call for the metadata of an object is answered, also the ones that wait for the
\* load of another call which fails or finds nothing.
CallsAnswered == \A c \in Callers : call[c].at # "idle" ~> call[c].at = "done"
=============================================================================
