------------------------------- MODULE Mapping -------------------------------
(***************************************************************************)
(* The object mapper (lib/mapping): calls on a ModelMapper and batches of  *)
(* a Mapper, the caches in which they share generated statements, and the  *)
(* results they return.                                                    *)
(*                                                                         *)
(* A call looks its shape up in the cache of its operation.  An item that  *)
(* has no executor yet is filled after connect() and the metadata of the   *)
(* tables were awaited: every call that finds it empty does so for itself. *)
(* The items of a batch hold a promise instead, that all batches share.    *)
(***************************************************************************)
EXTENDS QueryGenerator, RadixTree

CONSTANTS
    Requests,        \* calls of get, find, findAll, insert, update and remove
    Batches,         \* lists of items given to Mapper.batch(), each with its isIdempotent option
    Queries,         \* custom queries: query -> the column lists it may answer with
    TreeKeys,        \* keys looked up in the tree on its own
    MaxCalls,        \* bound: calls of a behaviour
    TreeLimit,       \* bound: items of the tree on its own
    MaxFailures      \* bound: failing requests, of metadata or of execution

ASSUME MappingAssumption == {MaxCalls, TreeLimit, MaxFailures} \subseteq Nat

VARIABLES
    layer,      \* "mapper", or "tree" when only the tree is used
    caches,     \* the trees
    store,      \* the items in them, in order of creation
    found,      \* what was found by the last lookups
    custom,     \* customQueries: query -> the columns its adapter reads
    calls,      \* the calls made
    failures

vars == <<layer, caches, store, found, custom, calls, failures>>

Caches == {"select", "selectAll", "insert", "update", "remove", "batch.insert", "batch.update"}

Applied == "[applied]"

-----------------------------------------------------------------------------
\* The keys of the caches (cache.js).
RECURSIVE YieldOperators(_)
YieldOperators(shape) ==
    CASE shape.form = "operator" -> <<shape.key>>
      [] shape.form = "and" ->
            <<"AND">> \o YieldOperators(shape.left) \o <<"|/|">> \o YieldOperators(shape.right)
      [] OTHER -> << >>


YieldKeyAndOperators(doc) ==
    FlattenSeq([i \in DOMAIN doc |-> <<doc[i][1]>> \o YieldOperators(doc[i][2])])

YieldKeyAndAllQs(doc) ==
    FlattenSeq([i \in DOMAIN doc |->
        <<doc[i][1]>> \o YieldOperators(doc[i][2])
            \o (IF doc[i][2].form = "assignment"
                THEN <<doc[i][2].sign, IF doc[i][2].inverted THEN "true" ELSE "false">>
                ELSE << >>)])

Flag(b, token) == IF b THEN <<token>> ELSE << >>
FieldsKey(r) == IF r.fields = << >> THEN << >> ELSE <<"|f|">> \o r.fields

SelectDocInfo(r) ==
    FieldsKey(r) \o Flag(r.limit, "|l|")
        \o (IF r.orderBy = << >> THEN << >> ELSE <<"|o|">> \o FlattenSeq(r.orderBy))

getSelectKey(r) == YieldKeyAndOperators(r.doc) \o SelectDocInfo(r)
getSelectAllKey(r) == <<"root">> \o SelectDocInfo(r)
getInsertKey(r) == Keys(r.doc) \o FieldsKey(r) \o Flag(r.ttl, "|t|") \o Flag(r.exists, "|e|")
getUpdateKey(r) ==
    YieldKeyAndAllQs(r.doc) \o FieldsKey(r) \o Flag(r.ttl, "|t|") \o Flag(r.exists, "|e|")
        \o YieldKeyAndOperators(r.when)
getRemoveKey(r) ==
    YieldKeyAndOperators(r.doc) \o FieldsKey(r) \o Flag(r.exists, "|e|") \o Flag(r.only, "|dc|")
        \o YieldKeyAndOperators(r.when)

CacheKey(r) ==
    CASE r.op \in {"get", "find"} -> getSelectKey(r)
      [] r.op = "findAll" -> getSelectAllKey(r)
      [] r.op \in {"insert", "batch.insert"} -> getInsertKey(r)
      [] r.op \in {"update", "batch.update"} -> getUpdateKey(r)
      [] r.op \in {"remove", "batch.remove"} -> getRemoveKey(r)

\* The items of batching.remove() are in the cache of batching.update().
CacheOf(r) ==
    CASE r.op \in {"get", "find"} -> "select"
      [] r.op = "findAll" -> "selectAll"
      [] r.op = "batch.remove" -> "batch.update"
      [] OTHER -> r.op

-----------------------------------------------------------------------------
\* The statements of a request when the metadata of some tables is missing; none when
\* it is rejected.
SelectStatements(r, missing) ==
    LET props == getPropertiesInfo(Keys(r.doc), << >>, r.doc)
        fields == getPropertiesInfo(<< >>, r.fields, r.doc)
        order == adaptOrderBy(r.orderBy)
        fit == {i \in DOMAIN Tables : FitsSelect(Tables[i], r.op = "get", props, fields, order)}
        first == CHOOSE i \in fit : \A j \in fit : i <= j
    IN  IF fit = {} \/ \E i \in missing : i <= first THEN << >>
        ELSE <<getSelect(Tables[first].name, props, fields, order, r.limit)>>

SelectAllStatements(r) ==
    <<getSelect(Tables[1].name, << >>, getPropertiesInfo(<< >>, r.fields, << >>),
                adaptOrderBy(r.orderBy), r.limit)>>

Base == SelectSeq(Tables, LAMBDA t : ~t.isView)

\* Conditions cannot span several tables, and a base table that is missing fails all.
PerTable(fit, conditional, missing) ==
    IF (\E i \in missing : ~Tables[i].isView) \/ (Len(fit) > 1 /\ conditional) THEN << >> ELSE fit

createInsertQueries(r, missing) ==
    LET props == getPropertiesInfo(Keys(r.doc), r.fields, r.doc)
        tables == PerTable(SelectSeq(Base, LAMBDA t : FitsInsert(t, props)), r.exists, missing)
    IN  [i \in DOMAIN tables |-> getInsert(tables[i], props, r.ttl, r.exists)]

createUpdateQueries(r, missing) ==
    LET props == getPropertiesInfo(Keys(r.doc), r.fields, r.doc)
        when == getPropertiesInfo(Keys(r.when), << >>, r.when)
        tables == PerTable(SelectSeq(Base, LAMBDA t : FitsUpdate(t, props, when)),
                           when # << >> \/ r.exists, missing)
    IN  [i \in DOMAIN tables |-> getUpdate(tables[i], props, r.ttl, when, r.exists)]

createDeleteQueries(r, missing) ==
    LET props == getPropertiesInfo(Keys(r.doc), r.fields, r.doc)
        when == getPropertiesInfo(Keys(r.when), << >>, r.when)
        tables == PerTable(SelectSeq(Base, LAMBDA t : FitsDelete(t, props, when)),
                           when # << >> \/ r.exists, missing)
    IN  [i \in DOMAIN tables |-> getDelete(tables[i], props, r.only, when, r.exists)]

Statements(r, missing) ==
    CASE r.op \in {"get", "find"} -> SelectStatements(r, missing)
      [] r.op = "findAll" -> SelectAllStatements(r)
      [] r.op \in {"insert", "batch.insert"} -> createInsertQueries(r, missing)
      [] r.op \in {"update", "batch.update"} -> createUpdateQueries(r, missing)
      [] r.op \in {"remove", "batch.remove"} -> createDeleteQueries(r, missing)

\* What throws before anything is awaited.
Refused(r) ==
    \/ r.op \in {"get", "find", "findAll"} /\ ~OrderIsValid(r.orderBy)
    \/ r.op \notin {"insert", "batch.insert"} /\ r.when # << >> /\ r.exists

-----------------------------------------------------------------------------
\* An item of a cache; its state is "null" until it has an executor or a promise.
NewItem(r) == [for |-> r, state |-> "null", statements |-> << >>, adapter |-> << >>]

\* Several lookups of one synchronous stretch of code, threaded through this record.
Lookups == [caches |-> caches, store |-> store, ids |-> << >>, found |-> {}, thrown |-> FALSE]

LookUp(l, cache, key, item) ==
    LET v == GetOrCreate(l.caches[cache], key, Len(l.store) + 1)
    IN  [l EXCEPT !.caches[cache] = v.node, !.ids = Append(@, v.value),
                  !.found = @ \union {<<cache, key, v.value>>},
                  !.store = IF v.value > Len(@) THEN Append(@, item) ELSE @]

NewCall(pc, requests) ==
    [pc |-> pc, requests |-> requests, ids |-> << >>, waiting |-> {}, sent |-> << >>, option |-> "unset",
     isIdempotent |-> TRUE, isCounter |-> FALSE, query |-> "none", item |-> {}]

AllIdempotent(statements) == \A i \in DOMAIN statements : statements[i].isIdempotent

\* An option of the call goes before what the statements say; a select is always
\* idempotent.
adaptOptions(r, idempotent) ==
    IF r.idempotent = "unset" \/ r.op \in {"get", "find", "findAll"} THEN idempotent
    ELSE r.idempotent = "yes"

\* The executor runs for the request of the call.
Send(call, statements) ==
    [call EXCEPT !.pc = "executing",
                 !.sent = [i \in DOMAIN statements |-> <<1, statements[i]>>],
                 !.isIdempotent = adaptOptions(call.requests[1], AllIdempotent(statements))]

\* What the executors of a ModelMapper's methods have in common: the item of the shape is
\* looked up, and its executor run when it has one.
GetExecutor(r) ==
    LET l == LookUp(Lookups, CacheOf(r), CacheKey(r), NewItem(r))
        item == l.store[l.ids[1]]
        call == [NewCall("creating", <<r>>) EXCEPT !.ids = l.ids]
    IN  /\ IF r.doc = << >>
           THEN /\ calls' = Append(calls, NewCall("failed", <<r>>))
                /\ UNCHANGED <<caches, store, found>>
           ELSE /\ caches' = l.caches /\ store' = l.store /\ found' = l.found
                /\ calls' = Append(calls,
                        CASE item.state = "ready" -> Send(call, item.statements)
                          [] item.state # "ready" /\ Refused(r) -> [call EXCEPT !.pc = "thrown"]
                          [] OTHER -> call)
        /\ UNCHANGED <<custom, failures>>

CallSelect(r) == r.op \in {"get", "find"} /\ GetExecutor(r)
CallInsert(r) == r.op = "insert" /\ GetExecutor(r)
CallUpdate(r) == r.op = "update" /\ GetExecutor(r)
CallRemove(r) == r.op = "remove" /\ GetExecutor(r)

\* findAll() needs no metadata and creates its executor at once.
FindAll(r) ==
    LET l == LookUp(Lookups, CacheOf(r), CacheKey(r), NewItem(r))
        id == l.ids[1]
        ready == IF l.store[id].state = "ready" THEN l.store[id]
                 ELSE [l.store[id] EXCEPT !.state = "ready", !.statements = Statements(r, {})]
        call == [NewCall("thrown", <<r>>) EXCEPT !.ids = l.ids]
    IN  /\ r.op = "findAll"
        /\ caches' = l.caches /\ found' = l.found
        /\ IF l.store[id].state = "null" /\ Refused(r)
           THEN store' = l.store /\ calls' = Append(calls, call)
           ELSE /\ store' = [l.store EXCEPT ![id] = ready]
                /\ calls' = Append(calls, Send(call, ready.statements))
        /\ UNCHANGED <<custom, failures>>

\* connect() and the metadata are there: the executor is made and run, or the call is
\* rejected and the item left as it was.
Create(i, missing) ==
    LET call == calls[i]
        id == call.ids[1]
        statements == Statements(call.requests[1], missing)
    IN  /\ call.pc = "creating"
        /\ IF statements = << >>
           THEN /\ calls' = [calls EXCEPT ![i].pc = "failed"]
                /\ UNCHANGED store
           ELSE /\ store' = [store EXCEPT ![id].state = "ready", ![id].statements = statements]
                /\ calls' = [calls EXCEPT ![i] = Send(call, statements)]
        /\ UNCHANGED <<caches, found, custom>>

\* The rejection of the connection, of the metadata or of the execution.
RequestFails(i) ==
    /\ calls[i].pc \in {"creating", "executing"}
    /\ calls' = [calls EXCEPT ![i].pc = "failed"]
    /\ UNCHANGED <<caches, store, found, custom>>

-----------------------------------------------------------------------------
\* Batches (mapper.js, model-batch-item.js). Each item in turn gets its promise.
RECURSIVE GetQueries(_, _)
GetQueries(l, items) ==
    IF items = << >> \/ l.thrown THEN l
    ELSE LET r == Head(items)
             m == LookUp(l, CacheOf(r), CacheKey(r), NewItem(r))
             id == m.ids[Len(m.ids)]
         IN  GetQueries(
                IF m.store[id].state # "null" THEN m
                ELSE IF Refused(r) THEN [m EXCEPT !.thrown = TRUE]
                ELSE [m EXCEPT !.store[id].state = "pending", !.store[id].for = r],
                Tail(items))

\* Item j of the call is resolved with these statements.
PushQueries(call, j, statements) ==
    [call EXCEPT
        !.waiting = @ \ {j},
        !.sent = @ \o [k \in DOMAIN statements |-> <<j, statements[k]>>],
        !.isIdempotent = @ /\ AllIdempotent(statements),
        !.isCounter = statements[Len(statements)].isCounter]

\* adaptBatchOptions: an option of the batch goes before what its statements say.
adaptBatchOptions(call) ==
    [call EXCEPT !.isIdempotent = IF call.option = "unset" THEN @ ELSE call.option = "yes"]

\* The items of the call whose promise is resolved are pushed in their order; when none
\* is left the batch is sent.
RECURSIVE Push(_, _, _)
Push(call, items, j) ==
    IF j > Len(call.ids)
    THEN IF call.waiting = {} THEN [adaptBatchOptions(call) EXCEPT !.pc = "executing"] ELSE call
    ELSE LET item == items[call.ids[j]]
         IN  IF j \in call.waiting /\ item.state = "ready"
             THEN Push(PushQueries(call, j, item.statements), items, j + 1)
             ELSE IF item.state = "rejected" THEN [call EXCEPT !.pc = "failed"]
             ELSE Push(call, items, j + 1)

Batch(items, isIdempotent) ==
    LET l == GetQueries(Lookups, items)
        call == [NewCall("collecting", items) EXCEPT !.ids = l.ids, !.waiting = DOMAIN items,
                                                     !.option = isIdempotent]
    IN  /\ caches' = l.caches /\ store' = l.store /\ found' = l.found
        /\ calls' = Append(calls,
                CASE items = << >> -> NewCall("failed", items)
                  [] items # << >> /\ l.thrown -> [call EXCEPT !.pc = "thrown"]
                  [] OTHER -> Push(call, l.store, 1))
        /\ UNCHANGED <<custom, failures>>

\* The promise of an item is settled, and with it every batch that waits for it.
SettleItem(id, statements) ==
    LET settled == [store EXCEPT ![id].state = IF statements = << >> THEN "rejected" ELSE "ready",
                                 ![id].statements = statements]
    IN  /\ store[id].state = "pending"
        /\ store' = settled
        /\ calls' = [i \in DOMAIN calls |->
                IF calls[i].pc = "collecting" THEN Push(calls[i], settled, 1) ELSE calls[i]]
        /\ UNCHANGED <<caches, found, custom>>

-----------------------------------------------------------------------------
\* Results. An adapter is the columns it reads, a conditional one the row's own columns
\* but the first, and the no-op none.
SelectColumns(s) ==
    LET t == CHOOSE t \in ToSet(Tables) : t.name = s.table
    IN  IF s.columns # << >> THEN s.columns ELSE SetToSeq(DOMAIN t.columns)

\* What the server may answer: rows to a select, nothing to a mutation, and whether it
\* was applied, with the row that prevented it, to a conditional one.  The schema stays
\* as it is: an adapter that was kept for a select before a change is not looked at.
AnswersTo(call) ==
    IF call.query # "none" THEN Queries[call.query]
    ELSE IF call.sent[1][2].verb = "SELECT" THEN {SelectColumns(call.sent[1][2])}
    ELSE IF \E i \in DOMAIN call.sent : call.sent[i][2].condition # "none"
         THEN {<<Applied>>, <<Applied, Base[1].partitionKeys[1]>>}
         ELSE {<< >>}

\* The item the adapter makes of a row with these columns: property and column pairs.
Adapted(adapter, columns) ==
    {<<getPropertyName(adapter[i]), adapter[i]>> : i \in DOMAIN adapter}

ConditionalRowAdapter(columns) == Tail(columns)

getMutationAdapter(columns) ==
    IF columns \in {<< >>, <<Applied>>} THEN << >> ELSE ConditionalRowAdapter(columns)

\* Faulty: the adapter of a conditional query may be kept.
getCustomQueryAdapter_CacheAll(columns) ==
    IF columns # << >> /\ columns[1] = Applied
    THEN [canCache |-> TRUE, columns |-> ConditionalRowAdapter(columns)]
    ELSE [canCache |-> TRUE, columns |-> columns]

getCustomQueryAdapter(columns) ==
    IF columns # << >> /\ columns[1] = Applied
    THEN [canCache |-> FALSE, columns |-> ConditionalRowAdapter(columns)]
    ELSE [canCache |-> TRUE, columns |-> columns]

\* first() of a Result: nothing for no row and for the sole [applied].
First(adapter, columns) ==
    IF columns = << >> \/ columns = <<Applied>> THEN {} ELSE Adapted(adapter, columns)

Done(i, adapter, columns) ==
    calls' = [calls EXCEPT ![i].pc = "done", ![i].item =
                [row |-> columns, first |-> First(adapter, columns)]]

Answer(i, columns) ==
    LET call == calls[i]
        id == call.ids[1]
        adapter == IF store[id].adapter = << >> THEN columns ELSE store[id].adapter
    IN  /\ call.pc = "executing" /\ call.query = "none"
        /\ IF call.sent[1][2].verb = "SELECT"
           THEN /\ store' = [store EXCEPT ![id].adapter = adapter]
                /\ Done(i, adapter, columns)
           ELSE /\ Done(i, getMutationAdapter(columns), columns)
                /\ UNCHANGED store
        /\ UNCHANGED <<caches, found, custom>>

\* The executor that mapWithQuery() returned.
Query(q) ==
    /\ calls' = Append(calls, [NewCall("executing", << >>) EXCEPT !.query = q])
    /\ UNCHANGED <<caches, store, found, custom, failures>>

AnswerQuery(i, columns) ==
    LET call == calls[i]
        made == getCustomQueryAdapter(columns)
        adapter == IF call.query \in DOMAIN custom THEN custom[call.query] ELSE made.columns
    IN  /\ call.pc = "executing" /\ call.query # "none"
        /\ custom' = IF call.query \in DOMAIN custom \/ ~made.canCache THEN custom
                     ELSE custom @@ (call.query :> made.columns)
        /\ Done(i, adapter, columns)
        /\ UNCHANGED <<caches, store, found>>

-----------------------------------------------------------------------------
Init ==
    /\ layer \in {"mapper", "tree"}
    /\ caches = [c \in Caches |-> EmptyTree]
    /\ store = << >> /\ found = {} /\ custom = << >> /\ calls = << >> /\ failures = 0

Begin ==
    /\ Len(calls) < MaxCalls
    /\ \/ \E r \in Requests : CallSelect(r) \/ FindAll(r) \/ CallInsert(r) \/ CallUpdate(r) \/ CallRemove(r)
       \/ \E b \in Batches : Batch(b.items, b.isIdempotent)
       \/ \E q \in DOMAIN Queries : Query(q)

Fail == failures < MaxFailures /\ failures' = failures + 1

Progress ==
    \/ \E i \in DOMAIN calls : Create(i, {}) /\ UNCHANGED failures
    \/ \E i \in DOMAIN calls, t \in DOMAIN Tables : Create(i, {t}) /\ Fail
    \/ \E i \in DOMAIN calls : RequestFails(i) /\ Fail
    \/ \E id \in DOMAIN store : SettleItem(id, Statements(store[id].for, {})) /\ UNCHANGED failures
    \/ \E id \in DOMAIN store : SettleItem(id, << >>) /\ Fail
    \/ \E i \in DOMAIN calls :
            calls[i].pc = "executing"
                /\ \E columns \in AnswersTo(calls[i]) :
                        (Answer(i, columns) \/ AnswerQuery(i, columns)) /\ UNCHANGED failures

\* The tree on its own, with keys that split its nodes in every way.
TreeLookup ==
    /\ Len(store) < TreeLimit
    /\ \E key \in TreeKeys :
            LET l == LookUp(Lookups, "select", key, NewItem(key))
            IN  caches' = l.caches /\ store' = l.store /\ found' = l.found
    /\ UNCHANGED <<custom, calls, failures>>

Next ==
    /\ \/ layer = "mapper" /\ (Begin \/ Progress)
       \/ layer = "tree" /\ TreeLookup
    /\ UNCHANGED layer

Spec == Init /\ [][Next]_vars

-----------------------------------------------------------------------------
\* Only the parts of the calls that were sent are looked at below.
SentBy(call, j) ==
    LET mine == SelectSeq(call.sent, LAMBDA s : s[1] = j)
    IN  [k \in DOMAIN mine |-> mine[k][2]]
Executed == {i \in DOMAIN calls : calls[i].pc \in {"executing", "done"} /\ calls[i].query = "none"}

Map == INSTANCE ItemMap WITH items <- [c \in Caches |-> TreeItems(caches[c])]

\* The radix trees of tree.js are maps: whatever nodes a lookup splits or descends, it
\* returns the item of its key, makes one only for a new key and moves no other.
CachesAreMaps == Map!Spec

\* The conditions of an update or a removal follow its columns in the key with nothing
\* between them, unless there are options: update({id, name}, {when: {tags}}) has the key
\* of update({id, name, tags}).
RunTogether(r, s) ==
    LET options(x) == FieldsKey(x) \o Flag(x.ttl, "|t|") \o Flag(x.exists, "|e|") \o Flag(x.only, "|dc|")
    IN  /\ CacheOf(r) = CacheOf(s) /\ r.when # s.when
        /\ Keys(r.doc) \o Keys(r.when) = Keys(s.doc) \o Keys(s.when)
        /\ options(r) = << >> /\ options(s) = << >>

\* No call of the behaviour has a request whose key runs together to that of r.
KeyIsOwn(r) ==
    \A i \in DOMAIN calls : \A j \in DOMAIN calls[i].requests : ~RunTogether(r, calls[i].requests[j])

IsBatch(call) == call.requests # << >> /\ call.requests[1].op \in {"batch.insert", "batch.update", "batch.remove"}

\* Nothing but a failing request of its own keeps the call from its result.
Servable(call) ==
    /\ call.query = "none" => call.requests # << >>
    /\ \A j \in DOMAIN call.requests : call.requests[j].doc # << >> \/ call.requests[j].op = "findAll"
    /\ \A j \in DOMAIN call.requests : Statements(call.requests[j], {}) # << >>

\* A call executes the statements that are generated for its own request, although
\* they come from a cache that requests of other shapes share, or were generated for
\* another call.  Requests whose keys run together are the exception.  And a call of a
\* model mapper fails for itself only: what the metadata or the server refused to one
\* is tried again by the next.  Not so a batch, whose item keeps the rejected promise of
\* the first that made it.
OwnStatements ==
    /\ \A i \in Executed : \A j \in DOMAIN calls[i].requests :
           KeyIsOwn(calls[i].requests[j]) =>
               SentBy(calls[i], j) = Statements(calls[i].requests[j], {})
    /\ Cardinality({i \in DOMAIN calls : /\ calls[i].pc = "failed" /\ ~IsBatch(calls[i])
                                         /\ Servable(calls[i])}) <= failures

RECURSIVE LeafOperator(_, _)
LeafOperator(shape, path) ==
    CASE shape.form = "plain" /\ path = << >> -> "="
      [] shape.form = "operator" /\ path = <<"value">> -> shape.key
      [] shape.form = "assignment" /\ path = <<"value">> ->
            IF shape.inverted THEN "= ? +" ELSE shape.sign
      [] shape.form = "and" /\ Len(path) >= 2 /\ path[1] = "value" ->
            LeafOperator(IF path[2] = "0" THEN shape.left ELSE shape.right, From(path, 3))
      [] OTHER -> "none"

\* The parameter is the value this marker stands for.
Fills(marker, param, r) ==
    \/ marker.op = "USING" /\ param.from = "docInfo" /\ param.prop = marker.column
    \/ /\ marker.op # "USING" /\ param.from \in {"doc", "when"}
       /\ getColumnName(param.prop) = marker.column
       /\ LeafOperator(ShapeIn(IF param.from = "doc" THEN r.doc ELSE r.when, param.prop),
                       param.path) = marker.op

\* The columns of the markers up to the IF clause.
KeyColumns(s, r) ==
    {s.markers[k].column : k \in 1..(Len(s.markers) - Len(ConditionWithOperators(
            getPropertiesInfo(Keys(r.when), << >>, r.when))))}

\* An UPDATE that sets nothing: a table with a static column is taken for a document that
\* has only the columns of its primary key.
SetsNothing(s) == s.verb = "UPDATE" /\ s.columns = << >>


\* Whether executing the request twice is the same as executing it once.
Repeatable(r) ==
    /\ ~r.exists /\ r.when = << >>
    /\ \A j \in DOMAIN r.doc : \A t \in ToSet(Base) :
            LET c == getColumnName(r.doc[j][1])
            IN  c \in DOMAIN t.columns => /\ t.columns[c].type # "counter"
                                          /\ t.columns[c].type = "list" => r.doc[j][2] = Plain

\* A call goes out as idempotent only when all it does is, unless the user said so: the
\* flag is what permits the driver to repeat it after a timeout.  Left out are the
\* statements that another request left behind under a key that runs together.
IdempotentMeansRepeatable ==
    \A i \in Executed :
        calls[i].isIdempotent /\ calls[i].option # "yes"
          /\ (\A j \in DOMAIN calls[i].requests : KeyIsOwn(calls[i].requests[j])) =>
            \A j \in DOMAIN calls[i].requests :
                LET r == calls[i].requests[j]
                IN  r.op \in {"get", "find", "findAll"} \/ r.idempotent = "yes" \/ Repeatable(r)

\* The item returned has the columns of its own row, each under its property, and not
\* those of an earlier answer to the same query; [applied] is never one of them.
ResultsAdapted ==
    \A i \in DOMAIN calls :
        calls[i].pc = "done" =>
            LET row == ToSet(calls[i].item.row) \ {Applied}
            IN  calls[i].item.first = {<<getPropertyName(c), c>> : c \in row}
=============================================================================
