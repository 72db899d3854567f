------------------------------ MODULE MCMapping ------------------------------
(* A model over four tables and a view, with one column under a name of its   *)
(* own and with a mapping function, a static column, calls of every operation *)
(* and two updates whose keys run together.                                   *)
EXTENDS Mapping

Column(type) == [type |-> type, static |-> FALSE]
Text == Column("text")

MCTables == <<
    [name |-> "users", isView |-> FALSE, partitionKeys |-> <<"id">>, clusteringKeys |-> << >>,
     columns |-> ("id" :> Text @@ "name" :> Text @@ "tags" :> Column("list"))],
    [name |-> "by_city", isView |-> FALSE, partitionKeys |-> <<"city">>, clusteringKeys |-> <<"id">>,
     columns |-> ("city" :> Text @@ "id" :> Text @@ "name" :> Text)],
    [name |-> "by_name", isView |-> TRUE, partitionKeys |-> <<"name">>, clusteringKeys |-> <<"id">>,
     columns |-> ("id" :> Text @@ "name" :> Text)],
    [name |-> "visits", isView |-> FALSE, partitionKeys |-> <<"id">>, clusteringKeys |-> <<"day">>,
     columns |-> ("id" :> Text @@ "day" :> Text @@ "hits" :> Column("counter"))],
    [name |-> "seats", isView |-> FALSE, partitionKeys |-> <<"room">>, clusteringKeys |-> <<"seat">>,
     columns |-> ("room" :> Text @@ "seat" :> Text @@ "floor" :> [type |-> "text", static |-> TRUE])]>>

MCProperties == "name" :> [name |-> "userName", fromModel |-> TRUE]

MCQueries == "lwt" :> {<<Applied>>, <<Applied, "id", "name">>} @@ "rows" :> {<<"id", "name">>}

Request(op, doc) ==
    [op |-> op, doc |-> doc, fields |-> << >>, limit |-> FALSE, orderBy |-> << >>, ttl |-> FALSE,
     exists |-> FALSE, when |-> << >>, only |-> FALSE, idempotent |-> "unset"]

Id == <<"id", Plain>>
City == <<"city", Plain>>
Name == <<"userName", Plain>>
Tags == <<"tags", Plain>>
More == <<"tags", Assignment("+", FALSE)>>
Hits == <<"hits", Assignment("+", FALSE)>>
Room == <<"room", Plain>>
Seat == <<"seat", Plain>>
Floor == <<"floor", Plain>>
Span == And(Operator(">="), Operator("<"))

MCRequests == {
    Request("get", <<Id>>),
    Request("get", <<City>>),
    [Request("find", <<City, Id>>) EXCEPT !.limit = TRUE],
    [Request("find", <<City, <<"id", Span>>>>) EXCEPT !.limit = TRUE],
    [Request("find", <<Name, <<"id", Operator("IN")>>>>) EXCEPT !.orderBy = <<<<"id", "DESC">>>>],
    [Request("find", <<Name>>) EXCEPT !.orderBy = <<<<"id", "down">>>>],
    [Request("findAll", << >>) EXCEPT !.fields = <<"id", "userName">>, !.limit = TRUE],
    [Request("findAll", << >>) EXCEPT !.orderBy = <<<<"id", "down">>>>],
    Request("insert", << >>),
    [Request("insert", <<Id, Name>>) EXCEPT !.ttl = TRUE],
    Request("insert", <<Id, City, Name>>),
    [Request("insert", <<Id, Tags>>) EXCEPT !.exists = TRUE],
    [Request("update", <<Id, More, Name>>) EXCEPT !.ttl = TRUE],
    [Request("update", <<Id, More>>) EXCEPT !.idempotent = "yes"],
    [Request("update", <<Id, Name>>) EXCEPT !.when = <<<<"tags", Operator("!=")>>>>],
    [Request("update", <<Id, Name>>) EXCEPT !.when = <<Tags>>],
    Request("update", <<Id, Name, Tags>>),
    Request("update", <<Hits, Id, <<"day", Plain>>>>),
    Request("update", <<Room, Floor>>),
    Request("update", <<Room, Seat>>),
    Request("insert", <<Room, Floor>>),
    [Request("remove", <<Id>>) EXCEPT !.exists = TRUE, !.when = <<Tags>>],
    [Request("remove", <<Id>>) EXCEPT !.when = <<Tags>>],
    [Request("remove", <<Id, Tags>>) EXCEPT !.only = TRUE],
    Request("remove", <<Id, City>>)}

Of(items) == [items |-> items, isIdempotent |-> "unset"]
Counting == <<Request("batch.update", <<Hits, Id, <<"day", Plain>>>>), Request("batch.insert", <<Id, Name>>)>>

MCBatches == {
    Of(<< >>),
    Of(<<Request("batch.insert", <<Id, Name>>), Request("batch.update", <<Id, Name>>)>>),
    Of(Counting),
    [Of(Counting) EXCEPT !.isIdempotent = "yes"],
    Of(<<Request("batch.remove", <<Id, City>>)>>),
    Of(<<Request("batch.remove", <<Id>>),
         [Request("batch.update", <<Id, Tags>>) EXCEPT !.exists = TRUE, !.when = <<Name>>]>>)}

\* Keys over two symbols, up to three long.
MCTreeKeys == UNION {[1..n -> {"a", "b"}] : n \in 1..3}

\* An update and a removal of documents of the same shape.
SameShape == {Of(<<Request(op, <<Id, Name>>)>>) : op \in {"batch.update", "batch.remove"}}
None == {}
=============================================================================
