----------------------------- MODULE TableParser -----------------------------
(***************************************************************************)
(* Building the metadata of a table or view from its rows (schema-         *)
(* parser.js, schema-index.js).  For Cassandra 3 and above the type of     *)
(* every column is resolved on its own, with queries for user types, so    *)
(* the columns complete in any order.  For older versions the parsing is   *)
(* synchronous and the keys may be in the row of the table.                *)
(***************************************************************************)
EXTENDS Naturals, Sequences, FiniteSets, SequencesExt, TLC

CONSTANT
    Tables     \* what is read of a table: [v1, rows, indexes, flags, virtual, view,
               \* keyAliases, columnAliases, valueAlias, comparator]

VARIABLES
    tableRows,   \* the table that is parsed
    resolved,    \* the columns whose type is resolved, in the order in which they were
    tableInfo    \* the TableMetadata or MaterializedView

parserVars == <<tableRows, resolved, tableInfo>>

Column(name, static) == [name |-> name, static |-> static]
NotParsed == [loaded |-> FALSE]

ParserInit == tableRows \in Tables /\ resolved = << >> /\ tableInfo = NotParsed

Names(columns) == [k \in DOMAIN columns |-> columns[k].name]

ColumnOf(row) == Column(row.name, row.kind = "static")

\* Faulty: the keys stay in the order in which their types were resolved.
KeysOf_Unsorted(rows, kind) == SelectSeq(rows, LAMBDA r : r.kind = kind)

KeysOf(rows, kind) ==
    SortSeq(SelectSeq(rows, LAMBDA r : r.kind = kind), LAMBDA r, s : r.position < s.position)

Orders(keys) == [k \in DOMAIN keys |-> IF keys[k].reversed THEN "DESC" ELSE "ASC"]

\* Index.fromColumnRows: what an index of a column is on.
Target(row) ==
    CASE row.index = "keys" -> <<"keys", row.name>>
      [] row.index = "keys_and_values" -> <<"entries", row.name>>
      [] row.index = "values" /\ row.frozen -> <<"full", row.name>>
      [] OTHER -> <<row.name>>

fromColumnRows(rows) ==
    LET indexed == SelectSeq(rows, LAMBDA r : r.index # "none")
    IN  [k \in DOMAIN indexed |-> Target(indexed[k])]

-----------------------------------------------------------------------------
\* Columns that Cassandra made up for tables of Thrift.
WithoutStatic(columns) == [k \in DOMAIN columns |-> [columns[k] EXCEPT !.static = FALSE]]

pruneStaticCompactTableColumns(info) ==
    LET isKey(c) == \E k \in DOMAIN info.partitionKeys : info.partitionKeys[k] = c.name
        isClustering(c) == \E k \in DOMAIN info.clusteringKeys : info.clusteringKeys[k] = c.name
        kept == SelectSeq(info.columns, LAMBDA c : ~isClustering(c) /\ (c.static \/ isKey(c)))
    IN  [info EXCEPT !.columns = WithoutStatic(kept), !.byName = ToSet(Names(kept)),
                     !.clusteringKeys = << >>, !.clusteringOrder = << >>]

pruneDenseTableColumns(info, surrogates) ==
    LET kept == SelectSeq(info.columns, LAMBDA c : c.static \/ c.name \notin surrogates)
    IN  [info EXCEPT !.columns = WithoutStatic(kept), !.byName = ToSet(Names(kept))]

\* SchemaParserV2._parseTableOrView, once all types are resolved.
ParsedV2(t, order) ==
    LET completed == [k \in DOMAIN order |-> t.rows[order[k]]]
        partition == KeysOf(completed, "partition_key")
        clustering == KeysOf(completed, "clustering")
        columns == [k \in DOMAIN t.rows |-> ColumnOf(t.rows[k])]
        info == [loaded |-> TRUE, columns |-> columns, byName |-> ToSet(Names(columns)),
                 partitionKeys |-> Names(partition), clusteringKeys |-> Names(clustering),
                 clusteringOrder |-> Orders(clustering), indexes |-> << >>, isCompact |-> FALSE]
        compact == {"super", "dense"} \intersect t.flags # {} \/ "compound" \notin t.flags
        whole == [info EXCEPT !.indexes = t.indexes, !.isCompact = compact]
    IN  CASE t.virtual \/ t.view -> info
          [] ~(t.virtual \/ t.view) /\ t.flags \intersect {"super", "dense", "compound"} = {} ->
                pruneStaticCompactTableColumns(whole)
          [] ~(t.virtual \/ t.view) /\ "dense" \in t.flags ->
                pruneDenseTableColumns(whole, {r.name : r \in {x \in ToSet(t.rows) : x.empty}})
          [] OTHER -> whole

-----------------------------------------------------------------------------
\* SchemaParserV1._parseTableOrView: keys that are not among the rows of the columns come
\* from the row of the table, which gives new columns to the names it does not know.
MissingFrom(rows, names) ==
    SelectSeq(names, LAMBDA n : \A k \in DOMAIN rows : rows[k].name # n)

\* The types of the clustering columns that the row of the table names.
AliasTypes(t) ==
    [k \in DOMAIN t.columnAliases |->
        IF MissingFrom(t.rows, <<t.columnAliases[k]>>) # << >> THEN t.comparator.types[k]
        ELSE CHOOSE r \in ToSet(t.rows) : r.name = t.columnAliases[k]]

NewColumns(names) == [k \in DOMAIN names |-> Column(names[k], FALSE)]

ParsedV1(t) ==
    LET partition == KeysOf(t.rows, "partition_key")
        clustering == IF partition = << >> THEN << >> ELSE KeysOf(t.rows, "clustering_key")
        inTableRow == partition = << >>
        keyNames == IF inTableRow THEN t.keyAliases ELSE Names(partition)
        clusteringNames == IF inTableRow THEN t.columnAliases ELSE Names(clustering)
        aliases == IF inTableRow THEN MissingFrom(t.rows, t.keyAliases \o t.columnAliases) ELSE << >>
        compact == \/ "dense" \in t.flags
                   \/ ~t.comparator.composite
                   \/ ~t.comparator.collections /\ Len(clusteringNames) # Len(t.comparator.types) - 1
        value == IF compact THEN MissingFrom(t.rows, t.valueAlias) ELSE << >>
        own == [k \in DOMAIN t.rows |-> ColumnOf(t.rows[k])]
    IN  [loaded |-> TRUE,
         columns |-> own \o NewColumns(aliases) \o NewColumns(value),
         byName |-> ToSet(Names(own)) \union ToSet(value),
         partitionKeys |-> keyNames, clusteringKeys |-> clusteringNames,
         clusteringOrder |-> IF inTableRow THEN Orders(AliasTypes(t)) ELSE Orders(clustering),
         indexes |-> fromColumnRows(t.rows),
         isCompact |-> compact]

-----------------------------------------------------------------------------
\* A column's type is known, after the queries for its user types.
TypeResolved(k) ==
    /\ ~tableInfo.loaded /\ ~tableRows.v1
    /\ k \notin ToSet(resolved)
    /\ resolved' = Append(resolved, k)
    /\ UNCHANGED <<tableRows, tableInfo>>

\* One type that cannot be resolved fails the whole table, of which nothing is kept.
TypeFails ==
    /\ ~tableInfo.loaded /\ ~tableRows.v1
    /\ Len(resolved) \in 1..(Len(tableRows.rows) - 1)
    /\ resolved' = << >>
    /\ UNCHANGED <<tableRows, tableInfo>>

ParseTable ==
    /\ ~tableInfo.loaded
    /\ tableRows.v1 \/ Len(resolved) = Len(tableRows.rows)
    /\ tableInfo' = IF tableRows.v1 THEN ParsedV1(tableRows) ELSE ParsedV2(tableRows, resolved)
    /\ UNCHANGED <<tableRows, resolved>>

ParserNext ==
    \/ \E k \in DOMAIN tableRows.rows : TypeResolved(k)
    \/ TypeFails
    \/ ParseTable

-----------------------------------------------------------------------------
\* keys are the names of the rows of a kind, by their positions.
InPosition(keys, kind) ==
    LET row(n) == CHOOSE r \in ToSet(tableRows.rows) : r.name = n
    IN  /\ ToSet(keys) = {r.name : r \in {x \in ToSet(tableRows.rows) : x.kind = kind}}
        /\ \A i, j \in DOMAIN keys : i < j => row(keys[i]).position < row(keys[j]).position

\* However the types of the columns complete, the metadata of a table has its partition
\* and clustering keys in the order of their positions, or as the row of the table lists
\* them, each with its own ordering; its keys are among its columns; and a compact table
\* shows neither the columns that Cassandra made up for it nor static ones. Its columns are
\* found by name in columnsByName, with one exception: of a table of Cassandra 1.2 the code
\* puts the key columns that only the row of the table names into columns, but never into
\* columnsByName. It is these that columnsByName lacks, and no others.
TableParsed ==
    tableInfo.loaded =>
        LET t == tableRows
            names == Names(tableInfo.columns)
            keysInRows == \E k \in DOMAIN t.rows : t.rows[k].kind = "partition_key"
            clusteringKind == IF t.v1 THEN "clustering_key" ELSE "clustering"
            onlyInTableRow == IF keysInRows THEN {}
                              ELSE ToSet(t.keyAliases \o t.columnAliases) \ {r.name : r \in ToSet(t.rows)}
            thrift == ~t.v1 /\ ~t.virtual /\ ~t.view /\ t.flags \intersect {"super", "dense", "compound"} = {}
        IN  /\ \A i, j \in DOMAIN names : names[i] = names[j] => i = j
            /\ ToSet(tableInfo.partitionKeys \o tableInfo.clusteringKeys) \subseteq ToSet(names)
            /\ Len(tableInfo.clusteringOrder) = Len(tableInfo.clusteringKeys)
            /\ tableInfo.byName = ToSet(names) \ onlyInTableRow
            /\ ~keysInRows =>
                /\ tableInfo.partitionKeys = t.keyAliases
                /\ tableInfo.clusteringKeys = t.columnAliases
            /\ keysInRows =>
                /\ InPosition(tableInfo.partitionKeys, "partition_key")
                /\ IF thrift THEN tableInfo.clusteringKeys = << >> ELSE InPosition(tableInfo.clusteringKeys, clusteringKind)
                /\ \A k \in DOMAIN tableInfo.clusteringKeys : \E r \in ToSet(t.rows) :
                        /\ r.name = tableInfo.clusteringKeys[k]
                        /\ tableInfo.clusteringOrder[k] = IF r.reversed THEN "DESC" ELSE "ASC"
            /\ thrift => \A c \in ToSet(tableInfo.columns) : ~c.static
            /\ "dense" \in t.flags /\ ~t.v1 => \A r \in ToSet(t.rows) : r.empty => r.name \notin ToSet(names)
=============================================================================
