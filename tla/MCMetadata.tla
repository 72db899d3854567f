----------------------------- MODULE MCMetadata -----------------------------
(***************************************************************************)
(* The cluster metadata as a whole: the debouncing of schema events, the   *)
(* token ring, the cached schema, the parsing of tables and the prepared   *)
(* statements.  They share no state but the objects of the keyspaces, so   *)
(* every behaviour is of one of them.                                      *)
(***************************************************************************)
EXTENDS EventDebouncer, TokenRing, SchemaCache, TableParser, PreparedQueries

VARIABLE part      \* which one a behaviour is of

metadataVars == <<vars, ringVars, schemaVars, parserVars, preparedVars, part>>

\* The parts a behaviour is not of stay where one of their behaviours starts.
IdleRing == RingInit /\ strategy = CHOOSE s \in Strategies : TRUE
IdleSchema ==
    LET s == CHOOSE s \in Settings : TRUE
    IN  SchemaInit /\ objectKind = s.kind /\ syncEnabled = s.sync /\ isVirtual = s.virtual
IdleParser == ParserInit /\ tableRows = CHOOSE t \in Tables : TRUE

MetadataInit ==
    /\ Init /\ PreparedInit
    /\ \/ part = "events" /\ IdleRing /\ IdleSchema /\ IdleParser
       \/ part = "ring" /\ RingInit /\ IdleSchema /\ IdleParser
       \/ part = "schema" /\ IdleRing /\ SchemaInit /\ IdleParser
       \/ part = "table" /\ IdleRing /\ IdleSchema /\ ParserInit
       \/ part = "prepared" /\ IdleRing /\ IdleSchema /\ IdleParser

MetadataNext ==
    /\ UNCHANGED part
    /\ \/ part = "events" /\ Next /\ UNCHANGED <<ringVars, schemaVars, parserVars, preparedVars>>
       \/ part = "ring" /\ RingNext /\ UNCHANGED <<vars, schemaVars, parserVars, preparedVars>>
       \/ part = "schema" /\ SchemaNext /\ UNCHANGED <<vars, ringVars, parserVars, preparedVars>>
       \/ part = "table" /\ ParserNext /\ UNCHANGED <<vars, ringVars, schemaVars, preparedVars>>
       \/ part = "prepared" /\ PreparedNext /\ UNCHANGED <<vars, ringVars, schemaVars, parserVars>>

MetadataSpec == MetadataInit /\ [][MetadataNext]_metadataVars /\ Fairness /\ SchemaFairness

-----------------------------------------------------------------------------
\* Whoever waits for the metadata is answered: for the refresh that an event asks for,
\* and for an object of the schema.
MetadataAnswered == EveryEventAnswered /\ CallsAnswered

-----------------------------------------------------------------------------
(* Events: three, about two keyspaces.  Ring: two racks, two datacenters,  *)
(* both, virtual nodes and one host, on a ring of eight tokens.  Schema:   *)
(* two calls, one refresh and two versions, for each kind of object.       *)
(* Tables: up to six columns, whose types complete in every order.         *)

Host(dc, rack, tokens) == [dc |-> dc, rack |-> rack, tokens |-> tokens]
FourHosts == {"a", "b", "c", "d"}
Placements ==
    {f \in [FourHosts -> {0, 2, 3, 6}] : f["a"] < f["b"] /\ \A x, y \in FourHosts : f[x] = f[y] => x = y}
OneDc(f) == [h \in FourHosts |-> Host("dc1", IF h \in {"a", "b"} THEN "r1" ELSE "r2", {f[h]})]
TwoDcs(f) == [h \in FourHosts |-> Host(IF h \in {"a", "b"} THEN "dc1" ELSE "dc2", "r1", {f[h]})]
VirtualNodes == [h \in {"a", "b"} |-> Host("dc1", NoRack, IF h = "a" THEN {1, 2, 5} ELSE {4, 7})]
\* Two layouts where hosts are skipped: next to a second datacenter, and with virtual nodes.
Skipping(tokens) ==
    [h \in FourHosts \union {"e"} |->
        Host(IF h \in {"a", "b", "c"} THEN "dc1" ELSE "dc2", IF h = "c" THEN "r2" ELSE "r1", {tokens[h]})]
InRing(a, b, c, d, e) == [a |-> a, b |-> b, c |-> c, d |-> d, e |-> e]
SkippingVirtual ==
    [h \in FourHosts |->
        Host("dc1", IF h = "c" THEN "r2" ELSE "r1",
             CASE h = "a" -> {1} [] h = "b" -> {2, 3} [] h = "c" -> {4} [] h = "d" -> {6})]
SingleHost == [h \in {"a"} |-> Host("dc1", "r1", {3})]
MCLayouts ==
    {OneDc(f) : f \in Placements} \union {TwoDcs(f) : f \in Placements}
        \union {VirtualNodes, SingleHost, SkippingVirtual}
        \union {Skipping(InRing(0, 1, 3, 5, 6)), Skipping(InRing(0, 2, 5, 1, 6)), Skipping(InRing(5, 0, 4, 2, 7))}

Simple(n) == [kind |-> "simple", rf |-> n, dcs |-> << >>]
Network(dcs) == [kind |-> "network", rf |-> 0, dcs |-> dcs]
MCStrategies ==
    {Simple(1), Simple(3), [kind |-> "local", rf |-> 0, dcs |-> << >>],
     Network("dc1" :> 2), Network("dc1" :> 4), Network("dc1" :> 2 @@ "dc2" :> 2), Network("dc1" :> 2 @@ "dc2" :> 1 @@ "dc3" :> 1)}

Setting(kind, sync, virtual) == [kind |-> kind, sync |-> sync, virtual |-> virtual]
MCSettings ==
    {Setting("table", TRUE, FALSE), Setting("table", TRUE, TRUE), Setting("table", FALSE, TRUE),
     Setting("view", TRUE, FALSE), Setting("udt", TRUE, FALSE), Setting("functions", FALSE, FALSE)}

Row(name, kind, position) ==
    [name |-> name, kind |-> kind, position |-> position, reversed |-> FALSE, empty |-> FALSE,
     index |-> "none", frozen |-> FALSE]
Reversed(row) == [row EXCEPT !.reversed = TRUE]
Indexed(row, index, frozen) == [row EXCEPT !.index = index, !.frozen = frozen]
Comparator(types) == [types |-> types, composite |-> TRUE, collections |-> FALSE]
Table(rows, flags) ==
    [v1 |-> FALSE, rows |-> rows, indexes |-> << >>, flags |-> flags, virtual |-> FALSE, view |-> FALSE,
     keyAliases |-> << >>, columnAliases |-> << >>, valueAlias |-> << >>, comparator |-> Comparator(<< >>)]
OldTable(rows) == [Table(rows, {}) EXCEPT !.v1 = TRUE]
Keys == <<Row("a", "clustering", 1), Reversed(Row("b", "clustering", 0)), Row("c", "partition_key", 1),
          Row("d", "partition_key", 0)>>
MCTables ==
    {[Table(Append(Keys, Row("e", "static", 0)), {"compound"}) EXCEPT !.indexes = <<<<"e">>>>],
     [Table(Keys, {}) EXCEPT !.virtual = TRUE],
     [Table(Keys, {}) EXCEPT !.view = TRUE],
     Table(<<Row("column1", "clustering", 0), Row("k", "partition_key", 0), Row("s", "static", 0),
             Row("value", "regular", 0)>>, {}),
     Table(<<Row("a", "clustering", 0), Row("k", "partition_key", 0),
             [Row("value", "regular", 0) EXCEPT !.empty = TRUE]>>, {"dense"}),
     [OldTable(<<Reversed(Row("a", "clustering_key", 1)), Row("b", "clustering_key", 0),
                 Row("k", "partition_key", 0), Indexed(Row("m", "regular", 0), "keys", FALSE),
                 Indexed(Row("f", "regular", 0), "values", TRUE), Indexed(Row("v", "static", 0), "values", FALSE)>>)
        EXCEPT !.comparator = Comparator(<<Row("", "", 0), Row("", "", 0), Row("", "", 0)>>)],
     [OldTable(<<Indexed(Row("v", "regular", 0), "keys_and_values", FALSE), Row("a", "regular", 0)>>)
        EXCEPT !.keyAliases = <<"k", "l">>, !.columnAliases = <<"a", "b">>, !.valueAlias = <<"w">>,
               !.comparator = Comparator(<<Row("", "", 0), Reversed(Row("", "", 0))>>)]}
=============================================================================
