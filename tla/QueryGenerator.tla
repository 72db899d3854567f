---------------------------- MODULE QueryGenerator ----------------------------
(***************************************************************************)
(* From a call on a ModelMapper to its CQL (lib/mapping): the properties   *)
(* of the document are named as columns, the tables that fit are selected, *)
(* and for each the statement and the function that gets its parameters    *)
(* are generated.                                                          *)
(*                                                                         *)
(* A value of a document is abstracted to its shape: plain, an operator of *)
(* q (with two children for "AND"), or an assignment.  A statement is the  *)
(* list of its clauses; its markers are its question marks in the order of *)
(* the text, its params where the generated function finds their values.   *)
(***************************************************************************)
EXTENDS Naturals, Sequences, FiniteSets, SequencesExt

CONSTANTS
    Tables,       \* the tables and views of the model, in order
    Properties    \* columns with a mapping of their own: column -> property, functions

-----------------------------------------------------------------------------
\* Shapes of values.
Plain == [form |-> "plain"]
Operator(key) == [form |-> "operator", key |-> key]
And(left, right) == [form |-> "and", left |-> left, right |-> right]
Assignment(sign, inverted) == [form |-> "assignment", sign |-> sign, inverted |-> inverted]

Keys(doc) == [i \in DOMAIN doc |-> doc[i][1]]

\* The shape of a property of a document; undefined is as good as plain.
ShapeIn(doc, prop) ==
    IF prop \in ToSet(Keys(doc))
    THEN LET i == CHOOSE j \in DOMAIN doc : doc[j][1] = prop IN doc[i][2]
    ELSE Plain

getColumnName(prop) ==
    IF \E c \in DOMAIN Properties : Properties[c].name = prop
    THEN CHOOSE c \in DOMAIN Properties : Properties[c].name = prop
    ELSE prop

getPropertyName(column) ==
    IF column \in DOMAIN Properties THEN Properties[column].name ELSE column

getFromModelFn(prop) ==
    \E c \in DOMAIN Properties : Properties[c].name = prop /\ Properties[c].fromModel

getPropertiesInfo(keys, fields, doc) ==
    LET names == IF fields # << >> THEN fields ELSE keys
    IN  [i \in DOMAIN names |->
            [prop |-> names[i], column |-> getColumnName(names[i]),
             shape |-> ShapeIn(doc, names[i]), mapped |-> getFromModelFn(names[i])]]

ColumnsOf(props) == [i \in DOMAIN props |-> props[i].column]

\* Any other direction makes adaptOrderBy throw.
OrderIsValid(orderBy) == \A i \in DOMAIN orderBy : orderBy[i][2] \in {"ASC", "DESC"}

adaptOrderBy(orderBy) == [i \in DOMAIN orderBy |-> <<getColumnName(orderBy[i][1]), orderBy[i][2]>>]

-----------------------------------------------------------------------------
\* Which tables a statement is for (object-selector.js).
Count(s, T) == Len(SelectSeq(s, LAMBDA x : x \in T))

keysAreIncluded(keys, props) ==
    LET matches == Count(ColumnsOf(props), ToSet(keys))
    IN  CASE keys = << >> -> "all"
          [] keys # << >> /\ matches = 0 -> "none"
          [] OTHER -> IF matches = Len(keys) THEN "all" ELSE "some"

staticColumnCount(table) == Cardinality({c \in DOMAIN table.columns : table.columns[c].static})

PrimaryKeys(table) == ToSet(table.partitionKeys) \union ToSet(table.clusteringKeys)

FitsSelect(table, allPKsDefined, props, fields, order) ==
    /\ keysAreIncluded(table.partitionKeys, props) = "all"
    /\ allPKsDefined => keysAreIncluded(table.clusteringKeys, props) = "all"
    /\ Len(props) > Len(table.partitionKeys) => ToSet(ColumnsOf(props)) \subseteq PrimaryKeys(table)
    /\ ToSet(ColumnsOf(fields)) \subseteq DOMAIN table.columns
    /\ \A i \in DOMAIN order :
            i <= Len(table.clusteringKeys) /\ table.clusteringKeys[i] = order[i][1]

FitsInsert(table, props) ==
    /\ keysAreIncluded(table.partitionKeys, props) = "all"
    /\ LET clustering == keysAreIncluded(table.clusteringKeys, props)
           static == staticColumnCount(table)
       IN  \/ clustering = "all"
           \/ /\ clustering = "none" /\ static > 0
              /\ Len(props) = Len(table.partitionKeys) + static

FitsUpdate(table, props, when) ==
    LET clustering == keysAreIncluded(table.clusteringKeys, props)
        applicable == Count(ColumnsOf(props), DOMAIN table.columns)
        static == staticColumnCount(table) > 0
    IN  /\ keysAreIncluded(table.partitionKeys, props) = "all"
        /\ clustering = "all" \/ (clustering = "none" /\ static)
        /\ \/ applicable > Len(table.partitionKeys) + Len(table.clusteringKeys)
           \/ static /\ applicable > Len(table.partitionKeys)
        /\ ToSet(ColumnsOf(when)) \subseteq DOMAIN table.columns

FitsDelete(table, props, when) ==
    /\ PrimaryKeys(table) \subseteq ToSet(ColumnsOf(props))
    /\ ToSet(ColumnsOf(when)) \subseteq DOMAIN table.columns

-----------------------------------------------------------------------------
\* Clauses and markers: a marker is a column and the operator before it.
RECURSIVE SingleCondition(_, _)
SingleCondition(column, shape) ==
    CASE shape.form = "and" ->
            SingleCondition(column, shape.left) \o SingleCondition(column, shape.right)
      [] shape.form = "operator" -> <<[column |-> column, op |-> shape.key]>>
      [] OTHER -> <<[column |-> column, op |-> "="]>>

ConditionWithOperators(props) ==
    FlattenSeq([i \in DOMAIN props |-> SingleCondition(props[i].column, props[i].shape)])

Equals(props) == [i \in DOMAIN props |-> [column |-> props[i].column, op |-> "="]]

SetClause(props) ==
    [i \in DOMAIN props |->
        [column |-> props[i].column,
         op |-> CASE props[i].shape.form # "assignment" -> "="
                  [] props[i].shape.form = "assignment" /\ props[i].shape.inverted -> "= ? +"
                  [] OTHER -> props[i].shape.sign]]

Using(flag, what) == IF flag THEN <<[column |-> what, op |-> "USING"]>> ELSE << >>

\* Where parameters come from: an object, a property of it, the path inside, and
\* whether the mapping function of the property, or that of each element, is applied.
Source(from, prop, path, mapped, each) ==
    [from |-> from, prop |-> prop, path |-> path, mapped |-> mapped, each |-> each]

RECURSIVE ValueGetterSingle(_, _, _, _)
ValueGetterSingle(from, p, shape, path) ==
    CASE shape.form = "and" ->
            ValueGetterSingle(from, p, shape.left, path \o <<"value", "0">>)
                \o ValueGetterSingle(from, p, shape.right, path \o <<"value", "1">>)
      [] shape.form = "operator" ->
            <<Source(from, p.prop, Append(path, "value"), p.mapped, p.mapped /\ shape.key = "IN")>>
      [] OTHER -> <<Source(from, p.prop, path, p.mapped, FALSE)>>

ValueGetters(from, props) ==
    FlattenSeq([i \in DOMAIN props |-> ValueGetterSingle(from, props[i], props[i].shape, << >>)])

\* The comma after the assignments is always there: without any it makes a hole.
AssignmentGetters(props) ==
    IF props = << >> THEN <<Source("hole", "none", << >>, FALSE, FALSE)>>
    ELSE [i \in DOMAIN props |->
            Source("doc", props[i].prop,
                   IF props[i].shape.form = "assignment" THEN <<"value">> ELSE << >>,
                   props[i].mapped, FALSE)]

FromInfo(flag, what) == IF flag THEN <<Source("docInfo", what, << >>, FALSE, FALSE)>> ELSE << >>

-----------------------------------------------------------------------------
\* The statements (query-generator.js). "condition" is the IF clause.
Statement(verb, table, columns, condition, order, markers, params, idempotent, counter) ==
    [verb |-> verb, table |-> table, columns |-> columns, condition |-> condition,
     order |-> order, markers |-> markers, params |-> params,
     isIdempotent |-> idempotent, isCounter |-> counter]

InTable(table, props) == SelectSeq(props, LAMBDA p : p.column \in DOMAIN table.columns)
KeyProps(table, props) == SelectSeq(props, LAMBDA p : p.column \in PrimaryKeys(table))
OtherProps(table, props) == SelectSeq(props, LAMBDA p : p.column \notin PrimaryKeys(table))


getSelect(name, props, fields, order, limit) ==
    Statement("SELECT", name, ColumnsOf(fields), "none", order,
              ConditionWithOperators(props) \o Using(limit, "limit"),
              ValueGetters("doc", props) \o FromInfo(limit, "limit"), TRUE, FALSE)

getInsert(table, props, ttl, ifNotExists) ==
    LET mine == InTable(table, props)
    IN  Statement("INSERT", table.name, ColumnsOf(mine),
                  IF ifNotExists THEN "not exists" ELSE "none", << >>,
                  Equals(mine) \o Using(ttl, "ttl"),
                  ValueGetters("doc", mine) \o FromInfo(ttl, "ttl"), ~ifNotExists, FALSE)

\* IF EXISTS is preferred over conditions; both together are refused earlier.
Condition(when, ifExists) ==
    IF ifExists THEN "exists" ELSE IF when # << >> THEN "when" ELSE "none"

WhenMarkers(when, ifExists) == IF ifExists THEN << >> ELSE ConditionWithOperators(when)

\* Faulty: counters are not noticed.
UpdateIsIdempotent_Counter(table, props) ==
    \A i \in DOMAIN props :
        LET type == table.columns[props[i].column].type
        IN  ~(type = "list" /\ props[i].shape.form = "assignment")

UpdateIsIdempotent(table, props) ==
    \A i \in DOMAIN props :
        LET type == table.columns[props[i].column].type
        IN  ~(type = "list" /\ props[i].shape.form = "assignment") /\ type # "counter"

UpdateIsCounter(table, props) ==
    \E i \in DOMAIN props : table.columns[props[i].column].type = "counter"

getUpdate(table, props, ttl, when, ifExists) ==
    LET mine == InTable(table, props)
        key == KeyProps(table, mine)
        set == OtherProps(table, mine)
    IN  Statement("UPDATE", table.name, ColumnsOf(set), Condition(when, ifExists), << >>,
                  Using(ttl, "ttl") \o SetClause(set) \o Equals(key) \o WhenMarkers(when, ifExists),
                  FromInfo(ttl, "ttl") \o AssignmentGetters(set) \o ValueGetters("doc", key)
                      \o ValueGetters("when", when),
                  UpdateIsIdempotent(table, mine) /\ when = << >> /\ ~ifExists,
                  UpdateIsCounter(table, mine))

getDelete(table, props, deleteOnlyColumns, when, ifExists) ==
    LET mine == InTable(table, props)
        key == KeyProps(table, mine)
    IN  Statement("DELETE", table.name,
                  IF deleteOnlyColumns THEN ColumnsOf(OtherProps(table, mine)) ELSE << >>,
                  Condition(when, ifExists), << >>,
                  Equals(key) \o WhenMarkers(when, ifExists),
                  ValueGetters("doc", key) \o ValueGetters("when", when),
                  when = << >> /\ ~ifExists, FALSE)
=============================================================================
