----------------------------- MODULE TypeNames -----------------------------
(***************************************************************************)
(* How the Encoder reads type names (lib/encoder.js): the class names of   *)
(* the server, ListType(Int32Type), and the CQL names, list<int>.  A name  *)
(* is a sequence of tokens (class or type names, brackets, commas, colons  *)
(* and dimensions); an offset into it and a length in it count tokens, as  *)
(* the code counts characters.                                             *)
(*                                                                         *)
(* A column type is a record of its code, its info and whether it is       *)
(* frozen and reversed.                                                    *)
(***************************************************************************)
EXTENDS Integers, Sequences

LOCAL INSTANCE SequencesExt

CONSTANTS
    ColumnTypes,    \* the types whose names are read
    SimpleNames,    \* names of the types without parameters
    Udts,           \* names of UDTs, each with its field types: name -> sequence
    Prefixed        \* names that begin with that of a collection, a vector or frozen

VARIABLES
    column,         \* the type whose name is read
    fromClass,      \* what parseFqTypeName makes of its class name
    fromCql         \* what parseTypeName makes of its CQL name

nameVars == <<column, fromClass, fromCql>>

NoType == [code |-> "none", info |-> <<>>, frozen |-> FALSE, reversed |-> FALSE]
Invalid == [NoType EXCEPT !.code = "TypeError"]

TypeOf(code, info, frozen, reversed) ==
    IF \E i \in DOMAIN info : info[i] = Invalid THEN Invalid
    ELSE [code |-> code, info |-> info, frozen |-> frozen, reversed |-> reversed]

\* A dimension, in the place of a type.
Dimension(n) == [NoType EXCEPT !.code = n]

-----------------------------------------------------------------------------
(* Parsing *)

\* Faulty: every comma separates.
parseParams_Variant(name, start, length, open, close) ==
    LET commas == SelectSeq([i \in 1 .. length |-> start + i], LAMBDA i : name[i] = ",")
        cuts   == <<start>> \o commas \o <<start + length + 1>>
    IN  [k \in 1 .. Len(cuts) - 1 |-> SubSeq(name, cuts[k] + 1, cuts[k + 1] - 1)]

\* The parts between the commas outside of every pair of brackets.
parseParams(name, start, length, open, close) ==
    LET Count(token, i) == Len(SelectSeq(SubSeq(name, start + 1, i), LAMBDA x : x = token))
        Comma(i) == name[i] = "," /\ Count(open, i) = Count(close, i)
        commas == SelectSeq([i \in 1 .. length |-> start + i], Comma)
        cuts   == <<start>> \o commas \o <<start + length + 1>>
    IN  [k \in 1 .. Len(cuts) - 1 |->
            SubSeq(name, cuts[k] + 1, cuts[k + 1] - 1)]

RECURSIVE parseFqTypeName(_, _, _)
RECURSIVE parseTypeName(_, _)

\* The element type and the dimension of a vector, wherever in `name` the
\* vector starts: the arguments are taken from the start of the whole name,
\* and parentheses are the only brackets. The element is read by the caller's
\* own parser (of class names when fq).
parseVectorTypeArgs(name, fq, frozen, reversed) ==
    LET params == parseParams(name, 2, Len(name) - 3, "(", ")")
        Resolve(p) == IF fq THEN parseFqTypeName(p, 0, Len(p)) ELSE parseTypeName(p, FALSE)
    IN  IF Len(params) # 2 THEN Invalid
        ELSE TypeOf("vector", <<Resolve(params[1]), Dimension(params[2][1])>>,
                    frozen, reversed)

\* A UDT: keyspace, name, then one `field:type` for each field.  The type of a
\* field is read in place, at an offset.
parseUdtName(name, start, length, frozen, reversed) ==
    LET params == parseParams(name, start, length, "(", ")")
        fields == SubSeq(params, 3, Len(params))
    IN  IF Len(params) < 2 THEN Invalid
        ELSE TypeOf("udt",
                    <<Dimension(params[2][1])>> \o
                    [i \in DOMAIN fields |-> parseFqTypeName(fields[i], 2, Len(fields[i]) - 2)],
                    frozen, reversed)

Arity == [list |-> 1 .. 1, set |-> 1 .. 1, map |-> 2 .. 2, tuple |-> 1 .. 8]

\* The type that starts at `start`, past its ReversedType and FrozenType.
parseFqBody(name, start, length, frozen, reversed) ==
    LET head   == name[start + 1]
        params == parseParams(name, start + 2, length - 3, "(", ")")
    IN  CASE name = <<"empty">> -> TypeOf("custom", <<>>, frozen, reversed)
          [] length = 1 /\ head \in SimpleNames \union {"duration"} ->
                 TypeOf(head, <<>>, frozen, reversed)
          [] length = 1 /\ head \notin SimpleNames \union {"duration", "empty"} -> Invalid
          [] length > 1 /\ head \in DOMAIN Arity ->
                 IF Len(params) \notin Arity[head] THEN Invalid
                 ELSE TypeOf(head, [i \in DOMAIN params |->
                                 parseFqTypeName(params[i], 0, Len(params[i]))],
                             frozen, reversed)
          [] length > 1 /\ head = "udt" ->
                 parseUdtName(name, start + 2, length - 3, frozen, reversed)
          [] length > 1 /\ head = "vector" ->
                 parseVectorTypeArgs(name, TRUE, frozen, reversed)
          [] OTHER -> TypeOf("custom", <<>>, frozen, reversed)

parseFqTypeName(name, start, length) ==
    LET reversed == length > 1 /\ name[start + 1] = "reversed"
        r        == IF reversed THEN 2 ELSE 0
        frozen   == length > r + 1 /\ name[start + r + 1] = "frozen"
        skip     == r + (IF frozen THEN 2 ELSE 0)
    IN  parseFqBody(name, start + skip, length - (skip \div 2) * 3, frozen, reversed)

\* A CQL name.  frozen is kept for collections, tuples and UDTs; a duration is
\* a custom type; any other name is looked up as a UDT, for which the element
\* of a vector has no resolver.  The names of collections are only looked for at
\* the start of the name: a UDT called mapping is taken for a map, without its
\* brackets, and what remains between them is no type.
parseTypeName(name, resolver) ==
    LET frozen == name[1] = "frozen"
        start  == IF frozen THEN 2 ELSE 0
        length == Len(name) - (IF frozen THEN 3 ELSE 0)
        head   == name[start + 1]
        params == parseParams(name, start + 2, length - 3, "<", ">")
    IN  CASE name[1] = "'" -> TypeOf("custom", <<>>, FALSE, FALSE)
          [] head \in Prefixed -> Invalid
          [] head \in DOMAIN Arity ->
                 IF Len(params) \notin Arity[head] THEN Invalid
                 ELSE TypeOf(head, [i \in DOMAIN params |-> parseTypeName(params[i], resolver)],
                             frozen, FALSE)
          [] head = "vector" ->
                 parseVectorTypeArgs(name, FALSE, FALSE, FALSE)
          [] head \in SimpleNames -> TypeOf(head, <<>>, FALSE, FALSE)
          [] head \in {"duration", "empty"} -> TypeOf("custom", <<>>, FALSE, FALSE)
          [] head \in DOMAIN Udts \ Prefixed ->
                 IF resolver
                 THEN TypeOf("udt", <<Dimension(head)>> \o Udts[head], frozen, FALSE)
                 ELSE Invalid
          [] OTHER -> Invalid

-----------------------------------------------------------------------------
(* The names the server gives to a type. *)

Join(parts) == FoldLeft(LAMBDA a, b : a \o <<",">> \o b, parts[1], Tail(parts))

RECURSIVE ClassName(_)
ClassName(t) ==
    LET subs(i) == [k \in 1 .. Len(t.info) - i |-> ClassName(t.info[k + i])]
        body == CASE t.info = <<>> -> <<t.code>>
                  [] t.code \in DOMAIN Arity -> <<t.code, "(">> \o Join(subs(0)) \o <<")">>
                  [] t.code = "vector" ->
                         <<"vector", "(">> \o ClassName(t.info[1])
                           \o <<",", t.info[2].code, ")">>
                  [] t.code = "udt" ->
                         <<"udt", "(", "ks", ",", t.info[1].code>>
                           \o FlattenSeq([k \in 1 .. Len(t.info) - 1 |->
                                  <<",", "field", ":">> \o subs(1)[k]])
                           \o <<")">>
        wrap(b, name, name_) == IF b THEN <<name, "(">> \o name_ \o <<")">> ELSE name_
    IN  wrap(t.reversed, "reversed", wrap(t.frozen, "frozen", body))

RECURSIVE CqlName(_)
CqlName(t) ==
    LET subs == [k \in DOMAIN t.info |-> CqlName(t.info[k])]
        body == CASE t.info = <<>> -> <<t.code>>
                  [] t.code = "udt" -> <<t.info[1].code>>
                  [] t.code \notin {"udt"} /\ t.info # <<>> ->
                         <<t.code, "<">> \o Join(subs) \o <<">">>
    IN  IF t.frozen THEN <<"frozen", "<">> \o body \o <<">">> ELSE body

-----------------------------------------------------------------------------
(* The machine *)

NamesStart ==
    /\ column = NoType
    /\ fromClass = NoType
    /\ fromCql = NoType

ReadClassName ==
    /\ column = NoType
    /\ column' \in ColumnTypes
    /\ LET name == ClassName(column')
       IN  fromClass' = parseFqTypeName(name, 0, Len(name))
    /\ UNCHANGED fromCql

ReadCqlName ==
    /\ column # NoType /\ fromCql = NoType
    /\ fromCql' = parseTypeName(CqlName(column), TRUE)
    /\ UNCHANGED <<column, fromClass>>

NamesNext == ReadClassName \/ ReadCqlName

-----------------------------------------------------------------------------
(* Properties *)

\* The vectors of t whose class name is read from its start: not behind a
\* FrozenType or a ReversedType, and not as the field of a UDT.
RECURSIVE VectorsInPlace(_)
VectorsInPlace(t) ==
    /\ t.code = "vector" => ~t.frozen /\ ~t.reversed
    /\ t.code = "udt" => \A i \in DOMAIN t.info : t.info[i].code # "vector"
    /\ \A i \in DOMAIN t.info : VectorsInPlace(t.info[i])

\* Types of whose CQL names every vector has one comma, and no UDT for element, and no
\* UDT has a name that begins with a keyword.
RECURSIVE PlainlyNamed(_)
PlainlyNamed(t) ==
    /\ t.code = "udt" => t.info[1].code \notin Prefixed
    /\ t.code = "vector" => /\ ~t.frozen
                            /\ t.info[1].code # "udt"
                            /\ ~Contains(CqlName(t.info[1]), ",")
    /\ t.code # "udt" => \A i \in DOMAIN t.info : PlainlyNamed(t.info[i])

\* What a CQL name can say of t.
RECURSIVE CqlForm(_)
CqlForm(t) ==
    CASE t.code = "duration" -> TypeOf("custom", <<>>, FALSE, FALSE)
      [] t.code = "udt"      -> [t EXCEPT !.reversed = FALSE]
      [] OTHER -> TypeOf(t.code, [i \in DOMAIN t.info |-> CqlForm(t.info[i])],
                         t.frozen /\ t.info # <<>>, FALSE)

\* parseFqTypeName and parseTypeName give back the type whose name the server
\* sent, nested as it may be: every cursor moves past exactly the name and the
\* brackets.  The exceptions are vectors that are not read from the start of a
\* name, CQL names of vectors of types with several parameters or of UDTs, and
\* CQL names of UDTs that begin with a keyword (mapping, settings, listing).
TypeNamesRead ==
    /\ fromClass # NoType /\ VectorsInPlace(column) => fromClass = column
    /\ fromCql # NoType /\ PlainlyNamed(column) => fromCql = CqlForm(column)
=============================================================================
