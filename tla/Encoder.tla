------------------------------ MODULE Encoder ------------------------------
(***************************************************************************)
(* The Encoder (lib/encoder.js): how a parameter becomes the bytes of a    *)
(* column, how the bytes of a column become a value, and how the values of *)
(* the partition key become a routing key.                                 *)
(*                                                                         *)
(* A value is a tuple whose first element is its kind:                     *)
(*   <<"null">>  <<"undefined">>  <<"unset">>                              *)
(*   <<"num", n>>  <<"bool", b>>  <<"str", bytes>>  <<"raw", bytes>>       *)
(*   <<"decimal", <<unscaled, scale>>>>  <<"duration", <<mo, d, ns>>>>     *)
(*   <<"arr", s>>  <<"tuple", s>>  <<"vector", s>>  <<"map", pairs>>       *)
(*   <<"obj", f>>   (a UDT value: f maps some of the field names)          *)
(* A type is a record with a `code`, and `info` for the types that have    *)
(* one.  What encode returns is <<"buf", bytes>>, null, undefined (its     *)
(* mark for an unset column), or <<"throw">>.                              *)
(***************************************************************************)
EXTENDS IntegerType

LOCAL INSTANCE SequencesExt

CONSTANTS
    Types,          \* column types
    Samples(_),     \* the values an application passes for a type
    Versions,       \* protocol versions
    KeyParts        \* values of a partition key column (bytes)

VARIABLES
    options,    \* this.protocolVersion and this.encodingOptions
    given,      \* the last parameter and its type
    wire,       \* what encode returned for it
    seen,       \* what decode returned for the column
    routed,     \* the last partition key and the routing key made of it
    previous    \* the one before

codecVars == <<options, given, wire, seen, routed, previous>>

Null      == <<"null">>
Undefined == <<"undefined">>
Unset     == <<"unset">>
Throw     == <<"throw">>
Buf(b)    == <<"buf", b>>
IsBuf(e)  == e[1] = "buf"

Absent(v) == v \in {Null, Undefined, Unset}

-----------------------------------------------------------------------------
(* Lengths: an int from protocol version 3, an unsigned short before. *)

collectionLengthSize(o) == IF o.version >= 3 THEN IntBytes ELSE ShortBytes

lengthOf(n, o) ==
    IF (o.version >= 3 /\ FitsSigned(n, IntBytes)) \/
       (o.version < 3 /\ FitsUnsigned(n, ShortBytes))
    THEN Buf(Digits(n, collectionLengthSize(o)))
    ELSE Throw

\* getLengthBuffer of an encoded item: null counts as empty.
getLengthBuffer(e, o) == lengthOf(IF IsBuf(e) THEN Len(e[2]) ELSE 0, o)

decodeCollectionLength(buf, offset, o) ==
    LET bytes == Slice(buf, offset, collectionLengthSize(o))
    IN  IF o.version >= 3 THEN SInt(bytes) ELSE UInt(bytes)

\* Buffer.concat: anything but a buffer in the list makes it throw.
Concat(parts) ==
    IF \A i \in DOMAIN parts : IsBuf(parts[i])
    THEN Buf(FlattenSeq([i \in DOMAIN parts |-> parts[i][2]]))
    ELSE Throw

-----------------------------------------------------------------------------
(* Simple types *)

WriteSigned(v, len) ==
    IF v[1] = "num" /\ FitsSigned(v[2], len) THEN Buf(Digits(v[2], len)) ELSE Throw

IntSize == [int |-> IntBytes, smallint |-> ShortBytes, tinyint |-> 1]

\* Long.fromNumber goes to the nearest long there is, whose two halves
\* Long.toBuffer writes; the BigInt form writes the low bits of each half.
encodeLong(v, o) ==
    LET limit == Base ^ LongBytes \div 2
        long  == IF v[2] < -limit THEN -limit ELSE IF v[2] >= limit THEN limit - 1 ELSE v[2]
    IN  IF v[1] # "num" THEN Throw
        ELSE Buf(Digits(IF o.useBigIntAsLong THEN v[2] ELSE long, LongBytes))

encodeVarint(v, o) ==
    IF v[1] # "num" THEN Throw
    ELSE Buf(IF o.useBigIntAsVarint THEN encodeVarintFromBigInt(v[2])
             ELSE toBuffer(fromNumber(v[2])))

decodeVarint(buf, o) ==
    IF o.useBigIntAsVarint THEN decodeVarintAsBigInt(buf)
    ELSE ValueOf(fromBuffer(buf))

\* BigDecimal.toBuffer: the scale, then the unscaled value as a varint.
encodeDecimal(v) ==
    IF v[1] # "decimal" THEN Throw
    ELSE Buf(Digits(v[2][2], IntBytes) \o toBuffer(fromNumber(v[2][1])))

decodeDecimal(buf) ==
    LET unscaled == decodeVarint(SubSeq(buf, IntBytes + 1, Len(buf)),
                                 [useBigIntAsVarint |-> FALSE])
    IN  <<"decimal", <<unscaled, SInt(SubSeq(buf, 1, IntBytes))>>>>

encodeDuration(v) ==
    IF v[1] # "duration" THEN Throw
    ELSE Buf(writeVInt(v[2][1]) \o writeVInt(v[2][2]) \o writeVInt(v[2][3]))

decodeDuration(buf) ==
    LET months == readVInt(buf, 0)
        days   == readVInt(buf, months.offset)
        nanos  == readVInt(buf, days.offset)
    IN  <<"duration", <<months.value, days.value, nanos.value>>>>

TextCodes == {"text", "ascii", "varchar"}
encodeSimple(v, t, o) ==
    CASE t.code \in TextCodes         -> IF v[1] = "str" THEN Buf(v[2]) ELSE Throw
      [] t.code = "blob"              -> Throw      \* a Buffer never gets here
      [] t.code = "boolean"           -> Buf(<<IF v[2] THEN 1 ELSE 0>>)
      [] t.code \in DOMAIN IntSize    -> WriteSigned(v, IntSize[t.code])
      [] t.code \in {"bigint", "counter", "timestamp"} -> encodeLong(v, o)
      [] t.code = "varint"            -> encodeVarint(v, o)
      [] t.code = "decimal"           -> encodeDecimal(v)
      [] t.code = "duration"          -> encodeDuration(v)

decodeSimple(buf, t, o) ==
    CASE t.code \in TextCodes         -> <<"str", buf>>
      [] t.code = "blob"              -> <<"raw", buf>>
      [] t.code = "boolean"           -> <<"bool", buf[1] # 0>>
      [] t.code \in DOMAIN IntSize    -> <<"num", SInt(Slice(buf, 0, IntSize[t.code]))>>
      [] t.code \in {"bigint", "counter", "timestamp"} -> <<"num", SInt(buf)>>
      [] t.code = "varint"            -> <<"num", decodeVarint(buf, o)>>
      [] t.code = "decimal"           -> decodeDecimal(buf)
      [] t.code = "duration"          -> decodeDuration(buf)

-----------------------------------------------------------------------------
(* Encoding *)

\* Bytes of every value of the type, or -1 when they differ.
RECURSIVE serializationSizeIfFixed(_)
serializationSizeIfFixed(t) ==
    CASE t.code \in {"bigint", "timestamp"} -> LongBytes
      [] t.code = "boolean"                 -> 1
      [] t.code = "int"                     -> IntBytes
      [] t.code = "vector"                  ->
             LET size == serializationSizeIfFixed(t.info[1])
             IN  IF size = -1 THEN -1 ELSE size * t.info[2]
      [] OTHER                              -> -1

RECURSIVE encode(_, _, _)

encodeList(v, t, o) ==
    LET items == [i \in DOMAIN v[2] |-> encode(v[2][i], t.info, o)]
    IN  CASE v[1] # "arr" -> Throw
          [] v[2] = <<>>  -> Null
          [] \E i \in DOMAIN v[2] : Absent(v[2][i]) -> Throw
          [] OTHER -> Concat(<<lengthOf(Len(items), o)>> \o
                             FlattenSeq([i \in DOMAIN items |->
                                 <<getLengthBuffer(items[i], o), items[i]>>]))

\* A map skips a value that encodes to null, which leaves an empty item.
encodeMap(v, t, o) ==
    LET pairs    == v[2]
        Entry(i) ==
            LET key   == encode(pairs[i][1], t.info[1], o)
                value == encode(pairs[i][2], t.info[2], o)
            IN  <<getLengthBuffer(key, o), key, getLengthBuffer(value, o)>>
                  \o (IF value = Null THEN <<>> ELSE <<value>>)
    IN  IF \E i \in DOMAIN pairs : Absent(pairs[i][1]) \/ Absent(pairs[i][2]) THEN Throw
        ELSE Concat(<<lengthOf(Len(pairs), o)>> \o
                    FlattenSeq([i \in DOMAIN pairs |-> Entry(i)]))

\* Faulty: a missing field is written with length zero, as in a map.
encodeField_Variant(v, t, o) ==
    LET item == encode(v, t, o)
    IN  <<Buf(Digits(IF IsBuf(item) THEN Len(item[2]) ELSE 0, IntBytes)),
          IF item \in {Null, Undefined} THEN Buf(<<>>) ELSE item>>

\* One field of a UDT or a tuple: a null, undefined or unset one is written
\* as a null (length -1).
encodeField(v, t, o) ==
    LET item == encode(v, t, o)
    IN  IF item \in {Null, Undefined} THEN <<Buf(Digits(-1, IntBytes))>>
        ELSE <<Buf(Digits(IF IsBuf(item) THEN Len(item[2]) ELSE 0, IntBytes)), item>>

encodeUdt(v, t, o) ==
    LET Field(name) == IF name \in DOMAIN v[2] THEN v[2][name] ELSE Undefined
    IN  Concat(FlattenSeq([i \in DOMAIN t.info |->
                   encodeField(Field(t.info[i].name), t.info[i].type, o)]))

encodeTuple(v, t, o) ==
    LET length == IF Len(t.info) < Len(v[2]) THEN Len(t.info) ELSE Len(v[2])
    IN  Concat(FlattenSeq([i \in 1 .. length |-> encodeField(v[2][i], t.info[i], o)]))

encodeVector(v, t, o) ==
    LET items == [i \in DOMAIN v[2] |-> encode(v[2][i], t.info[1], o)]
        Item(i) == IF serializationSizeIfFixed(t.info[1]) = -1 /\ IsBuf(items[i])
                   THEN <<Buf(uvintPack(Len(items[i][2]))), items[i]>>
                   ELSE <<items[i]>>
    IN  IF v[1] # "vector" \/ Len(v[2]) # t.info[2] \/ v[2] = <<>> THEN Throw
        ELSE Concat(FlattenSeq([i \in DOMAIN items |-> Item(i)]))

encoders(v, t, o) ==
    CASE t.code \in {"list", "set"} -> encodeList(v, t, o)
      [] t.code = "map"             -> encodeMap(v, t, o)
      [] t.code = "udt"             -> encodeUdt(v, t, o)
      [] t.code = "tuple"           -> encodeTuple(v, t, o)
      [] t.code = "vector"          -> encodeVector(v, t, o)
      [] OTHER                      -> encodeSimple(v, t, o)

encode(v, t, o) ==
    LET value == IF v # Undefined THEN v
                 ELSE IF o.useUndefinedAsUnset /\ o.version >= 4 THEN Unset ELSE Null
    IN  CASE value = Unset         -> IF o.version >= 4 THEN Undefined ELSE Throw
          [] value = Null          -> Null
          [] value[1] = "raw"      -> Buf(value[2])
          [] value[1] \notin {"unset", "null", "raw"} -> encoders(value, t, o)

-----------------------------------------------------------------------------
(* Decoding *)

zeroLengthTypesSupported == TextCodes \union {"blob", "vector"}

RECURSIVE decode(_, _, _)

\* The items of a list or of a map, one after another: item i is decoded as
\* type TypeOf(i) and the next one starts at `next`.  Only the values of a map
\* may have a negative length, for null.
decodeItems(buf, n, TypeOf(_), MayBeNull(_), o) ==
    LET size == collectionLengthSize(o)
        f[i \in 0 .. n] ==
            IF i = 0 THEN [next |-> size, value |-> Undefined]
            ELSE LET start  == f[i - 1].next + size
                     length == decodeCollectionLength(buf, f[i - 1].next, o)
                 IN  IF length < 0 /\ MayBeNull(i)
                     THEN [next |-> start, value |-> Null]
                     ELSE [next  |-> start + length,
                           value |-> decode(Slice(buf, start, length), TypeOf(i), o)]
    IN  [i \in 1 .. n |-> f[i].value]

decodeList(buf, t, o) ==
    <<"arr", decodeItems(buf, decodeCollectionLength(buf, 0, o),
                         LAMBDA i : t.info, LAMBDA i : FALSE, o)>>

decodeMap(buf, t, o) ==
    LET n     == decodeCollectionLength(buf, 0, o)
        items == decodeItems(buf, 2 * n, LAMBDA i : t.info[1 + ((i + 1) % 2)],
                             LAMBDA i : i % 2 = 0, o)
    IN  <<"map", [i \in 1 .. n |-> <<items[2 * i - 1], items[2 * i]>>]>>

\* The fields of a UDT or a tuple: those beyond the end of the buffer are
\* left undefined.
decodeFields(buf, types, o) ==
    LET f[i \in 0 .. Len(types)] ==
            IF i = 0 THEN [next |-> 0, value |-> Undefined]
            ELSE LET start  == f[i - 1].next + IntBytes
                     length == SInt(Slice(buf, f[i - 1].next, IntBytes))
                 IN  IF f[i - 1].next >= Len(buf)
                     THEN [next |-> Len(buf), value |-> Undefined]
                     ELSE IF length < 0 THEN [next |-> start, value |-> Null]
                     ELSE [next  |-> start + length,
                           value |-> decode(Slice(buf, start, length), types[i], o)]
    IN  [i \in DOMAIN types |-> f[i].value]

decodeUdt(buf, t, o) ==
    LET fields == decodeFields(buf, [i \in DOMAIN t.info |-> t.info[i].type], o)
        Defined == {i \in DOMAIN fields : fields[i] # Undefined}
        Index(name) == CHOOSE i \in Defined : t.info[i].name = name
    IN  <<"obj", [name \in {t.info[i].name : i \in Defined} |-> fields[Index(name)]]>>

decodeTuple(buf, t, o) == <<"tuple", decodeFields(buf, t.info, o)>>

\* Too few bytes for an element, or bytes left after the last one, throw.
decodeVector(buf, t, o) ==
    LET fixed == serializationSizeIfFixed(t.info[1])
        Head1(offset) == IF fixed = -1 THEN uvintUnpack(buf, offset)
                         ELSE [value |-> fixed, offset |-> offset]
        f[i \in 0 .. t.info[2]] ==
            IF i = 0 THEN [next |-> 0, value |-> Undefined]
            ELSE LET head == Head1(f[i - 1].next)
                 IN  [next  |-> head.offset + head.value,
                      value |-> decode(Slice(buf, head.offset, head.value), t.info[1], o)]
    IN  IF f[t.info[2]].next # Len(buf) THEN Throw
        ELSE <<"vector", [i \in 1 .. t.info[2] |-> f[i].value]>>

decoders(buf, t, o) ==
    CASE t.code \in {"list", "set"} -> decodeList(buf, t, o)
      [] t.code = "map"             -> decodeMap(buf, t, o)
      [] t.code = "udt"             -> decodeUdt(buf, t, o)
      [] t.code = "tuple"           -> decodeTuple(buf, t, o)
      [] t.code = "vector"          -> decodeVector(buf, t, o)
      [] OTHER                      -> decodeSimple(buf, t, o)

decode(buf, t, o) ==
    IF buf = <<>> /\ t.code \notin zeroLengthTypesSupported THEN Null
    ELSE decoders(buf, t, o)

-----------------------------------------------------------------------------
(* Routing keys: one part is used as it is; several are each preceded by
   their length, an unsigned short, and followed by a zero byte. *)

concatRoutingKey(parts) ==
    IF Len(parts) = 1 THEN Buf(parts[1])
    ELSE IF \E i \in DOMAIN parts : ~FitsUnsigned(Len(parts[i]), ShortBytes) THEN Throw
    ELSE Buf(FlattenSeq([i \in DOMAIN parts |->
                 Digits(Len(parts[i]), ShortBytes) \o parts[i] \o <<0>>]))

\* The parts of a key made of the parameters at `indexes`: none at all when an
\* index is missing, an encoding throws or a parameter has no bytes.
encodeRoutingKeyParts(indexes, params, types, o) ==
    LET encodeParam(i) == encode(params[i], types[i], o)
    IN  IF \E i \in DOMAIN indexes : \/ indexes[i] = 0
                                     \/ ~IsBuf(encodeParam(indexes[i]))
        THEN <<>>
        ELSE [i \in DOMAIN indexes |-> encodeParam(indexes[i])[2]]

KeyFromParts(parts) == IF parts = <<>> THEN Null ELSE concatRoutingKey(parts)

\* From the types of the prepared statement's columns ...
setRoutingKeyFromMeta(columns, params, indexes, o) ==
    KeyFromParts(encodeRoutingKeyParts(indexes, params, columns, o))

\* ... from the hints the user gave, with the same encoder ...
setRoutingKeyFromHints(hints, params, indexes, o) ==
    IF params = <<>> THEN Null
    ELSE KeyFromParts(encodeRoutingKeyParts(indexes, params, hints, o))

\* ... or from the buffers the user gave: a missing one clears the key.
setRoutingKeyFromUser(buffers) ==
    CASE Len(buffers) = 1 -> buffers[1]
      [] \E i \in DOMAIN buffers : ~IsBuf(buffers[i]) -> Null
      [] OTHER -> KeyFromParts([i \in DOMAIN buffers |-> buffers[i][2]])

-----------------------------------------------------------------------------
(* The machine: an application writes columns, reads them back, and routes
   statements by their partition key. *)

Option == [version : Versions, useUndefinedAsUnset : BOOLEAN,
           useBigIntAsLong : BOOLEAN, useBigIntAsVarint : BOOLEAN]

Nothing == <<Null, [code |-> "blob"]>>
NoKey == [parts |-> <<>>, key |-> Null, hints |-> Null, user |-> Null]

CodecStart ==
    /\ given = Nothing
    /\ wire = Null
    /\ seen = Null
    /\ routed = NoKey
    /\ previous = NoKey

CodecInit == options \in Option /\ CodecStart

\* The Encoder keeps nothing between two calls: a behaviour writes and reads
\* one column, or routes two statements.
Write(t) ==
    /\ given = Nothing /\ routed = NoKey
    /\ \E v \in Samples(t) : /\ given' = <<v, t>>
                             /\ wire' = encode(v, t, options)
    /\ seen' = Undefined
    /\ UNCHANGED <<options, routed, previous>>

\* An unset column was never written and reads as null.
Read ==
    /\ seen = Undefined
    /\ wire # Throw
    /\ seen' = IF IsBuf(wire) THEN decode(wire[2], given[2], options) ELSE Null
    /\ UNCHANGED <<options, given, wire, routed, previous>>

\* A statement with a partition key of these columns: its routing key from
\* the metadata, from hints and from buffers the user encoded.
Route(parts) ==
    /\ given = Nothing
    /\ previous = NoKey
    /\ LET columns == [i \in DOMAIN parts |-> [code |-> "text"]]
           params  == [i \in DOMAIN parts |-> <<"str", parts[i]>>]
           indexes == [i \in DOMAIN parts |-> i]
       IN  routed' = [parts |-> parts,
                      key   |-> setRoutingKeyFromMeta(columns, params, indexes, options),
                      hints |-> setRoutingKeyFromHints(columns, params, indexes, options),
                      user  |-> setRoutingKeyFromUser(
                                    [i \in DOMAIN parts |-> Buf(parts[i])])]
    /\ previous' = routed
    /\ UNCHANGED <<options, given, wire, seen>>

CodecNext ==
    \/ \E t \in Types : Write(t)
    \/ Read
    \/ \E n \in 1 .. 2 : \E parts \in [1 .. n -> KeyParts] : Route(parts)

-----------------------------------------------------------------------------
(* Properties *)

\* The parameters encode refuses: values out of the range of their type, holes
\* in a collection (a nested empty list is one, since it encodes to null),
\* vectors of another dimension, unset before protocol version 4.
RECURSIVE Refused(_, _, _)
RECURSIVE Hole(_, _, _)

\* v, as an element of a list, a set or a vector, has no bytes.
Hole(v, t, o) ==
    \/ Absent(v)
    \/ t.code \in {"list", "set"} /\ v[1] = "arr" /\ v[2] = <<>>
    \/ Refused(v, t, o)

Refused(v, t, o) ==
    CASE v = Unset -> o.version < 4
      [] v[1] \in {"null", "undefined", "raw"} -> FALSE
      [] v[1] = "num" /\ t.code \in DOMAIN IntSize -> ~FitsSigned(v[2], IntSize[t.code])
      [] t.code \in {"list", "set"} ->
             \/ \E i \in DOMAIN v[2] : Hole(v[2][i], t.info, o)
             \/ o.version < 3 /\ ~FitsUnsigned(Len(v[2]), ShortBytes)
             \/ o.version < 3 /\ \E i \in DOMAIN v[2] :
                    v[2][i][1] = "str" /\ ~FitsUnsigned(Len(v[2][i][2]), ShortBytes)
      [] t.code = "map" ->
             \E i \in DOMAIN v[2] : \/ Absent(v[2][i][1]) \/ Refused(v[2][i][1], t.info[1], o)
                                    \/ Absent(v[2][i][2]) \/ Refused(v[2][i][2], t.info[2], o)
      [] t.code = "udt" ->
             \E i \in DOMAIN t.info : /\ t.info[i].name \in DOMAIN v[2]
                                      /\ Refused(v[2][t.info[i].name], t.info[i].type, o)
      [] t.code = "tuple" ->
             \E i \in DOMAIN v[2] : i <= Len(t.info) /\ Refused(v[2][i], t.info[i], o)
      [] t.code = "vector" ->
             Len(v[2]) # t.info[2] \/ \E i \in DOMAIN v[2] : Hole(v[2][i], t.info[1], o)
      [] OTHER -> FALSE

\* What a client reads of a column it wrote v to: the value itself, except
\* that an empty list, and a field that was left out, reads as null, and that
\* a tuple is cut or filled up (with undefined) to the length of its type.
RECURSIVE ReadsAs(_, _)
ReadsAs(v, t) ==
    CASE Absent(v) -> Null
      [] v[1] = "arr" /\ v[2] = <<>> -> Null
      [] v[1] = "arr" /\ v[2] # <<>> ->
             <<"arr", [i \in DOMAIN v[2] |-> ReadsAs(v[2][i], t.info)]>>
      [] v[1] = "map" ->
             <<"map", [i \in DOMAIN v[2] |-> <<ReadsAs(v[2][i][1], t.info[1]),
                                              ReadsAs(v[2][i][2], t.info[2])>>]>>
      [] v[1] = "obj" ->
             <<"obj", [name \in {t.info[i].name : i \in DOMAIN t.info} |->
                 LET i == CHOOSE i \in DOMAIN t.info : t.info[i].name = name
                 IN  IF name \in DOMAIN v[2] THEN ReadsAs(v[2][name], t.info[i].type)
                     ELSE Null]>>
      [] v[1] = "tuple" ->
             <<"tuple", [i \in DOMAIN t.info |->
                 IF i \in DOMAIN v[2] THEN ReadsAs(v[2][i], t.info[i]) ELSE Undefined]>>
      [] v[1] = "vector" ->
             <<"vector", [i \in DOMAIN v[2] |-> ReadsAs(v[2][i], t.info[1])]>>
      [] OTHER -> v

\* The Encoder is in one of its configurations and holds bytes.
CodecTypeOK ==
    /\ options \in Option
    /\ wire[1] \in {"buf", "null", "undefined", "throw"}
    /\ IsBuf(wire) => wire[2] \in Seq(Byte)
    /\ routed.key[1] \in {"buf", "null", "throw"}

\* A number for a bigint that is not a 64-bit integer. encodeLong accepts it and
\* changes it: to the nearest long, or to its low bits with useBigIntAsLong.
PastLong(v, t) ==
    t.code = "bigint" /\ v[1] = "num" /\ ~FitsSigned(v[2], LongBytes)

\* decode of what encode wrote is the value written, through every nesting of
\* collections, UDTs, tuples and vectors, at every protocol version and for
\* every numeric edge: no length or offset goes out of step.  The exception is a
\* number past the range of a bigint, which encodeLong neither refuses nor keeps.
RoundTrip ==
    (wire # Throw /\ seen # Undefined /\ given[2] \in Types /\ ~PastLong(given[1], given[2]))
        => seen = ReadsAs(given[1], given[2])

\* encode throws exactly for the parameters that Refused lists, and never writes part
\* of one.  A number past the range of a bigint is not among them.
ThrowsOnlyWhenRefused ==
    given[2] \in Types => (wire = Throw <=> Refused(given[1], given[2], options))

\* A column written by a client with one set of encoding options is the one a
\* client with the default representation of integers writes, and so the same
\* for all of them (useUndefinedAsUnset apart, which is about whether there is
\* a value at all).  A number past the range of a bigint is again the exception:
\* clients with useBigIntAsLong write its low bits, the others the nearest long.
WireSameForAllClients ==
    LET default == [options EXCEPT !.useBigIntAsLong = FALSE, !.useBigIntAsVarint = FALSE]
    IN  given[2] \in Types /\ ~PastLong(given[1], given[2])
            => wire = encode(given[1], given[2], default)

\* Statements on different partitions of a table have different routing keys,
\* so the lengths and the separators of concatRoutingKey keep the columns
\* apart, and the three ways to give a routing key agree.
RoutingKeysDistinct ==
    /\ routed.key = routed.hints /\ routed.key = routed.user
    /\ (/\ IsBuf(routed.key) /\ IsBuf(previous.key)
        /\ Len(routed.parts) = Len(previous.parts)   \* one table
        /\ routed.key = previous.key)
          => routed.parts = previous.parts
=============================================================================
