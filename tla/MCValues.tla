------------------------------ MODULE MCValues ------------------------------
(* The value layer with 4-bit bytes: ints of 8 bits, longs of 16, words of   *)
(* 8 and doubles of 13 significant bits; operands and samples on both sides  *)
(* of every width, nested types two deep, and holes wherever one can be put. *)
(* UUIDs of two dates, three ticks in a millisecond: five calls fill a      *)
(* millisecond and wrap the shared counter.                                  *)
EXTENDS Values

MCOperands == {-4096, -128, -16, -1, 0, 1, 10, 127, 255, 767, 65535}
MCShifts   == {1, 8, 9, 16}
MCVersions == {2, 4}
MCKeyParts == {<<>>, <<0>>, <<0, 0>>, [i \in 1 .. 16 |-> 1]}

Simple(c)     == [code |-> c]
Of(c, info)   == [code |-> c, info |-> info]
Int1  == Simple("int")
Text1 == Simple("text")
Field(n, t)   == [name |-> n, type |-> t]

SimpleTypes == {Simple(c) : c \in {"int", "tinyint", "bigint", "boolean", "text",
                                   "varint", "decimal", "duration", "blob"}}
ListTypes == {Of("list", Int1), Of("set", Text1), Of("list", Of("list", Int1)),
              Of("list", Of("tuple", <<Int1, Text1>>))}
MapTypes  == {Of("map", <<Text1, Int1>>), Of("map", <<Text1, Of("list", Int1)>>)}
UdtTypes  == {Of("udt", <<Field("a", Int1), Field("b", Of("list", Text1))>>)}
TupleTypes  == {Of("tuple", <<Int1, Text1>>), Of("tuple", <<Text1, Of("list", Int1)>>)}
VectorTypes == {Of("vector", <<Int1, 2>>), Of("vector", <<Text1, 2>>),
                Of("vector", <<Of("vector", <<Int1, 2>>), 2>>),
                Of("vector", <<Of("list", Int1), 1>>)}

MCTypes == SimpleTypes \union ListTypes \union MapTypes \union UdtTypes
             \union TupleTypes \union VectorTypes

Ones(n) == [i \in 1 .. n |-> 1]
Nums(S) == {<<"num", n>> : n \in S}
Edges == {-129, -128, -1, 0, 1, 127, 128}
LongEdges == {-32768, -257, -256, -129, -128, -1, 0, 1, 127, 128, 255, 256, 32767}

SimpleSamples(c) ==
    CASE c = "int"      -> Nums(Edges)
      [] c = "tinyint"  -> Nums({-9, -8, -1, 0, 7, 8})
      [] c = "bigint"   -> Nums(LongEdges \union {-32769, 32768, 65536})
      [] c = "varint"   -> Nums(LongEdges \union {-65536, -32769, 32768, 65535, 65536})
      [] c = "boolean"  -> {<<"bool", TRUE>>, <<"bool", FALSE>>}
      [] c = "text"     -> {<<"str", s>> : s \in {<<>>, <<1>>, Ones(9), Ones(20), Ones(70)}}
      [] c = "blob"     -> {<<"raw", s>> : s \in {<<>>, <<0, 15>>}}
      [] c = "decimal"  -> {<<"decimal", <<n, k>>>> : n \in LongEdges, k \in {0, 3, 127}}
      [] c = "duration" -> {<<"duration", <<m, d, n>>>> :
                                m \in {-64, 0, 32}, d \in {-1, 4},
                                n \in {-32768, -2048, -1, 0, 511, 512, 32767}}

\* Few values of a type, for use inside another one.
RECURSIVE Few(_)
Few(t) ==
    {Null, Undefined, Unset} \union
    CASE t.code = "int"  -> Nums({-1, 127, 128})
      [] t.code = "text" -> {<<"str", <<>>>>, <<"str", Ones(9)>>}
      [] t.code = "list" -> {<<"arr", <<>>>>, <<"arr", <<Null>>>>} \union
                            {<<"arr", <<e, e>>>> : e \in {x \in Few(t.info) : ~Absent(x)}}
      [] t.code = "tuple" -> {<<"tuple", <<<<"num", 5>>>>>>} \union
                             {<<"tuple", <<<<"num", 5>>, s>>>> : s \in Few(Text1)}
      [] t.code = "vector" -> {<<"vector", <<<<"num", 3>>, n>>>> : n \in Few(Int1)}

\* A plain value of a type, to stand beside each of the few.
RECURSIVE Good(_)
Good(t) ==
    CASE t.code = "int"    -> <<"num", 127>>
      [] t.code = "text"   -> <<"str", Ones(9)>>
      [] t.code = "list"   -> <<"arr", <<Good(t.info), Good(t.info)>>>>
      [] t.code = "tuple"  -> <<"tuple", <<Good(t.info[1]), Good(t.info[2])>>>>
      [] t.code = "vector" -> <<"vector", <<Good(t.info[1]), Good(t.info[1])>>>>

Twos(s, t) == {<<x, Good(t)>> : x \in Few(s)} \union {<<Good(s), y>> : y \in Few(t)}
Singles(t)   == {<<x>> : x \in Few(t)}

MCSamples(t) ==
    {Null, Undefined, Unset} \union
    CASE t.code \in {"list", "set"} ->
             {<<"arr", <<>>>>} \union {<<"arr", p>> : p \in Twos(t.info, t.info)}
                 \union (IF t.info = Int1 THEN {<<"arr", [i \in 1 .. 16 |-> <<"num", i>>]>>} ELSE {})
      [] t.code = "map"    ->
             {<<"map", <<>>>>} \union
             {<<"map", <<<<<<"str", <<1>>>>, p[1]>>, <<<<"str", <<2>>>>, p[2]>>>>>> :
                 p \in Twos(t.info[2], t.info[2])}
      [] t.code = "udt"    ->
             {<<"obj", [n \in {"a"} |-> x]>> : x \in Few(Int1)} \union
             {<<"obj", [a |-> p[1], b |-> p[2]]>> : p \in Twos(Int1, Of("list", Text1))}
      [] t.code = "tuple"  ->
             {<<"tuple", p>> : p \in Singles(t.info[1]) \union Twos(t.info[1], t.info[2])} \union
             {<<"tuple", <<Good(t.info[1]), Good(t.info[2]), <<"num", 9>>>>>>}
      [] t.code = "vector" ->
             {<<"vector", p>> : p \in Singles(t.info[1]) \union Twos(t.info[1], t.info[1])}
      [] OTHER -> SimpleSamples(t.code)

MCSimpleNames == {"int", "text"}
Leaf(c) == [code |-> c, info |-> <<>>, frozen |-> FALSE, reversed |-> FALSE]
MCUdts == [address  |-> <<Leaf("int"), [Leaf("list") EXCEPT !.info = <<Leaf("text")>>]>>,
           settings |-> <<Leaf("int")>>]
MCPrefixed == {"settings"}

\* Every type one level above S.
Above(S) ==
    LET Make(c, infos) == {[code |-> c, info |-> i, frozen |-> f, reversed |-> FALSE] :
                              i \in infos, f \in BOOLEAN}
    IN  Make("list", {<<s>> : s \in S}) \union
        Make("map", {<<s, t>> : s \in S, t \in S}) \union
        Make("tuple", {<<s>> : s \in S} \union {<<s, t, s>> : s \in S, t \in S}) \union
        Make("vector", {<<s, Dimension("3")>> : s \in S}) \union
        Make("udt", {<<Dimension(u)>> \o MCUdts[u] : u \in DOMAIN MCUdts})

MCColumnTypes ==
    LET leaves == {Leaf("int"), Leaf("duration")}
        deep   == Above({Leaf("int")}) \union
                  Above({Leaf("duration"), CHOOSE t \in Above(leaves) : t.code = "map"}) \union
                  Above(Above({Leaf("text")}))
    IN  leaves \union deep \union {[t EXCEPT !.reversed = TRUE] : t \in deep}

\* The other types, in small units: durations with two or three of a unit in the next,
\* parts of two bits, seconds with two digits.
MCNanosPer == [h |-> 72, m |-> 24, s |-> 8, ms |-> 4, us |-> 2, ns |-> 1]

\* Parts of every two signs, and the least of each type
MCDurations ==
    {[ok |-> TRUE, months |-> sign[1] * m, days |-> sign[2] * d, nanoseconds |-> sign[3] * n] :
        sign \in [1 .. 3 -> {-1, 1}], m \in {0, 1, 5, 11, 12, 17, 18, 29, 50}, d \in {0, 8},
        n \in {0, 1, 7, 72, 99, 400}}
    \union [ok : {TRUE}, months : {0, -51}, days : {0, -51}, nanoseconds : {0, -401}]

Texts(form, parts) == {[negative |-> neg, form |-> form, parts |-> p] : neg \in BOOLEAN, p \in parts}
\* 400 is the greatest Long, 801 and 805 are past it and become -1 and 3
Amounts(units) == {<<n, u>> : n \in {0, 3, 5, 50, 400, 801, 805}, u \in units}
MCDurationTexts ==
    Texts("standard", {<<>>, <<Duration!Junk, <<3, "h">>>>} \union
        {<<p, q>> : p \in Amounts({"y", "mo", "w", "h", "ns"}), q \in Amounts({"mo", "d", "h", "m", "ns"})})
    \union Texts("iso", {<<<<1, "y">>, <<3, "m">>>>, <<<<1, "m">>, <<3, "d">>>>, <<<<2, "w">>, <<3, "d">>>>, <<>>})
    \union Texts("week", {<<<<7, "w">>>>, <<<<8, "w">>>>, <<<<1, "d">>, <<1, "w">>>>})
    \union Texts("alternative", {<<<<0, "y">>, <<1, "mo">>, <<2, "d">>, <<h, "h">>, <<4, "m">>, <<1, "s">>>> :
                                    h \in {4, 5}})

\* Scales six apart, where a power of ten is rounded, and 65535 with scales three apart,
\* where it and the power have two words.
MCDecimals ==
    {[intVal |-> fromNumber(n), scale |-> s] : n \in {-125, -12, -1, 0, 5, 10, 999}, s \in {-2, 0, 1, 3, 4}}
    \union {[intVal |-> fromNumber(65535), scale |-> s] : s \in {1, 4}}

MCAddresses == [1 .. 8 -> {0, 1}]
MCAddressTexts ==
    {<<<<>>, <<>>, <<3>>, <<1, 2>>>>, <<<<>>, <<>>, <<1, 2>>>>, <<<<1>>, <<>>, <<2>>>>, <<<<>>, <<>>, <<>>>>,
     <<<<1>>, <<2>>, <<>>, <<>>>>, <<<<1>>, <<2>>, <<3>>>>, <<<<1>>, <<2>>>>,
     [i \in 1 .. 8 |-> <<1>>], [i \in 1 .. 9 |-> <<1>>],
     [i \in 1 .. 9 |-> IF i = 9 THEN <<>> ELSE <<1>>]}

MCDates == [year : {-5, -1, 0, 1, 3, 4, 1599, 1600, 1899, 1900, 1967, 1968, 1969, 1970, 1971, 1972,
                    1999, 2000, 2001, 2023, 2024, 2100, 275000},
            month : {0, 1, 2, 3, 11, 12, 13}, day : {0, 1, 28, 29, 30, 31, 32}]
MCDays == {y * 365 + y \div 4 - y \div 100 + d : y \in -1970 .. 1970, d \in {-1, 0, 58, 59, 60}}
              \union {-100000001, -100000000, 100000000, 100000001}

MCTimes == {((h * 60 + m) * 60 + s) * 100 + n : h \in {0, 9, 23}, m \in {0, 10, 59}, s \in {0, 5, 59},
                                               n \in {0, 1, 10, 50, 99}}
MCMillis == {-864001, -1, 0, 1, 863999, 864000, 864001, 5000000}

MCLongs == [1 .. 4 -> {0, 1, 3}]
MCLongTexts == {[negative |-> neg, digits |-> d] : neg \in BOOLEAN,
                    d \in {<<0>>, <<7>>, <<1, 2>>, <<1, 2, 8>>, <<2, 5, 5>>, <<9, 9, 9, 9>>, <<0, 0, 4, 0, 5>>}}
=============================================================================
