----------------------------- MODULE DecimalType -----------------------------
(***************************************************************************)
(* BigDecimal (lib/types/big-decimal.js): an Integer, the unscaled value,  *)
(* and a scale.  A text is a sign, the digits before the point, whether    *)
(* there is a point and the digits after it.                               *)
(***************************************************************************)
EXTENDS IntegerType

Zeros(n) == [i \in 1 .. n |-> 0]

\* BigDecimal.toString(), with int the text of the unscaled value. With a negative scale the
\* point comes after all digits.
decimalToString(int, scale) ==
    LET missing == scale - Len(int.digits)
        padded == IF missing >= 0 THEN Zeros(missing + 1) \o int.digits ELSE int.digits
        separatorIndex == Len(padded) - scale
        whole == IF separatorIndex > Len(padded) THEN Len(padded) ELSE separatorIndex
    IN  [negative |-> int.negative,
         point |-> scale # 0,
         whole |-> IF scale = 0 THEN int.digits ELSE SubSeq(padded, 1, whole),
         fraction |-> IF scale = 0 THEN << >> ELSE SubSeq(padded, whole + 1, Len(padded))]

\* BigDecimal.fromString()
decimalFromString(t) ==
    [intVal |-> fromString([negative |-> t.negative, digits |-> t.whole \o t.fraction]),
     scale |-> IF t.point THEN Len(t.fraction) ELSE 0]

\* Math.pow(10, n), a Number
TenTo(n) == RoundNumber(10 ^ n)

\* The unscaled value at a scale that is not smaller
Rescaled(d, scale) ==
    IF d.scale = scale THEN d.intVal
    ELSE multiply(d.intVal, fromNumber(TenTo(scale - d.scale)))
Wider(a, b) == IF a.scale < b.scale THEN b.scale ELSE a.scale

decimalSubtract(a, b) ==
    [intVal |-> subtract(Rescaled(a, Wider(a, b)), Rescaled(b, Wider(a, b))),
     scale |-> Wider(a, b)]

decimalAdd(a, b) ==
    [intVal |-> add(Rescaled(a, Wider(a, b)), Rescaled(b, Wider(a, b))),
     scale |-> Wider(a, b)]

decimalCompare(a, b) == signOf(decimalSubtract(a, b).intVal)
=============================================================================
