---------------------------- MODULE IntegerType ----------------------------
(***************************************************************************)
(* types.Integer (lib/types/integer.js), the arbitrary-precision integer   *)
(* that represents a CQL varint and the unscaled part of a decimal: an     *)
(* array of signed words, least significant first, and a sign word (0 or   *)
(* -1) that stands for every word above the array.                         *)
(*                                                                         *)
(* The machine is an accumulator: an application holds one Integer and     *)
(* applies the operations of the class to it.  Beside it, `exact` keeps    *)
(* the mathematical value the Integer should have.                         *)
(***************************************************************************)
EXTENDS Bytes

CONSTANTS
    Operands,       \* right-hand operands the application uses
    Shifts,         \* bit counts for the shifts and for shorten
    Magnitude,      \* bound: the accumulator stays within -Magnitude..Magnitude
    MaxSteps,       \* bound: operations applied one after another
    MantissaBits,   \* precision of a Number (53 in the driver)
    ParseDigits,    \* decimal digits fromString takes at a time (8)
    PrintDigits     \* decimal digits toString produces at a time (6)

ASSUME IntegerAssumption ==
    /\ Operands \subseteq Int
    /\ Shifts \subseteq Nat \ {0}
    /\ {Magnitude, MaxSteps, MantissaBits, ParseDigits, PrintDigits} \subseteq Nat \ {0}

VARIABLES
    acc,        \* the Integer object
    exact,      \* the integer it should represent (history variable)
    wide,       \* whether two Integers of several words were multiplied (history variable)
    steps       \* operations applied so far

integerVars == <<acc, exact, wide, steps>>

-----------------------------------------------------------------------------
(* Words *)

WordBits  == IntBytes * ByteBits
Word      == 2 ^ WordBits
HalfBits  == WordBits \div 2
Half      == 2 ^ HalfBits
ToWord(n) == Wrap(n, IntBytes)          \* n | 0
Low(n)    == n % Half                   \* n & 0xffff
High(n)   == (n % Word) \div Half       \* n >>> 16
SmallBound == 2 ^ ((WordBits * 3) \div 4)   \* Integer.TWO_PWR_24_

\* Bitwise operation on two words, bit by bit.
BitOp(op(_, _), m, n) ==
    LET Bit(x, i) == (x \div 2 ^ i) % 2
        f[i \in 0 .. WordBits] ==
            IF i = 0 THEN 0
            ELSE f[i - 1] + 2 ^ (i - 1) * op(Bit(m, i - 1), Bit(n, i - 1))
    IN  ToWord(f[WordBits])

AndBit(p, q) == p * q
OrBit(p, q)  == p + q - p * q
XorBit(p, q) == (p + q) % 2

-----------------------------------------------------------------------------
(* Construction: top words equal to the sign are redundant and pruned. *)

Integer(bits, sign) ==
    LET words == [i \in DOMAIN bits |-> ToWord(bits[i])]
        used  == {0} \union {i \in DOMAIN words : words[i] # sign}
        top   == CHOOSE i \in used : \A j \in used : j <= i
    IN  [bits |-> SubSeq(words, 1, top), sign |-> sign]

ZERO == Integer(<<>>, 0)
ONE  == Integer(<<1>>, 0)

fromBits(bits) == Integer(bits, IF bits[Len(bits)] < 0 THEN -1 ELSE 0)

getBits(x, i) ==
    IF i < 1 THEN 0 ELSE IF i <= Len(x.bits) THEN x.bits[i] ELSE x.sign

getBitsUnsigned(x, i) == getBits(x, i) % Word

isNegative(x) == x.sign = -1
isZero(x) == x.sign = 0 /\ \A i \in DOMAIN x.bits : x.bits[i] = 0

\* The integer an Integer object stands for: a negative one is the complement of the
\* words that differ from its sign.
ValueOf(x) ==
    LET digit(i) == IF x.sign = -1 THEN Word - 1 - getBitsUnsigned(x, i)
                    ELSE getBitsUnsigned(x, i)
        f[i \in 0 .. Len(x.bits)] ==
            IF i = 0 THEN 0 ELSE f[i - 1] + digit(i) * Word ^ (i - 1)
    IN  IF x.sign = -1 THEN -f[Len(x.bits)] - 1 ELSE f[Len(x.bits)]

MaxLen(x, y) == IF Len(x.bits) > Len(y.bits) THEN Len(x.bits) ELSE Len(y.bits)

equals(x, y) ==
    /\ x.sign = y.sign
    /\ \A i \in 1 .. MaxLen(x, y) : getBits(x, i) = getBits(y, i)

-----------------------------------------------------------------------------
(* Addition carries half a word at a time, one word beyond the longer
   operand so that the sign of the result is the sign of its last word. *)

add(x, y) ==
    LET len == MaxLen(x, y)
        half(z, k) ==       \* the low one of a word, then the high one
            (getBits(z, (k + 1) \div 2) \div (IF k % 2 = 1 THEN 1 ELSE Half)) % Half
        sum[k \in 0 .. 2 * len + 2] ==
            IF k = 0 THEN 0 ELSE sum[k - 1] \div Half + half(x, k) + half(y, k)
    IN  fromBits([i \in 1 .. len + 1 |-> ToWord(Low(sum[2 * i]) * Half + Low(sum[2 * i - 1]))])

not(x) == Integer([i \in DOMAIN x.bits |-> -x.bits[i] - 1], -x.sign - 1)
negate(x) == add(not(x), ONE)
subtract(x, y) == add(x, negate(y))

\* -1, 0 or 1
signOf(x) == IF isNegative(x) THEN -1 ELSE IF isZero(x) THEN 0 ELSE 1
compare(x, y) == signOf(subtract(x, y))

-----------------------------------------------------------------------------
(* Numbers: a double holds MantissaBits significant bits. *)

\* The double nearest to n (n >= 0), the even one of two that are as near.
RoundNumber(n) ==
    IF n < 2 ^ MantissaBits THEN n
    ELSE LET ulp  == 2 ^ (BitLength(n) - MantissaBits)
             down == n \div ulp
             rest == 2 * (n % ulp)
             up   == rest > ulp \/ (rest = ulp /\ down % 2 = 1)
         IN  (IF up THEN down + 1 ELSE down) * ulp

\* The words of a Number n >= 0.
numberWords(n) ==
    LET len == CHOOSE k \in 0 .. 4 : /\ k = 4 \/ n < Word ^ k
                                     /\ k = 0 \/ n >= Word ^ (k - 1)
    IN  [i \in 1 .. len |-> ToWord(n \div Word ^ (i - 1))]

fromNumber(n) ==
    IF n < 0 THEN negate(Integer(numberWords(-n), 0))
    ELSE Integer(numberWords(n), 0)

\* toNumber of a non-negative Integer: the words are added up low to high.
toNumber(x) ==
    LET f[i \in 0 .. Len(x.bits)] ==
            IF i = 0 THEN 0
            ELSE RoundNumber(f[i - 1] + getBitsUnsigned(x, i) * Word ^ (i - 1))
    IN  f[Len(x.bits)]

-----------------------------------------------------------------------------
(* Multiplication: schoolbook over half words.  carry16_ moves what does not
   fit a half word into the next one, whatever that one then holds. *)

carry16_(arr, i) ==
    IF arr[i] < Half THEN arr
    ELSE [arr EXCEPT ![i + 1] = @ + High(arr[i]), ![i] = Low(@)]

addProduct(arr, i, product) == carry16_([arr EXCEPT ![i] = @ + product], i)

multiplyPair(arr, x, y, i, j) ==
    LET a1 == High(getBits(x, i + 1))
        a0 == Low(getBits(x, i + 1))
        b1 == High(getBits(y, j + 1))
        b0 == Low(getBits(y, j + 1))
        k  == 2 * i + 2 * j + 1
    IN  addProduct(addProduct(addProduct(addProduct(arr, k, a0 * b0),
                                         k + 1, a1 * b0),
                              k + 1, a0 * b1),
                   k + 2, a1 * b1)

multiplyWords(x, y) ==
    LET len  == Len(x.bits) + Len(y.bits)
        rows == Len(y.bits)
        f[n \in 0 .. Len(x.bits) * rows] ==
            IF n = 0 THEN [i \in 1 .. 2 * len |-> 0]
            ELSE multiplyPair(f[n - 1], x, y, (n - 1) \div rows, (n - 1) % rows)
        arr  == f[Len(x.bits) * rows]
    IN  Integer([i \in 1 .. len |->
                    BitOp(OrBit, arr[2 * i] * Half, arr[2 * i - 1])], 0)

multiplyPositive(x, y) ==
    IF \A z \in {x, y} : compare(z, fromNumber(SmallBound)) < 0
    THEN fromNumber(toNumber(x) * toNumber(y))
    ELSE multiplyWords(x, y)

abs(x) == IF x.sign = 0 THEN x ELSE negate(x)

\* The sign is taken out of both operands and put back on the result.
signed(x, y, magnitude) ==
    IF isNegative(x) = isNegative(y) THEN magnitude ELSE negate(magnitude)

multiply(x, y) ==
    IF isZero(x) \/ isZero(y) THEN ZERO
    ELSE signed(x, y, multiplyPositive(abs(x), abs(y)))

-----------------------------------------------------------------------------
(* Division: repeated subtraction of an approximate quotient computed with
   Numbers, lowered until it is not above the remainder. *)

\* The floor of the double nearest to the quotient r / o.
NumberQuotient(r, o) ==
    LET scale == BitLength(r \div o) - MantissaBits
    IN  IF scale >= 0
        THEN ((2 * r + o * 2 ^ scale) \div (2 * o * 2 ^ scale)) * 2 ^ scale
        ELSE ((2 * r * 2 ^ (-scale) + o) \div (2 * o)) \div 2 ^ (-scale)

CeilLog2(n) == CHOOSE k \in 0 .. 31 : n <= 2 ^ k /\ (k = 0 \/ n > 2 ^ (k - 1))
DeltaBits == MantissaBits - 5       \* 48 for a double

RECURSIVE lowerApprox(_, _, _, _, _)
lowerApprox(approx, approxRem, delta, y, rem) ==
    IF isNegative(approxRem) \/ compare(approxRem, rem) > 0
    THEN lowerApprox(approx - delta, multiply(fromNumber(approx - delta), y), delta, y, rem)
    ELSE [res |-> IF approx = 0 THEN ONE ELSE fromNumber(approx), rem |-> approxRem]

Larger(m, n) == IF m < n THEN n ELSE m

RECURSIVE dividePositive(_, _, _)
dividePositive(res, rem, y) ==
    IF compare(rem, y) < 0 THEN res
    ELSE LET Delta(log2) == IF log2 <= DeltaBits THEN 1 ELSE 2 ^ (log2 - DeltaBits)
             Lowered(approx) ==
                 lowerApprox(approx, multiply(fromNumber(approx), y), Delta(CeilLog2(approx)), y, rem)
             Subtracted(step) == dividePositive(add(res, step.res), subtract(rem, step.rem), y)
         IN  Subtracted(Lowered(Larger(1, NumberQuotient(toNumber(rem), toNumber(y)))))

divide(x, y) ==
    IF isZero(x) THEN ZERO ELSE signed(x, y, dividePositive(ZERO, abs(x), abs(y)))

modulo(x, y) == subtract(x, multiply(divide(x, y), y))

-----------------------------------------------------------------------------
(* Bitwise operations and shifts *)

bitwise(op(_, _), x, y) ==
    LET SignBitOf(z) == -z.sign
    IN  Integer([i \in 1 .. MaxLen(x, y) |-> BitOp(op, getBits(x, i), getBits(y, i))],
                -op(SignBitOf(x), SignBitOf(y)))

shiftLeft(x, n) ==
    LET words == n \div WordBits
        bits  == n % WordBits
        len   == Len(x.bits) + words + (IF bits > 0 THEN 1 ELSE 0)
        word(i) ==
            IF bits = 0 THEN getBits(x, i - words)
            ELSE getBits(x, i - words) * 2 ^ bits
                   + (getBits(x, i - words - 1) % Word) \div 2 ^ (WordBits - bits)
    IN  Integer([i \in 1 .. len |-> word(i)], x.sign)

shiftRight(x, n) ==
    LET words == n \div WordBits
        bits  == n % WordBits
        len   == Len(x.bits) - words
        word(i) ==
            IF bits = 0 THEN getBits(x, i + words)
            ELSE (getBits(x, i + words) % Word) \div 2 ^ bits
                   + getBits(x, i + words + 1) * 2 ^ (WordBits - bits)
    IN  Integer([i \in 1 .. len |-> word(i)], x.sign)

\* Keeps the low n bits, the last of them as the sign.
shorten(x, n) ==
    LET words == (n - 1) \div WordBits
        bit   == (n - 1) % WordBits
        val   == getBits(x, words + 1) % 2 ^ (bit + 1)
        low   == [i \in 1 .. words |-> getBits(x, i)]
    IN  IF val >= 2 ^ bit
        THEN Integer(Append(low, val - 2 ^ (bit + 1)), -1)
        ELSE Integer(Append(low, val), 0)

-----------------------------------------------------------------------------
(* Buffers: big-endian two's complement in as few bytes as possible. *)

toBuffer(x) ==
    IF x.bits = <<>> THEN <<x.sign % Base>>
    ELSE LET top     == x.bits[Len(x.bits)]
             high    == (IF x.sign = -1 THEN -top - 1 ELSE top) % Word
             size    == CHOOSE k \in 1 .. IntBytes :
                            high < Base ^ k /\ (k = 1 \/ high >= Base ^ (k - 1))
             bytes   == Digits(high, size)
             padded  == IF bytes[1] >= SignBit THEN <<0>> \o bytes ELSE bytes
             first   == IF x.sign = -1
                        THEN [i \in DOMAIN padded |-> Base - 1 - padded[i]]
                        ELSE padded
             f[i \in 0 .. Len(x.bits) - 1] ==
                 IF i = 0 THEN first
                 ELSE f[i - 1] \o Digits(x.bits[Len(x.bits) - i], IntBytes)
         IN  f[Len(x.bits) - 1]

fromBuffer(buf) ==
    LET sign == IF buf[1] >= SignBit THEN -1 ELSE 0
        len  == (Len(buf) + IntBytes - 1) \div IntBytes
        word(i) ==
            LET offset == Len(buf) - i * IntBytes
                part   == SubSeq(buf, 1, offset + IntBytes)
            IN  IF offset >= 0
                THEN SInt(SubSeq(buf, offset + 1, offset + IntBytes))
                ELSE IF sign = 0 THEN UInt(part)
                     ELSE -UInt([j \in DOMAIN part |-> Base - 1 - part[j]]) - 1
    IN  Integer([i \in 1 .. len |-> word(i)], sign)

-----------------------------------------------------------------------------
(* The codecs of a varint held in an ECMAScript BigInt (lib/encoder.js). *)

\* Faulty: a positive value whose top byte looks negative gets no padding.
encodeVarintFromBigInt_Variant(n) ==
    IF n \in {0, -1} THEN <<n % Base>>
    ELSE LET rest == IF n > 0 THEN 0 ELSE -1
             size == CHOOSE k \in 1 .. 12 : /\ n \div Base ^ k = rest
                                            /\ n \div Base ^ (k - 1) # rest
         IN  Digits(n, size)

encodeVarintFromBigInt(n) ==
    IF n \in {0, -1} THEN <<n % Base>>
    ELSE LET rest  == IF n > 0 THEN 0 ELSE -1
             size  == CHOOSE k \in 1 .. 12 : /\ n \div Base ^ k = rest
                                             /\ n \div Base ^ (k - 1) # rest
             parts == Digits(n, size)
         IN  IF (parts[1] >= SignBit) = (n > 0)
             THEN <<rest % Base>> \o parts
             ELSE parts

decodeVarintAsBigInt(buf) ==
    IF buf[1] < SignBit THEN UInt(buf)
    ELSE -UInt([i \in DOMAIN buf |-> Base - 1 - buf[i]]) - 1

-----------------------------------------------------------------------------
(* Decimal strings, as a sign and a sequence of digits. *)

DecimalDigits(n, len) == [i \in 1 .. len |-> (n \div 10 ^ (len - i)) % 10]
DecimalLength(n) == CHOOSE k \in 1 .. 10 : n < 10 ^ k /\ (k = 1 \/ n >= 10 ^ (k - 1))
DecimalValue(s) ==
    LET f[i \in 0 .. Len(s)] == IF i = 0 THEN 0 ELSE f[i - 1] * 10 + s[i]
    IN  f[Len(s)]

RadixPower == fromNumber(10 ^ PrintDigits)
Rest(rem, remDiv) == getBits(subtract(rem, multiply(remDiv, RadixPower)), 1)

RECURSIVE printFrom(_, _, _)
\* Faulty: no group of digits is filled up with zeros.
printFrom_Variant(rem, remDiv, result) ==
    LET Round(intval) ==
            IF isZero(remDiv) THEN DecimalDigits(intval, DecimalLength(intval)) \o result
            ELSE printFrom(remDiv, divide(remDiv, RadixPower),
                           DecimalDigits(intval, DecimalLength(intval)) \o result)
    IN  Round(Rest(rem, remDiv))

\* One group of digits in each round, the last one without leading zeros.
printFrom(rem, remDiv, result) ==
    LET Round(intval) ==
            IF isZero(remDiv) THEN DecimalDigits(intval, DecimalLength(intval)) \o result
            ELSE printFrom(remDiv, divide(remDiv, RadixPower),
                           DecimalDigits(intval, PrintDigits) \o result)
    IN  Round(Rest(rem, remDiv))

toString(x) ==
    [negative |-> isNegative(x),
     digits   |-> IF isZero(x) THEN <<0>>
                  ELSE printFrom(abs(x), divide(abs(x), RadixPower), <<>>)]

RECURSIVE parseFrom(_, _)
parseFrom(result, digits) ==
    IF digits = <<>> THEN result
    ELSE LET size  == IF Len(digits) < ParseDigits THEN Len(digits) ELSE ParseDigits
             value == DecimalValue(SubSeq(digits, 1, size))
         IN  parseFrom(add(multiply(result, fromNumber(10 ^ size)), fromNumber(value)),
                       SubSeq(digits, size + 1, Len(digits)))

fromString(str) ==
    LET x == parseFrom(ZERO, str.digits)
    IN  IF str.negative THEN negate(x) ELSE x

-----------------------------------------------------------------------------
(* The accumulator *)

\* One operation of the class: its result, the value it should have, and whether it
\* multiplied two Integers of more than one word.
Step(x, n, multiplies) ==
    /\ steps < MaxSteps
    /\ n \in -Magnitude .. Magnitude
    /\ acc' = x
    /\ exact' = n
    /\ wide' = (wide \/ multiplies)
    /\ steps' = steps + 1
Apply(x, n) == Step(x, n, FALSE)

\* Reference results.
Sign(n) == IF n < 0 THEN -1 ELSE IF n = 0 THEN 0 ELSE 1
AbsOf(n) == IF n < 0 THEN -n ELSE n
Quotient(m, n) == Sign(m) * Sign(n) * (AbsOf(m) \div AbsOf(n))
SignedLow(n, bits) ==
    LET u == n % 2 ^ bits IN IF u >= 2 ^ (bits - 1) THEN u - 2 ^ bits ELSE u
Bitwise(op(_, _), m, n) ==
    LET Bit(x, i) == (x \div 2 ^ i) % 2
        f[i \in 0 .. 28] ==
            IF i = 0 THEN 0
            ELSE f[i - 1] + 2 ^ (i - 1) * op(Bit(m, i - 1), Bit(n, i - 1))
    IN  SignedLow(f[28], 28)
Wide(m, n) == AbsOf(m) >= Word /\ AbsOf(n) >= Word

IntegerInit ==
    /\ exact \in Operands
    /\ acc = fromNumber(exact)
    /\ wide = FALSE
    /\ steps = 0

Add(n)      == Apply(add(acc, fromNumber(n)), exact + n)
Subtract(n) == Apply(subtract(acc, fromNumber(n)), exact - n)
Multiply(n) ==
    /\ n # 0 => AbsOf(exact) <= Magnitude \div AbsOf(n)
    /\ Step(multiply(acc, fromNumber(n)), exact * n, Wide(exact, n))
\* The approximate quotients are multiplied by the divisor.
Divide(n) ==
    /\ n # 0                            \* division by zero throws
    /\ Step(divide(acc, fromNumber(n)), Quotient(exact, n), Wide(Quotient(exact, n), n))
Modulo(n) ==
    /\ n # 0
    /\ Step(modulo(acc, fromNumber(n)), exact - Quotient(exact, n) * n,
            Wide(Quotient(exact, n), n))
And(n) == Apply(bitwise(AndBit, acc, fromNumber(n)), Bitwise(AndBit, exact, n))
Or(n)  == Apply(bitwise(OrBit, acc, fromNumber(n)), Bitwise(OrBit, exact, n))
Xor(n) == Apply(bitwise(XorBit, acc, fromNumber(n)), Bitwise(XorBit, exact, n))
Not    == Apply(not(acc), -exact - 1)
Negate == Apply(negate(acc), -exact)
ShiftLeft(k) ==
    /\ AbsOf(exact) <= Magnitude \div 2 ^ k
    /\ Apply(shiftLeft(acc, k), exact * 2 ^ k)
ShiftRight(k) == Apply(shiftRight(acc, k), exact \div 2 ^ k)
Shorten(k)    == Apply(shorten(acc, k), SignedLow(exact, k))

IntegerNext ==
    \/ \E n \in Operands : \/ Add(n) \/ Subtract(n) \/ Multiply(n)
                            \/ Divide(n) \/ Modulo(n)
                            \/ And(n) \/ Or(n) \/ Xor(n)
    \/ Not \/ Negate
    \/ \E k \in Shifts : ShiftLeft(k) \/ ShiftRight(k) \/ Shorten(k)

-----------------------------------------------------------------------------
(* Properties *)

\* The words and the sign word of integer.js are in range and no operation
\* leaves a redundant word at the top (toBuffer takes the last word for the
\* significant one).
IntegerTypeOK ==
    /\ acc.sign \in {0, -1}
    /\ \A i \in DOMAIN acc.bits : FitsSigned(acc.bits[i], IntBytes)
    /\ acc.bits # <<>> => acc.bits[Len(acc.bits)] # acc.sign

\* After the operations of integer.js that were applied one after another, with
\* their half-word carries and their approximate quotients, the Integer holds
\* exactly the value ordinary arithmetic gives.
ArithmeticExact == ValueOf(acc) = exact

\* Multiplying by k ones, the operand that makes every half-word product and
\* every carry of multiply as large as it can be, gives what shiftLeft and
\* subtract give: the carry that carry16_ leaves in the next half word never
\* grows past a word.
CarriesKept ==
    \A k \in Shifts :
        multiply(acc, subtract(shiftLeft(ONE, k), ONE))
            = subtract(shiftLeft(acc, k), acc)

\* compare and equals, which work through subtract and getBits, order
\* Integers as the integers they stand for.
CompareExact ==
    \A n \in Operands : /\ compare(acc, fromNumber(n)) = Sign(exact - n)
                        /\ equals(acc, fromNumber(n)) <=> exact = n

\* The two codecs of a CQL varint write the same, shortest, bytes and read
\* back the value written, so a column written by a client that uses Integer
\* can be read by one that uses BigInt and the other way round.
VarintCodecsAgree ==
    LET buf == toBuffer(acc)
    IN  /\ buf = encodeVarintFromBigInt(exact)
        /\ decodeVarintAsBigInt(buf) = exact
        /\ fromBuffer(buf) = acc
        /\ Len(buf) > 1 => ~FitsSigned(exact, Len(buf) - 1)

\* Printing in groups of digits, and parsing in groups of another size, agree
\* with the decimal digits of the value: no group loses its leading zeros.
StringRoundTrip ==
    LET str == [negative |-> exact < 0,
                digits   |-> DecimalDigits(AbsOf(exact), DecimalLength(AbsOf(exact)))]
    IN  /\ toString(acc) = str
        /\ fromString(str) = acc

\* An Integer is the integer it stands for, seen through every way out of the
\* class: its words after any chain of operations, comparison with others, the
\* bytes of a varint and the decimal digits.  That is as long as no operation
\* has multiplied two Integers of more than one word: from there on carry16_
\* can lose a carry (see CarriesKept).
IntegerIsExact ==
    ~wide => /\ ArithmeticExact
             /\ CompareExact
             /\ VarintCodecsAgree
             /\ StringRoundTrip
=============================================================================
