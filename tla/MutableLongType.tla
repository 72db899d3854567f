--------------------------- MODULE MutableLongType ---------------------------
(***************************************************************************)
(* MutableLong (lib/types/mutable-long.js): a 64 bit integer as four       *)
(* unsigned parts, least significant first, changed in place.  The width   *)
(* of a part is a parameter.                                               *)
(***************************************************************************)
EXTENDS Integers, Sequences, SequencesExt

CONSTANTS
    PartBits,     \* 16: bits of a part
    ChunkDigits   \* 8: digits that fromString() takes at a time

Base == 2^PartBits
Low(c) == c % Base
\* >>> PartBits on a number of twice as many bits
High(c) == (c % Base^2) \div Base

Part == 0 .. Base - 1
Zero == <<0, 0, 0, 0>>
one == <<1, 0, 0, 0>>

not(a) == [i \in 1 .. 4 |-> Base - 1 - a[i]]

add(a, b) ==
    LET c00 == a[1] + b[1]
        c16 == High(c00) + a[2] + b[2]
        c32 == High(c16) + a[3] + b[3]
        c48 == High(c32) + a[4] + b[4]
    IN  <<Low(c00), Low(c16), Low(c32), Low(c48)>>

negate(a) == add(not(a), one)
isNegative(a) == 2 * a[4] >= Base

positive(a) == IF isNegative(a) THEN negate(a) ELSE a

\* multiply(): the products of the parts, with their carries
product(a, b) ==
    LET c00 == a[1] * b[1]
        c16a == High(c00) + a[2] * b[1]
        c16b == Low(c16a) + a[1] * b[2]
        c32a == High(c16a) + High(c16b) + a[3] * b[1]
        c32b == Low(c32a) + a[2] * b[2]
        c32c == Low(c32b) + a[1] * b[3]
        c48 == High(c32a) + High(c32b) + High(c32c)
               + a[4] * b[1] + a[3] * b[2] + a[2] * b[3] + a[1] * b[4]
    IN  <<Low(c00), Low(c16b), Low(c32c), Low(c48)>>

multiply(a, b) ==
    LET p == product(positive(a), positive(b))
    IN  CASE a = Zero \/ b = Zero -> Zero
          [] isNegative(a) # isNegative(b) -> negate(p)
          [] OTHER -> p

\* shiftLeft(): by whole parts, then within them
shiftLeft(a, numBits) ==
    LET pos == numBits \div PartBits
        r == numBits % PartBits
        At(i) == IF i - pos >= 1 THEN a[i - pos] ELSE 0
        Below(i) == IF i > 1 THEN At(i - 1) ELSE 0
    IN  IF numBits >= 4 * PartBits THEN Zero
        ELSE [i \in 1 .. 4 |-> Low(At(i) * 2^r + Below(i) \div 2^(PartBits - r))]

shiftRightUnsigned(a, numBits) ==
    LET pos == numBits \div PartBits
        r == numBits % PartBits
        At(i) == IF i + pos <= 4 THEN a[i + pos] ELSE 0
        Above(i) == IF i < 4 THEN At(i + 1) ELSE 0
    IN  IF numBits >= 4 * PartBits THEN Zero
        ELSE [i \in 1 .. 4 |-> At(i) \div 2^r + Low(Above(i) * 2^(PartBits - r))]

compareBits(a, b) ==
    LET differ == {i \in 1 .. 4 : a[i] # b[i]}
        top == CHOOSE i \in differ : \A j \in differ : j <= i
    IN  CASE differ = {} -> 0
          [] differ # {} /\ a[top] > b[top] -> 1
          [] OTHER -> -1

compare(a, b) ==
    CASE isNegative(a) /\ ~isNegative(b) -> -1
      [] ~isNegative(a) /\ isNegative(b) -> 1
      [] OTHER -> compareBits(a, b)

fromNatural(n) == <<Low(n), Low(n \div Base), Low(n \div Base^2), Low(n \div Base^3)>>
fromNumber(n) == IF n < 0 THEN negate(fromNatural(-n)) ELSE fromNatural(n)

RECURSIVE Chunks(_, _)
\* The loop of fromString()
Chunks(digits, result) ==
    IF digits = << >> THEN result
    ELSE LET size == IF Len(digits) < ChunkDigits THEN Len(digits) ELSE ChunkDigits
             value == FoldLeft(LAMBDA n, d : 10 * n + d, 0, SubSeq(digits, 1, size))
             next == add(multiply(result, fromNumber(10^size)), fromNumber(value))
         IN  Chunks(SubSeq(digits, size + 1, Len(digits)), next)

fromString(negative, digits) ==
    IF negative THEN negate(Chunks(digits, Zero)) ELSE Chunks(digits, Zero)

-----------------------------------------------------------------------------
\* The integer that the parts stand for, without and with its sign
Bits == 2^(4 * PartBits)
Unsigned(a) == a[1] + Base * (a[2] + Base * (a[3] + Base * a[4]))
Signed(a) == IF 2 * Unsigned(a) >= Bits THEN Unsigned(a) - Bits ELSE Unsigned(a)
=============================================================================
