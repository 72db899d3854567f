------------------------------- MODULE Bytes -------------------------------
(***************************************************************************)
(* Buffers as the driver's codecs use them: sequences of bytes, read and   *)
(* written big-endian in two's complement.  Everything is parameterised by *)
(* the number of bits in a byte.  With 8 bits the widths are those of the  *)
(* driver (short 2, int 4, long 8 bytes); with 4 bits every width scales   *)
(* with the byte (short 1, int 2, long 4 bytes), the codecs keep every     *)
(* boundary they have, and every integer fits the model checker.           *)
(***************************************************************************)
EXTENDS Integers, Sequences

CONSTANT ByteBits

ASSUME ByteBitsAssumption == ByteBits \in {4, 8}

Base       == 2 ^ ByteBits
Byte       == 0 .. Base - 1
SignBit    == Base \div 2
ShortBytes == ByteBits \div 4
IntBytes   == ByteBits \div 2
LongBytes  == ByteBits

\* The low `len` bytes of n, in two's complement (Buffer.write*BE).
Digits(n, len) == [i \in 1 .. len |-> (n \div Base ^ (len - i)) % Base]

\* Buffer.readUInt*BE of a whole buffer.
UInt(buf) ==
    LET f[i \in 0 .. Len(buf)] ==
            IF i = 0 THEN 0 ELSE f[i - 1] * Base + buf[i]
    IN  f[Len(buf)]

\* Buffer.readInt*BE of a whole buffer.
SInt(buf) ==
    UInt(buf) - (IF buf[1] >= SignBit THEN Base ^ Len(buf) ELSE 0)

\* n reduced to a signed integer of `len` bytes (`| 0` for an int).
Wrap(n, len) ==
    LET u == n % Base ^ len
    IN  IF u >= Base ^ len \div 2 THEN u - Base ^ len ELSE u

FitsSigned(n, len) == n = Wrap(n, len)
FitsUnsigned(n, len) == n \in 0 .. Base ^ len - 1

\* Buffer.slice(offset, offset + len): clipped at the end of the buffer.
Slice(buf, offset, len) ==
    SubSeq(buf, offset + 1,
           IF offset + len > Len(buf) THEN Len(buf) ELSE offset + len)

\* n.toString(2).length for n >= 0.
BitLength(n) == CHOOSE k \in 1 .. 31 : /\ n < 2 ^ k
                                       /\ k = 1 \/ n >= 2 ^ (k - 1)

-----------------------------------------------------------------------------
(* utils.VIntCoding (lib/utils.js): integers written in as few bytes as    *)
(* they need.  The number of leading ones of the first byte is the number  *)
(* of bytes that follow.  The signed form carries the three parts of a     *)
(* duration, the unsigned form the size of a vector's elements.            *)


LongBits == LongBytes * ByteBits

\* The byte with `n` leading ones and zeros after them.
encodeExtraBytesToRead(n) == Base - 2 ^ (ByteBits - n)

\* numberOfLeadingZerosInt32(~firstByte) - 24: the leading ones of a byte.
numberOfExtraBytesToRead(first) ==
    IF first = Base - 1 THEN ByteBits ELSE ByteBits - BitLength(Base - 1 - first)

encodeZigZag64(n) == IF n >= 0 THEN 2 * n ELSE -2 * n - 1
decodeZigZag64(n) == IF n % 2 = 0 THEN n \div 2 ELSE -(n \div 2) - 1

\* (639 - magnitude * 9) >> 6 for longs of 64 bits.
computeUnsignedVIntSize(value) ==
    LET magnitude == LongBits - BitLength(value)
    IN  (LongBits * (ByteBits + 2) - 1 - magnitude * (ByteBits + 1)) \div LongBits

writeVInt(n) ==
    LET value == encodeZigZag64(n)
        size  == computeUnsignedVIntSize(value)
        bytes == Digits(value, size)
    IN  IF size = 1 THEN <<value>>
        ELSE [bytes EXCEPT ![1] = @ + encodeExtraBytesToRead(size - 1)]

\* Reads a value at `offset` (bytes before it); the offset moves past it.
readVInt(buf, offset) ==
    LET first == buf[offset + 1]
        extra == IF first < SignBit THEN 0 ELSE numberOfExtraBytesToRead(first)
        head  == first % 2 ^ (ByteBits - extra)
    IN  [value  |-> decodeZigZag64(UInt(<<head>> \o Slice(buf, offset + 1, extra))),
         offset |-> offset + 1 + extra]

\* The bytes that follow the first one, added until the rest of the value
\* fits beside the leading ones.
uvintExtraBytes(val) ==
    LET Fits(e) == BitLength(val) - ByteBits * e
                     <= ByteBits - (IF e + 1 < ByteBits THEN e + 1 ELSE ByteBits)
    IN  CHOOSE e \in 0 .. ByteBits : Fits(e) /\ \A d \in 0 .. e - 1 : ~Fits(d)

uvintPack(val) ==
    IF val < SignBit THEN <<val>>
    ELSE LET extra == uvintExtraBytes(val)
             bytes == Digits(val, extra + 1)
         IN  [bytes EXCEPT ![1] = @ + encodeExtraBytesToRead(extra)]

\* The leading ones are counted with toString(2), for which zero has one digit.
uvintUnpack(buf, offset) ==
    LET first == buf[offset + 1]
        extra == IF first < SignBit THEN 0 ELSE ByteBits - BitLength(Base - 1 - first)
        head  == first % 2 ^ (ByteBits - extra)
    IN  [value  |-> UInt(<<head>> \o Slice(buf, offset + 1, extra)),
         offset |-> offset + 1 + extra]
=============================================================================
