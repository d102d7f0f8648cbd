-------------------------------- MODULE Codec --------------------------------
(***************************************************************************)
(* Laying values out in 16-bit registers (codec.py).  Word order and byte  *)
(* order are settings of every source section and output map, and all four *)
(* combinations occur in the field.                                        *)
(*                                                                         *)
(* A register is a pair of bytes, high byte first, and a byte is a digit   *)
(* in base Base.  A float32 is its four bytes, most significant first.     *)
(***************************************************************************)
EXTENDS Integers, Sequences, SequencesExt

CONSTANTS Base      \* 256 in the code

ASSUME BaseIsEven == Base \in Nat /\ Base >= 2 /\ Base % 2 = 0

\* INT_DTYPES: registers and signedness.
IntDtype ==
    [u16 |-> [count |-> 1, signed |-> FALSE], i16 |-> [count |-> 1, signed |-> TRUE],
     u32 |-> [count |-> 2, signed |-> FALSE], i32 |-> [count |-> 2, signed |-> TRUE],
     u64 |-> [count |-> 4, signed |-> FALSE], i64 |-> [count |-> 4, signed |-> TRUE]]

RegisterWidth(dtype) == IF dtype = "float32" THEN 2 ELSE IntDtype[dtype].count

\* _word_bytes and _bytes_word, each its own inverse.
WordBytes(register, byteOrder) ==
    IF byteOrder = "big" THEN register ELSE <<register[2], register[1]>>
BytesWord(pair, byteOrder) ==
    IF byteOrder = "big" THEN pair ELSE <<pair[2], pair[1]>>

RegistersToFloat(regs, wordOrder, byteOrder) ==
    LET hi == WordBytes(IF wordOrder = "big" THEN regs[1] ELSE regs[2], byteOrder)
        lo == WordBytes(IF wordOrder = "big" THEN regs[2] ELSE regs[1], byteOrder)
    IN <<hi[1], hi[2], lo[1], lo[2]>>

FloatToRegisters(raw, wordOrder, byteOrder) ==
    LET hi == BytesWord(<<raw[1], raw[2]>>, byteOrder)
        lo == BytesWord(<<raw[3], raw[4]>>, byteOrder)
    IN IF wordOrder = "big" THEN <<hi, lo>> ELSE <<lo, hi>>

\* Mutant of EncodePoint: the second register is taken for the low word.
EncodeZeroSecond(raw, wordOrder, byteOrder, zeroLowWord) ==
    LET regs == FloatToRegisters(raw, wordOrder, byteOrder)
    IN IF zeroLowWord THEN [regs EXCEPT ![2] = <<0, 0>>] ELSE regs

\* encode_point; coarse energy aliases expose the high word only.
EncodePoint(raw, wordOrder, byteOrder, zeroLowWord) ==
    LET regs == FloatToRegisters(raw, wordOrder, byteOrder)
        lowIndex == IF wordOrder = "big" THEN 2 ELSE 1
    IN IF zeroLowWord THEN [regs EXCEPT ![lowIndex] = <<0, 0>>] ELSE regs

\* Base to the power of n.
OneMoreDigit(number, i) == number * Base
Power(n) == FoldLeft(OneMoreDigit, 1, [i \in 1 .. n |-> i])

\* One register as a number, and one more of them appended to a number.
Word(register, byteOrder) ==
    LET bytes == WordBytes(register, byteOrder) IN bytes[1] * Base + bytes[2]
OneMoreWord(number, word) == number * Base * Base + word

\* int.from_bytes of the words, two's complement where signed.
FromWords(words, byteOrder, signed) ==
    LET unsigned == FoldLeft(OneMoreWord, 0, [i \in DOMAIN words |-> Word(words[i], byteOrder)])
        range    == Power(2 * Len(words))
    IN IF signed /\ unsigned >= range \div 2 THEN unsigned - range ELSE unsigned

\* Mutant of RegistersToInt: the whole value is reversed, words and bytes.
RegistersToIntBytewise(regs, dtype, wordOrder, byteOrder) ==
    LET swapped == [i \in DOMAIN regs |-> <<regs[i][2], regs[i][1]>>]
    IN FromWords(IF wordOrder = "big" THEN regs ELSE Reverse(swapped),
                 byteOrder, IntDtype[dtype].signed)

RegistersToInt(regs, dtype, wordOrder, byteOrder) ==
    FromWords(IF wordOrder = "big" THEN regs ELSE Reverse(regs),
              byteOrder, IntDtype[dtype].signed)

\* Numbers a type can tell apart.
Span(dtype) == Power(2 * IntDtype[dtype].count)

\* The numbers of a type.
Least(dtype) == IF IntDtype[dtype].signed THEN 0 - Span(dtype) \div 2 ELSE 0
Greatest(dtype) == IF IntDtype[dtype].signed THEN Span(dtype) \div 2 - 1 ELSE Span(dtype) - 1

\* The type maximum marks a channel that is not available.
IntSentinel(dtype) ==
    IF IntDtype[dtype].signed THEN Span(dtype) \div 2 - 1 ELSE Span(dtype) - 1

IntIsInvalid(raw, dtype) == raw = IntSentinel(dtype)

-----------------------------------------------------------------------------
(* External: where a device puts the bytes of an integer.                  *)

\* The significance of byte j of register i, the most significant being 0.
Significance(i, j, count, wordOrder, byteOrder) ==
    2 * (IF wordOrder = "big" THEN i - 1 ELSE count - i)
      + (IF byteOrder = "big" THEN j - 1 ELSE 2 - j)

DeviceRegisters(value, dtype, wordOrder, byteOrder) ==
    LET n == IntDtype[dtype].count
        digit(k) == ((value % Power(2 * n)) \div Power(2 * n - 1 - k)) % Base
    IN [i \in 1 .. n |-> [j \in 1 .. 2 |-> digit(Significance(i, j, n, wordOrder, byteOrder))]]
=============================================================================
