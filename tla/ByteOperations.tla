--------------------------- MODULE ByteOperations ---------------------------
(***************************************************************************)
(* Words in a report (src/ByteOperations.cpp): the least significant byte  *)
(* first, with indices from 0 as in the code.  Byte is 256 on the board.   *)
(***************************************************************************)
EXTENDS Integers, Sequences

CONSTANT Byte

ASSUME ByteAssumption == Byte \in Nat \ {0, 1}

\* Shifting right and masking; of a negative number this is the two's complement.
ByteOf(v, shift) == (v \div shift) % Byte

write_16_to_8(v) == << ByteOf(v, 1), ByteOf(v, Byte) >>

write_32_to_8(v) == << ByteOf(v, 1), ByteOf(v, Byte),
                       ByteOf(v, Byte * Byte), ByteOf(v, Byte * Byte * Byte) >>

\* The bytes at i + 1 ... of a sequence, read as an unsigned number.
read_8_to_16(s, i) == s[i + 1] + s[i + 2] * Byte

read_8_to_32(s, i) == read_8_to_16(s, i) + read_8_to_16(s, i + 2) * Byte * Byte
=============================================================================
