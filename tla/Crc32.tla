------------------------------- MODULE Crc32 -------------------------------
(***************************************************************************)
(* The checksum that script/compute_checksums.py takes of a section:       *)
(* zlib.crc32(data) & 0xFFFFFFFF, the reflected CRC-32 of zlib (generator  *)
(* 0xEDB88320, register preset to all ones, result complemented).          *)
(*                                                                         *)
(* TLC integers are 32-bit signed, so a 32-bit word is represented by the  *)
(* set of the positions of its 1 bits; XOR is symmetric difference.        *)
(***************************************************************************)
EXTENDS Naturals, Sequences, SequencesExt

Byte == 0..255

\* A 32-bit unsigned word, as the set of its 1 bits.
Word == SUBSET (0..31)

\* The 1 bits of a byte.
ByteBits(b) == {j \in 0..7 : (b \div 2^j) % 2 = 1}

\* 0xEDB88320, the bit-reversed CRC-32 generator polynomial.
CrcPoly == {5, 8, 9, 15, 19, 20, 21, 23, 24, 26, 27, 29, 30, 31}

\* One step of the shift register: shift right, XOR the generator if a 1
\* bit fell out.
CrcShift(r) ==
    LET s == {i - 1 : i \in r \ {0}}
    IN  IF 0 \in r THEN SymDiff(s, CrcPoly) ELSE s

\* n shifts.  A top-level function, so that its argument is evaluated
\* once, however often the body uses it.
CrcShiftN[r \in Word, n \in Nat] == IF n = 0 THEN r ELSE CrcShiftN[CrcShift(r), n - 1]

\* Feed one byte into the register.
CrcByte(r, b) == CrcShiftN[SymDiff(r, ByteBits(b)), 8]

\* The register after the bytes of data, from preset p: a left fold.
CrcFold[p \in Word, data \in Seq(Byte)] ==
    IF data = <<>> THEN p ELSE CrcByte(CrcFold[p, Front(data)], Last(data))

\* Mutant: the register preset to zero instead of all ones.
Crc32ZeroPreset(data) == (0..31) \ CrcFold[{}, data]

\* zlib.crc32(data) & 0xFFFFFFFF.  The mask is the identity on a Word.
Crc32(data) == (0..31) \ CrcFold[0..31, data]

=============================================================================
