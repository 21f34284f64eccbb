----------------------------- MODULE CrcDivision -----------------------------
(***************************************************************************)
(* The table-driven CRC-16 of src/checksum.h against its definition, the   *)
(* division of the message by a polynomial over GF(2), bit by bit.         *)
(***************************************************************************)
EXTENDS SprdFrame

\* The divisor x^16 + x^12 + x^5 + 1 without its highest term.
Poly == \h1021

\* One step of the long division.
Divide(rest) == IF rest >= 2^15 THEN Xor[(rest * 2) % 2^16][Poly] ELSE rest * 2

\* What the division leaves of a byte that follows the remainder crc.
ByteRemainder(crc, byte) ==
  LET after[bits \in 0..8] == IF bits = 0 THEN Xor[crc][byte * 256] ELSE Divide(after[bits - 1])
  IN after[8]

\* What it leaves of the whole message.
Remainder(message) ==
  LET upto[i \in 0..Len(message)] ==
        IF i = 0 THEN 0 ELSE ByteRemainder(upto[i - 1], message[i])
  IN upto[Len(message)]

=============================================================================
