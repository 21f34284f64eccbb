------------------------------ MODULE SprdFrame ------------------------------
(***************************************************************************)
(* Frames as bytes: the two checksums (src/checksum.c), the layout of a    *)
(* frame (src/protocol.h), escaping (sprd_frame_exchange) and verification *)
(* (sprd_verify_frame) in src/main.c. Everything here is an operator;      *)
(* FrameStream and FrameRequests are the state machines that use them.     *)
(***************************************************************************)
EXTENDS Integers, Sequences, SequencesExt

SPRD_START_BYTE == \h7e
SPRD_END_BYTE == \h7e

BSL_CMD_CONNECT == 0
BSL_CMD_START_DATA == 1
BSL_CMD_MIDST_DATA == 2
BSL_CMD_END_DATA == 3
BSL_CMD_EXEC_DATA == 4
BSL_CMD_NORMAL_RESET == 5
BSL_CMD_READ_FLASH_START == \h10
BSL_CMD_READ_FLASH_MIDST == \h11
BSL_CMD_READ_FLASH_END == \h12
BSL_CMD_POWER_DOWN_TYPE == \h17
BSL_REP_ACK == \h80
BSL_REP_READ_FLASH == \h93

-----------------------------------------------------------------------------
(* Checksums *)

\* uint16_t
Word == 0..(2^16 - 1)

\* The value of a bit in which a and b differ, or 0.
Differ(a, b, bit) == bit * ((a \div bit + b \div bit) % 2)

\* The exclusive or of the lowest 16 bits.
Xor == [a \in Nat |-> [b \in Nat |->
  Differ(a, b, \h0001) + Differ(a, b, \h0002) + Differ(a, b, \h0004) + Differ(a, b, \h0008) +
  Differ(a, b, \h0010) + Differ(a, b, \h0020) + Differ(a, b, \h0040) + Differ(a, b, \h0080) +
  Differ(a, b, \h0100) + Differ(a, b, \h0200) + Differ(a, b, \h0400) + Differ(a, b, \h0800) +
  Differ(a, b, \h1000) + Differ(a, b, \h2000) + Differ(a, b, \h4000) + Differ(a, b, \h8000)]]

crc16_table == <<
  \h0000, \h1021, \h2042, \h3063, \h4084, \h50A5, \h60C6, \h70E7,
  \h8108, \h9129, \hA14A, \hB16B, \hC18C, \hD1AD, \hE1CE, \hF1EF,
  \h1231, \h0210, \h3273, \h2252, \h52B5, \h4294, \h72F7, \h62D6,
  \h9339, \h8318, \hB37B, \hA35A, \hD3BD, \hC39C, \hF3FF, \hE3DE,
  \h2462, \h3443, \h0420, \h1401, \h64E6, \h74C7, \h44A4, \h5485,
  \hA56A, \hB54B, \h8528, \h9509, \hE5EE, \hF5CF, \hC5AC, \hD58D,
  \h3653, \h2672, \h1611, \h0630, \h76D7, \h66F6, \h5695, \h46B4,
  \hB75B, \hA77A, \h9719, \h8738, \hF7DF, \hE7FE, \hD79D, \hC7BC,
  \h48C4, \h58E5, \h6886, \h78A7, \h0840, \h1861, \h2802, \h3823,
  \hC9CC, \hD9ED, \hE98E, \hF9AF, \h8948, \h9969, \hA90A, \hB92B,
  \h5AF5, \h4AD4, \h7AB7, \h6A96, \h1A71, \h0A50, \h3A33, \h2A12,
  \hDBFD, \hCBDC, \hFBBF, \hEB9E, \h9B79, \h8B58, \hBB3B, \hAB1A,
  \h6CA6, \h7C87, \h4CE4, \h5CC5, \h2C22, \h3C03, \h0C60, \h1C41,
  \hEDAE, \hFD8F, \hCDEC, \hDDCD, \hAD2A, \hBD0B, \h8D68, \h9D49,
  \h7E97, \h6EB6, \h5ED5, \h4EF4, \h3E13, \h2E32, \h1E51, \h0E70,
  \hFF9F, \hEFBE, \hDFDD, \hCFFC, \hBF1B, \hAF3A, \h9F59, \h8F78,
  \h9188, \h81A9, \hB1CA, \hA1EB, \hD10C, \hC12D, \hF14E, \hE16F,
  \h1080, \h00A1, \h30C2, \h20E3, \h5004, \h4025, \h7046, \h6067,
  \h83B9, \h9398, \hA3FB, \hB3DA, \hC33D, \hD31C, \hE37F, \hF35E,
  \h02B1, \h1290, \h22F3, \h32D2, \h4235, \h5214, \h6277, \h7256,
  \hB5EA, \hA5CB, \h95A8, \h8589, \hF56E, \hE54F, \hD52C, \hC50D,
  \h34E2, \h24C3, \h14A0, \h0481, \h7466, \h6447, \h5424, \h4405,
  \hA7DB, \hB7FA, \h8799, \h97B8, \hE75F, \hF77E, \hC71D, \hD73C,
  \h26D3, \h36F2, \h0691, \h16B0, \h6657, \h7676, \h4615, \h5634,
  \hD94C, \hC96D, \hF90E, \hE92F, \h99C8, \h89E9, \hB98A, \hA9AB,
  \h5844, \h4865, \h7806, \h6827, \h18C0, \h08E1, \h3882, \h28A3,
  \hCB7D, \hDB5C, \hEB3F, \hFB1E, \h8BF9, \h9BD8, \hABBB, \hBB9A,
  \h4A75, \h5A54, \h6A37, \h7A16, \h0AF1, \h1AD0, \h2AB3, \h3A92,
  \hFD2E, \hED0F, \hDD6C, \hCD4D, \hBDAA, \hAD8B, \h9DE8, \h8DC9,
  \h7C26, \h6C07, \h5C64, \h4C45, \h3CA2, \h2C83, \h1CE0, \h0CC1,
  \hEF1F, \hFF3E, \hCF5D, \hDF7C, \hAF9B, \hBFBA, \h8FD9, \h9FF8,
  \h6E17, \h7E36, \h4E55, \h5E74, \h2E93, \h3EB2, \h0ED1, \h1EF0 >>

\* Mutant: the form for a table of the other bit order.
crc16_byte_reflected(crc, data) ==
  Xor[crc \div 256][crc16_table[(Xor[crc][data] % 256) + 1]]

crc16_byte(crc, data) ==
  Xor[(crc * 256) % 2^16][crc16_table[(Xor[crc \div 256][data] % 256) + 1]]

crc16(crc, buffer) ==
  LET upto[i \in 0..Len(buffer)] ==
        IF i = 0 THEN crc ELSE crc16_byte(upto[i - 1], buffer[i])
  IN upto[Len(buffer)]

\* The sum of the little-endian words of the buffer and of its last odd byte.
WordSum(buffer) ==
  LET upto[i \in 0..Len(buffer)] ==
        IF i = 0 THEN 0 ELSE upto[i - 1] + buffer[i] * (IF i % 2 = 1 THEN 1 ELSE 256)
  IN upto[Len(buffer)]

\* The sum is folded to 16 bits, complemented, and its bytes exchanged.
ipcheck(buffer) ==
  LET fold(c) == (c \div 2^16) + (c % 2^16)
      once    == fold(WordSum(buffer))
      cksum   == (2^16 - 1) - ((once + once \div 2^16) % 2^16)
  IN (cksum \div 256) + (cksum % 256) * 256

\* Mutant: the type is not looked at.
checksum_ip(type, buffer) == ipcheck(buffer)

checksum(type, buffer) == IF type = "crc" THEN crc16(0, buffer) ELSE ipcheck(buffer)

-----------------------------------------------------------------------------
(* Frames *)

High(n) == (n \div 256) % 256
Low(n) == n % 256

\* A frame between its start and end bytes: type, data size, data and checksum.
Frame(type, cmd, data) ==
  LET body == <<0, cmd, High(Len(data)), Low(Len(data))>> \o data
      ck   == checksum(type, body)
  IN <<SPRD_START_BYTE>> \o body \o <<High(ck), Low(ck), SPRD_END_BYTE>>

\* Mutant: the end byte is not looked at.
sprd_verify_frame_no_end(type, frame) ==
  LET n == Len(frame)
  IN checksum(type, SubSeq(frame, 2, n - 3)) = frame[n - 2] * 256 + frame[n - 1]

\* Only frames of at least eight bytes, the size of one without data, get here.
sprd_verify_frame(type, frame) ==
  LET n == Len(frame)
  IN /\ frame[1] = SPRD_START_BYTE /\ frame[n] = SPRD_END_BYTE
     /\ checksum(type, SubSeq(frame, 2, n - 3)) = frame[n - 2] * 256 + frame[n - 1]

\* What is sent for byte i of src: the inner 0x7e and every 0x7d are escaped.
Escaped(src, i) ==
  CASE src[i] = \h7e /\ i \notin {1, Len(src)} -> <<\h7d, \h5e>>
    [] src[i] = \h7d -> <<\h7d, \h5d>>
    [] OTHER -> <<src[i]>>

\* sprd_frame_exchange, dir = 0.
Escape(src) ==
  LET upto[i \in 0..Len(src)] == IF i = 0 THEN <<>> ELSE upto[i - 1] \o Escaped(src, i)
  IN upto[Len(src)]

\* The byte that 0x7d and b stand for: none when b is neither 0x5e nor 0x5d.
Unescaped(b) == CASE b = \h5e -> <<\h7e>> [] b = \h5d -> <<\h7d>> [] OTHER -> <<>>

\* One byte more: out is what the bytes before it stand for, esc that the last was 0x7d.
UnescapeByte(was, b) ==
  CASE was.esc -> [out |-> was.out \o Unescaped(b), esc |-> FALSE]
    [] ~was.esc /\ b = \h7d -> [out |-> was.out, esc |-> TRUE]
    [] OTHER -> [out |-> was.out \o <<b>>, esc |-> FALSE]

\* sprd_frame_exchange, dir = 1. When the last byte is 0x7d, the byte beyond the
\* source is looked at.
Unescape(src, beyond) ==
  LET upto[i \in 0..Len(src)] ==
        IF i = 0 THEN [out |-> <<>>, esc |-> FALSE] ELSE UnescapeByte(upto[i - 1], src[i])
      done == upto[Len(src)]
  IN done.out \o (IF done.esc THEN Unescaped(beyond) ELSE <<>>)

\* A frame says command cmd with the data, of the size it gives.
Says(frame, type, cmd, data) ==
  /\ sprd_verify_frame(type, frame)
  /\ frame[3] = cmd
  /\ frame[4] * 256 + frame[5] = Len(frame) - 8
  /\ SubSeq(frame, 6, Len(frame) - 3) = data

\* The phone cuts the stream at 0x7e, unescapes, verifies and reads the fields.
UnderstoodAs(wire, type, cmd, data) ==
  /\ \A i \in 2..(Len(wire) - 1) : wire[i] # \h7e
  /\ Says(Unescape(wire, 0), type, cmd, data)

=============================================================================
