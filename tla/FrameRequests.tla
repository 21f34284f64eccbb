---------------------------- MODULE FrameRequests ----------------------------
(***************************************************************************)
(* The requests as bytes: every function of the program that builds one,   *)
(* with the escaping it does or leaves out, and the three that are written *)
(* down as arrays of bytes. The phone must get back what was meant.        *)
(***************************************************************************)
EXTENDS CrcDivision

CONSTANTS
  Words,       \* uint32_t values, as their bytes from the lowest
  Chunks       \* data of MIDST_DATA frames

ASSUME FrameRequestsAssumption ==
  /\ Words \subseteq [1..4 -> 0..255]
  /\ \A c \in Chunks : c \in Seq(0..255) /\ Len(c) < 2^16

VARIABLES
  type, cmd, data,  \* what the program wants to say: checksum type, command and data
  wire              \* what it sends; empty between two requests

vars == <<type, cmd, data, wire>>

Zeros(n) == [i \in 1..n |-> 0]

\* Names of part_table, in ASCII.
Names == [boot       |-> <<98, 111, 111, 116>>,
          data       |-> <<100, 97, 116, 97>>,
          syberfs    |-> <<115, 121, 98, 101, 114, 102, 115>>,
          internalsd |-> <<105, 110, 116, 101, 114, 110, 97, 108, 115, 100>>,
          l_fixnv1   |-> <<108, 95, 102, 105, 120, 110, 118, 49>>]

\* A partition name as it is sent: two bytes a character, in 72 bytes.
Wide(name) ==
  [i \in 1..72 |-> IF i % 2 = 1 /\ (i + 1) \div 2 <= Len(name) THEN name[(i + 1) \div 2] ELSE 0]

MaxSize == <<\hff, \hff, \hff, \hff>>

\* The program means command c with data d and sends the bytes w.
Send(t, c, d, w) == wire = <<>> /\ type' = t /\ cmd' = c /\ data' = d /\ wire' = w

SendPlain(t, c, d) == Send(t, c, d, Frame(t, c, d))
SendEscaped(t, c, d) == Send(t, c, d, Escape(Frame(t, c, d)))

\* sprd_com_nodata, which does not escape.
sprd_com_nodata(t, c) == SendPlain(t, c, <<>>)

NoDataCommands == {BSL_CMD_CONNECT, BSL_CMD_END_DATA, BSL_CMD_EXEC_DATA, BSL_CMD_NORMAL_RESET,
                   BSL_CMD_READ_FLASH_END, BSL_CMD_POWER_DOWN_TYPE}

\* START_DATA of sprd_download, not escaped either: the load address and the size of
\* the image, highest byte first.
Image == [fdl1 |-> [type |-> "crc", addr |-> <<\h50, 0, 0, 0>>, size |-> <<0, 0, \h50, \h9d>>],
          fdl2 |-> [type |-> "ip", addr |-> <<\h9f, 0, 0, 0>>, size |-> <<0, \h06, \h99, \h88>>]]

DownloadStart(f) == SendPlain(Image[f].type, BSL_CMD_START_DATA, Image[f].addr \o Image[f].size)

\* START_DATA of sprd_download_partition. For l_fixnv1 the sum of the file follows.
PartitionStart(name, size, sum) ==
  SendEscaped("ip", BSL_CMD_START_DATA,
              Wide(Names[name]) \o size \o (IF name = "l_fixnv1" THEN sum ELSE <<>>))

\* READ_FLASH_START of sprd_upload.
UploadStart(name) == SendEscaped("ip", BSL_CMD_READ_FLASH_START, Wide(Names[name]) \o MaxSize)

\* Mutant: the offset first, then the size.
ReadMidstSwapped(size, offset) ==
  Send("ip", BSL_CMD_READ_FLASH_MIDST, size \o offset,
       Escape(Frame("ip", BSL_CMD_READ_FLASH_MIDST, offset \o size)))

\* READ_FLASH_MIDST of sprd_upload, USB_disk_read and blockdev_bread.
ReadMidst(size, offset) == SendEscaped("ip", BSL_CMD_READ_FLASH_MIDST, size \o offset)

\* MIDST_DATA of both downloads.
MidstData(t, chunk) == SendEscaped(t, BSL_CMD_MIDST_DATA, chunk)

\* The arrays of USB_disk_initialize and blockdev_open, "no 0x7e 0x7d".
internalsd_partition ==
  <<\h7e, \h00, \h10, \h00, \h4c, \h69, \h00, \h6e, \h00, \h74, \h00, \h65,
    \h00, \h72, \h00, \h6e, \h00, \h61, \h00, \h6c, \h00, \h73, \h00, \h64>> \o Zeros(53) \o
  <<\hff, \hff, \hff, \hff, \hcb, \h9f, \h7e>>

syberfs_partition ==
  <<\h7e, \h00, \h10, \h00, \h4c, \h73, \h00, \h79, \h00, \h62, \h00, \h65,
    \h00, \h72, \h00, \h66, \h00, \h73>> \o Zeros(59) \o
  <<\hff, \hff, \hff, \hff, \h01, \ha1, \h7e>>

data_partition ==
  <<\h7e, \h00, \h10, \h00, \h4c, \h64, \h00, \h61, \h00, \h74, \h00, \h61>> \o Zeros(65) \o
  <<\hff, \hff, \hff, \hff, \h65, \ha2, \h7e>>

OpenArrays == [internalsd |-> internalsd_partition, syberfs |-> syberfs_partition,
               data |-> data_partition]

\* USB_disk_initialize and blockdev_open send what sprd_upload would have built.
OpenDevice(name) ==
  Send("ip", BSL_CMD_READ_FLASH_START, Wide(Names[name]) \o MaxSize, OpenArrays[name])

\* The frame is on its way.
Sent == wire # <<>> /\ wire' = <<>> /\ UNCHANGED <<type, cmd, data>>

Init == type = "crc" /\ cmd = BSL_CMD_CONNECT /\ data = <<>> /\ wire = <<>>

Next ==
  \/ \E t \in {"crc", "ip"}, c \in NoDataCommands : sprd_com_nodata(t, c)
  \/ \E f \in DOMAIN Image : DownloadStart(f)
  \/ \E name \in DOMAIN Names, size, sum \in Words : PartitionStart(name, size, sum)
  \/ \E name \in DOMAIN Names : UploadStart(name)
  \/ \E size, offset \in Words : ReadMidst(size, offset)
  \/ \E t \in {"crc", "ip"}, chunk \in Chunks : MidstData(t, chunk)
  \/ \E name \in DOMAIN OpenArrays : OpenDevice(name)
  \/ Sent

Spec == Init /\ [][Next]_vars

-----------------------------------------------------------------------------

\* The phone cuts the stream at 0x7e, unescapes, verifies and reads the fields: it gets
\* the command and the data that were meant, also from the functions that do not escape
\* and from the arrays.
Understood == wire # <<>> => UnderstoodAs(wire, type, cmd, data)

\* No request is understood by the stage that expects the other checksum.
NotMistaken ==
  wire # <<>> =>
    ~sprd_verify_frame(IF type = "crc" THEN "ip" ELSE "crc", Unescape(wire, 0))

\* The CRC of every request is the remainder of its division by the polynomial, bit by
\* bit: the entries of crc16_table are right, and the shifts around the look-up too.
CrcIsDivision ==
  wire # <<>> /\ type = "crc" =>
    LET frame == Unescape(wire, 0)
        n     == Len(frame)
    IN Remainder(SubSeq(frame, 2, n - 3)) = frame[n - 2] * 256 + frame[n - 1]

=============================================================================
