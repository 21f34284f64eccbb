------------------------------- MODULE SprdUsb -------------------------------
(***************************************************************************)
(* The vocabulary host and phone share: the frames of the Spreadtrum BSL   *)
(* protocol (src/protocol.h) and the two bulk pipes of the USB interface.  *)
(* The pipes belong to the phone: what a timed-out program run leaves in   *)
(* them is still there when the next run of syber_usb opens the device.    *)
(*                                                                         *)
(* Contents of memories and files are counted in units; a unit is the size *)
(* of a frame without data (8 bytes), so that the lengths the receive loop *)
(* of sprd_upload adds up are small integers.                              *)
(***************************************************************************)
EXTENDS Integers, Sequences

CONSTANTS
  Partitions,   \* names of part_table that a run uses
  Files,        \* local files that "write" may be given
  FileLen,      \* units in each of them
  Capacity      \* units that a partition or an FDL load area holds

\* The load areas of the two boot stages (0x50000000 and 0x9f000000).
LoadAreas == {"fdl1", "fdl2"}

\* Everything on the phone that a download can fill.
Memories == Partitions \cup LoadAreas

\* The images shipped with the program, fdl1.bin and fdl2.bin.
Images == {"fdl1.bin", "fdl2.bin"}

ASSUME SprdUsbAssumption ==
  /\ Partitions \cap LoadAreas = {}
  /\ "none" \notin Memories
  /\ Files \cap Images = {} /\ "none" \notin Files
  /\ FileLen \in [Files -> Nat]
  /\ Capacity \in [Memories -> Nat]

\* One unit of contents, named by where it was produced and at which place.
Units == (Memories \cup Files \cup Images) \X Nat

\* The commands of sprd_cmd_type that the program sends, and the lone 0x7e of
\* sprd_version (SYNC). MALFORMED is the frame a download builds when read()
\* fails and its result, -1, is used as the length of the data.
Commands == {"SYNC", "CONNECT", "START_DATA", "MIDST_DATA", "END_DATA",
             "EXEC_DATA", "READ_FLASH_START", "READ_FLASH_MIDST",
             "READ_FLASH_END", "NORMAL_RESET", "POWER_DOWN", "MALFORMED"}

\* The replies the program tells apart. NAK stands for every other reply.
Replies == {"ACK", "VER", "READ_FLASH", "INCOMPATIBLE", "NAK"}

\* TYPE_CRC and TYPE_IPSUM, and "none" for the unframed SYNC byte.
ChecksumTypes == {"crc", "ip", "none"}

FrameRecords == [type : Commands \cup Replies, ck : ChecksumTypes,
                 part : Memories \cup {"none"}, off : Nat, n : Nat, data : Seq(Units)]

\* The data size field of a frame with data counts them.
Frames == {f \in FrameRecords :
             f.type \in {"MIDST_DATA", "READ_FLASH"} => Len(f.data) = f.n}

\* A frame without arguments (sprd_com_nodata, and most replies).
Bare(type, ck) ==
  [type |-> type, ck |-> ck, part |-> "none", off |-> 0, n |-> 0, data |-> <<>>]

\* Units a reply occupies once it is unescaped: header, checksum and end bytes,
\* and its data.
FrameLen(f) == 1 + f.n

VARIABLES
  attached,  \* the device answers on the bus
  toDev,     \* frames written to SPRD_ENDP_OUT and not yet taken by the phone
  toHost     \* frames the phone queued on SPRD_ENDP_IN and the host has not read

pipes == <<attached, toDev, toHost>>

PipesTypeOK ==
  /\ attached \in BOOLEAN
  /\ toDev \in Seq(Frames)
  /\ toHost \in Seq(Frames)

PipesInit == attached = TRUE /\ toDev = <<>> /\ toHost = <<>>

=============================================================================
