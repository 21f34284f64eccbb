----------------------------- MODULE FrameStream -----------------------------
(***************************************************************************)
(* The receive loop of sprd_upload, USB_disk_read and blockdev_bread, byte *)
(* by byte: one READ_FLASH reply arrives in packets cut anywhere, also in  *)
(* the middle of an escape, or a part of it is lost or damaged on the way. *)
(***************************************************************************)
EXTENDS SprdFrame

CONSTANTS
  Alphabet,    \* bytes of the data
  MaxData,     \* bytes asked for, at most
  Damage       \* what a damaged byte turns into

ASSUME FrameStreamAssumption ==
  Alphabet \subseteq 0..255 /\ Damage \subseteq 0..255 /\ MaxData \in Nat

VARIABLES
  type,         \* checksum_type
  frame,        \* the reply, before the phone escaped it
  wire,         \* bytes of it still to arrive
  faulty,       \* something was lost or damaged
  s_buffer,     \* bytes received since the last call of sprd_frame_exchange
  data_buffer,  \* bytes unescaped so far
  result        \* of the loop: "none" while it runs

vars == <<type, frame, wire, faulty, s_buffer, data_buffer, result>>

Init ==
  /\ type \in {"crc", "ip"}
  /\ \E data \in BoundedSeq(Alphabet, MaxData) : frame = Frame(type, BSL_REP_READ_FLASH, data)
  /\ wire = Escape(frame)
  /\ faulty = FALSE
  /\ s_buffer = <<>> /\ data_buffer = <<>> /\ result = "none"

\* Mutant: whatever came is unescaped at once.
ContinuesNever(chunk, junk) == FALSE

\* "last byte maybe 0x7d": then the loop receives the rest of the escape first. After
\* an empty packet the byte before s_buffer is looked at, and may be anything.
Continues(chunk, junk) == IF chunk = <<>> THEN junk ELSE Last(chunk) = \h7d

\* What the host makes of the s_size + 8 bytes it has waited for.
Verdict(buffer) ==
  IF sprd_verify_frame(type, buffer) /\ buffer[3] = BSL_REP_READ_FLASH THEN "ok" ELSE "bad"

\* sprd_usb_receive returns n bytes.
Receive(n) ==
  /\ result = "none" /\ wire # <<>>
  /\ wire' = SubSeq(wire, n + 1, Len(wire))
  /\ \E chunk \in {s_buffer \o SubSeq(wire, 1, n)}, junk \in BOOLEAN :
       IF Continues(chunk, junk)
       THEN s_buffer' = chunk /\ UNCHANGED <<data_buffer, result>>
       ELSE /\ s_buffer' = <<>>
            /\ \E buffer \in {data_buffer \o Unescape(chunk, 0)} :
                 /\ data_buffer' = buffer
                 /\ result' = IF Len(buffer) = Len(frame) THEN Verdict(buffer) ELSE "none"
  /\ UNCHANGED <<type, frame, faulty>>

\* Mutant: the loop waits on when it has got too much.
TimeoutOnlyShort ==
  /\ result = "none" /\ wire = <<>> /\ Len(data_buffer) < Len(frame)
  /\ result' = "timeout"
  /\ UNCHANGED <<type, frame, wire, faulty, s_buffer, data_buffer>>

\* sprd_usb_receive returns an error: nothing more came within 200 ms.
Timeout ==
  /\ result = "none" /\ wire = <<>>
  /\ result' = "timeout"
  /\ UNCHANGED <<type, frame, wire, faulty, s_buffer, data_buffer>>

\* A packet is lost, or one byte arrives as another. When it happens makes no
\* difference to the host.
Fault ==
  /\ ~faulty /\ faulty' = TRUE
  /\ s_buffer = <<>> /\ data_buffer = <<>> /\ result = "none"
  /\ \/ \E i, j \in 1..Len(wire) :
          i <= j /\ wire' = SubSeq(wire, 1, i - 1) \o SubSeq(wire, j + 1, Len(wire))
     \/ \E i \in 1..Len(wire), b \in Damage :
          b # wire[i] /\ wire' = [wire EXCEPT ![i] = b]
  /\ UNCHANGED <<type, frame, s_buffer, data_buffer, result>>

Next == (\E n \in 0..Len(wire) : Receive(n)) \/ Timeout \/ Fault

\* Every call of sprd_usb_receive returns.
Spec == Init /\ [][Next]_vars /\ WF_vars(Next)

-----------------------------------------------------------------------------

\* However the reply is cut into packets, the loop ends with exactly the bytes that
\* the phone sent: the count reaches s_size + 8 at the end byte and not elsewhere.
Reassembly ==
  ~faulty =>
    /\ IsPrefix(data_buffer, frame)
    /\ result # "none" => result = "ok" /\ data_buffer = frame

\* A reply that lost a packet or a byte is never taken for a good one.
NoSilentDamage == result = "ok" => data_buffer = frame

\* The loop ends, also when the bytes that came are more than s_size + 8.
LoopEnds == <>(result # "none")

=============================================================================
