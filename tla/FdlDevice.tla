------------------------------ MODULE FdlDevice ------------------------------
(***************************************************************************)
(* The phone: boot ROM, FDL1 and FDL2. Its firmware is not part of the     *)
(* repository (fdl1.bin and fdl2.bin are blobs); this is what the program  *)
(* takes for granted about it, with every answer it prepares for left      *)
(* possible. One action takes one request and queues its answer.           *)
(***************************************************************************)
EXTENDS SprdUsb

VARIABLES
  dev,   \* what the phone is doing
  mem,   \* contents of partitions and load areas
  naks   \* failures the phone may still report: a bound on the model

DevRecords ==
  [stage  : {"bootrom", "fdl1", "fdl2", "off"},
   synced : BOOLEAN,                     \* the first 0x7e has been answered
   mode   : {"idle", "down", "read"},    \* which transfer is open
   target : Memories \cup {"none"},
   size   : Nat, fill : Nat,
   loaded : SUBSET LoadAreas]            \* images downloaded to the end

DevTypeOK ==
  /\ dev \in DevRecords
  /\ dev.mode # "idle" => dev.target \in Memories
  /\ dev.mode = "down" => dev.size <= Capacity[dev.target]
  /\ DOMAIN mem = Memories
  /\ \A t \in Memories : mem[t] \in [1..Capacity[t] -> Units]
  /\ naks \in Nat

\* The phone as it enters download mode, or as a "ready" left it.
DevInit(stage, maxNaks) ==
  /\ dev = [stage |-> stage, synced |-> stage # "bootrom", mode |-> "idle",
            target |-> "none", size |-> 0, fill |-> 0,
            loaded |-> IF stage = "bootrom" THEN {} ELSE LoadAreas]
  /\ mem = [t \in Memories |-> [i \in 1..Capacity[t] |-> <<t, i>>]]
  /\ naks = maxNaks

\* The boot ROM checks CRC-16, both FDLs the IP checksum.
DevChecksum == IF dev.stage = "bootrom" THEN "crc" ELSE "ip"

\* Whether the running stage may write memory t.
Writable(t) == CASE dev.stage = "bootrom" -> t = "fdl1"
                 [] dev.stage = "fdl1"    -> t = "fdl2"
                 [] dev.stage = "fdl2"    -> t \in Partitions
                 [] OTHER                 -> FALSE

Request == Head(toDev)

\* The phone takes a request of the given type, framed with its own checksum.
Serve(type) ==
  /\ attached
  /\ toDev # <<>>
  /\ Request.type = type
  /\ Request.ck \in {"none", DevChecksum}
  /\ toDev' = Tail(toDev)

Answer(type) == toHost' = Append(toHost, Bare(type, DevChecksum))

\* "phone ack only first commication (check_baudrate)"
DevSync ==
  /\ Serve("SYNC")
  /\ IF dev.synced THEN UNCHANGED toHost ELSE Answer("VER")
  /\ dev' = [dev EXCEPT !.synced = TRUE]
  /\ UNCHANGED <<attached, mem, naks>>

DevConnect == Serve("CONNECT") /\ Answer("ACK") /\ UNCHANGED <<attached, dev, mem, naks>>

\* A frame that does not verify under the phone's checksum, or is cut short.
DevVerifyError ==
  /\ attached
  /\ toDev # <<>>
  /\ \/ Request.ck \notin {"none", DevChecksum}
     \/ Request.type = "MALFORMED"
  /\ toDev' = Tail(toDev)
  /\ Answer("NAK")
  /\ UNCHANGED <<attached, dev, mem, naks>>

\* A download may be opened over one that an earlier run left unfinished.
DevStartData ==
  /\ Serve("START_DATA")
  /\ IF Writable(Request.part) /\ Request.n <= Capacity[Request.part]
     THEN /\ Answer("ACK")
          /\ dev' = [dev EXCEPT !.mode = "down", !.target = Request.part,
                                !.size = Request.n, !.fill = 0,
                                !.loaded = @ \ {Request.part}]
     ELSE Answer("NAK") /\ UNCHANGED dev
  /\ UNCHANGED <<attached, mem, naks>>

DevMidstData ==
  /\ Serve("MIDST_DATA")
  /\ IF dev.mode = "down" /\ dev.fill + Request.n <= dev.size
     THEN /\ Answer("ACK")
          /\ dev' = [dev EXCEPT !.fill = @ + Request.n]
          /\ mem' = [mem EXCEPT ![dev.target] =
               [i \in 1..Capacity[dev.target] |->
                  IF i \in (dev.fill + 1)..(dev.fill + Request.n)
                  THEN Request.data[i - dev.fill] ELSE mem[dev.target][i]]]
     ELSE Answer("NAK") /\ UNCHANGED <<dev, mem>>
  /\ UNCHANGED <<attached, naks>>

DevEndData ==
  /\ Serve("END_DATA")
  /\ IF dev.mode = "down" /\ dev.fill = dev.size
     THEN /\ Answer("ACK")
          /\ dev' = [dev EXCEPT !.mode = "idle",
                                !.loaded = @ \cup ({dev.target} \cap LoadAreas)]
     ELSE Answer("NAK") /\ UNCHANGED dev
  /\ UNCHANGED <<attached, mem, naks>>

\* The loaded image takes over; FDL2 may report an incompatible partition table.
DevExecData ==
  /\ Serve("EXEC_DATA")
  /\ \/ /\ dev.stage = "bootrom" /\ "fdl1" \in dev.loaded
        /\ Answer("ACK")
        /\ dev' = [dev EXCEPT !.stage = "fdl1", !.synced = FALSE, !.mode = "idle"]
     \/ /\ dev.stage = "fdl1" /\ "fdl2" \in dev.loaded
        /\ \E t \in {"ACK", "INCOMPATIBLE"} : Answer(t)
        /\ dev' = [dev EXCEPT !.stage = "fdl2", !.mode = "idle"]
     \/ /\ ~(dev.stage = "bootrom" /\ "fdl1" \in dev.loaded)
        /\ ~(dev.stage = "fdl1" /\ "fdl2" \in dev.loaded)
        /\ Answer("NAK") /\ UNCHANGED dev
  /\ UNCHANGED <<attached, mem, naks>>

\* The size asked for is always 0xffffffff: the phone may complain about it
\* (DOWN_SIZE_ERROR) and opens the partition all the same. A partition that it
\* does not open ends whatever transfer was open before.
DevReadStart ==
  /\ Serve("READ_FLASH_START")
  /\ IF dev.stage = "fdl2" /\ Request.part \in Partitions
     THEN /\ \E t \in {"ACK", "NAK"} : Answer(t)
          /\ dev' = [dev EXCEPT !.mode = "read", !.target = Request.part]
     ELSE Answer("NAK") /\ dev' = [dev EXCEPT !.mode = "idle"]
  /\ UNCHANGED <<attached, mem, naks>>

DevReadMidst ==
  /\ Serve("READ_FLASH_MIDST")
  /\ IF dev.mode = "read" /\ Request.off + Request.n <= Capacity[dev.target]
     THEN toHost' = Append(toHost,
            [type |-> "READ_FLASH", ck |-> DevChecksum, part |-> "none", off |-> 0,
             n |-> Request.n,
             data |-> [i \in 1..Request.n |-> mem[dev.target][Request.off + i]]])
     ELSE Answer("NAK")
  /\ UNCHANGED <<attached, dev, mem, naks>>

DevReadEnd ==
  /\ Serve("READ_FLASH_END")
  /\ Answer(IF dev.mode = "read" THEN "ACK" ELSE "NAK")
  /\ dev' = IF dev.mode = "read" THEN [dev EXCEPT !.mode = "idle"] ELSE dev
  /\ UNCHANGED <<attached, mem, naks>>

\* Both leave download mode: the device acknowledges and leaves the bus.
DevLeave ==
  /\ \E type \in {"NORMAL_RESET", "POWER_DOWN"} : Serve(type)
  /\ Answer("ACK")
  /\ attached' = FALSE
  /\ dev' = [dev EXCEPT !.stage = "off", !.mode = "idle"]
  /\ UNCHANGED <<mem, naks>>

\* Any command may fail inside the phone (flash error, no memory, time-out).
\* A read that cannot be opened ends the transfer that was open before it.
DevFail ==
  /\ naks > 0
  /\ attached
  /\ toDev # <<>>
  /\ Request.type # "SYNC"
  /\ naks' = naks - 1
  /\ toDev' = Tail(toDev)
  /\ Answer("NAK")
  /\ dev' = IF Request.type = "READ_FLASH_START" THEN [dev EXCEPT !.mode = "idle"] ELSE dev
  /\ UNCHANGED <<attached, mem>>

\* The user switches the phone into download mode again.
DevReplug ==
  /\ attached = FALSE
  /\ attached' = TRUE
  /\ toDev' = <<>> /\ toHost' = <<>>
  /\ dev' = [dev EXCEPT !.stage = "bootrom", !.synced = FALSE, !.mode = "idle", !.loaded = {}]
  /\ UNCHANGED <<mem, naks>>

DevServe ==
  \/ DevSync \/ DevConnect \/ DevVerifyError \/ DevStartData \/ DevMidstData
  \/ DevEndData \/ DevExecData \/ DevReadStart \/ DevReadMidst \/ DevReadEnd
  \/ DevLeave \/ DevFail

=============================================================================
