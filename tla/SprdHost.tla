------------------------------- MODULE SprdHost -------------------------------
(***************************************************************************)
(* syber_usb, the program on the host (src/main.c and the USB glue of the  *)
(* two file system libraries, src/ff12b/src/diskio.c and                   *)
(* src/lwext4/blockdev/blockdev.c). A run of the program is a sequence of  *)
(* tasks, a task a sequence of exchanges; an exchange sends one frame and  *)
(* waits for one reply. step names the command being exchanged.            *)
(***************************************************************************)
EXTENDS SprdUsb

CONSTANTS
  FdlSize,      \* units of fdl1.bin and of fdl2.bin
  Window,       \* units per data frame: 528, 2112, 0x5000 and 0x3000 bytes
  StartTries,   \* receive attempts after START_DATA/READ_FLASH_START (5)
  ExecTries     \* receive attempts after starting FDL2 (15)

ASSUME SprdHostAssumption ==
  /\ FdlSize \in Nat \ {0}
  /\ Window \in Nat \ {0}
  /\ StartTries \in Nat \ {0}
  /\ ExecTries \in Nat \ {0}

VARIABLES
  cmd,     \* the command line given last: op and its arguments
  todo,    \* tasks of the command not yet finished; the head is being executed
  step,    \* command of the current exchange
  phase,   \* "send": the request is to be sent, "recv": waiting for its reply
  tries,   \* receive attempts left in this exchange
  ver,     \* sprd_version attempts left in this task
  off,     \* units transferred, or for a file system the blocks read
  pos,     \* offset of the data of this exchange
  len,     \* units asked for or sent in this exchange (s_size, r_size)
  cnt,     \* units assembled by the receive loop of a READ_FLASH_MIDST
  buf,     \* the frame that loop received first (head of data_buffer)
  out,     \* contents read: the file being saved, or the buffer just read
  ret,     \* result of the last command: "none" while it runs
  errs,    \* transfer and file errors that may still happen: a bound
  clean    \* history: both pipes were empty when the command started

hostVars == <<cmd, todo, step, phase, tries, ver, off, pos, len, cnt, buf, out, ret, errs, clean>>

-----------------------------------------------------------------------------
(* Tasks and commands *)

Kinds == {"bootrom", "fdl1", "upload", "download", "camera", "ext4fs",
          "closing", "reset", "powerdown"}

TaskRecords == [kind : Kinds, part : Memories \cup {"none"},
                src : Files \cup Images \cup {"none"}, size : Nat]

\* Only leaving download mode needs no partition; a download needs a file.
Tasks == {t \in TaskRecords :
            /\ t.kind \notin {"reset", "powerdown"} => t.part # "none"
            /\ t.kind \in {"bootrom", "fdl1", "download"} => t.src # "none"}

Task(kind, part, src, size) == [kind |-> kind, part |-> part, src |-> src, size |-> size]

BootRom   == Task("bootrom", "fdl1", "fdl1.bin", FdlSize)
Fdl1      == Task("fdl1", "fdl2", "fdl2.bin", FdlSize)
Upload(p, n)      == Task("upload", p, "none", n)
\* Mutant: the first entry of part_table, whatever the name.
DownloadFirst(p, f) == Task("download", CHOOSE q \in Partitions : TRUE, f, FileLen[f])
Download(p, f)    == Task("download", p, f, FileLen[f])
Camera(p, n)      == Task("camera", p, "none", n)
Ext4fs(p, n)      == Task("ext4fs", p, "none", n)
Reset     == Task("reset", "none", "none", 0)
PowerDown == Task("powerdown", "none", "none", 0)

Ops == {"ready", "reset", "shutdown", "read", "write", "camera", "ext4fs", "demo"}

\* The branches of main: what each command line executes. The demo reads boot,
\* internalsd and data one after the other; here they are one partition, p.
Program(o, p, f, n) ==
  CASE o = "ready"    -> <<BootRom, Fdl1>>
    [] o = "reset"    -> <<Reset>>
    [] o = "shutdown" -> <<PowerDown>>
    [] o = "read"     -> <<Upload(p, n)>>
    [] o = "write"    -> <<Download(p, f)>>
    [] o = "camera"   -> <<Camera(p, n)>>
    [] o = "ext4fs"   -> <<Ext4fs(p, n)>>
    [] OTHER          -> <<BootRom, Fdl1, Camera(p, n), Upload(p, n), Upload(p, n), Upload(p, n), Reset>>

Cur == Head(todo)

\* main sets checksum_type before each task.
checksum_type == IF Cur.kind = "bootrom" THEN "crc" ELSE "ip"

FirstStep(kind) ==
  CASE kind \in {"bootrom", "fdl1"}             -> "SYNC"
    [] kind \in {"upload", "camera", "ext4fs"}  -> "READ_FLASH_START"
    [] kind = "closing"                         -> "READ_FLASH_END"
    [] kind = "download"                        -> "START_DATA"
    [] kind = "reset"                           -> "NORMAL_RESET"
    [] OTHER                                    -> "POWER_DOWN"

FileSystem == {"camera", "ext4fs"}

\* The exchanges of a task.
StepsOf(kind) ==
  CASE kind \in {"bootrom", "fdl1"} ->
         {"SYNC", "CONNECT", "START_DATA", "MIDST_DATA", "END_DATA", "EXEC_DATA"}
    [] kind = "download" -> {"START_DATA", "MIDST_DATA", "END_DATA"}
    [] kind \in {"upload", "camera", "ext4fs"} ->
         {"READ_FLASH_START", "READ_FLASH_MIDST", "READ_FLASH_END"}
    [] kind = "closing" -> {"READ_FLASH_END"}
    [] kind = "reset" -> {"NORMAL_RESET"}
    [] OTHER -> {"POWER_DOWN"}

-----------------------------------------------------------------------------
(* Moving between exchanges, tasks and commands *)

\* The next exchange of the task is c.
Exchange(c) ==
  /\ step' = c /\ phase' = "send"
  /\ UNCHANGED <<cmd, todo, ver, ret>>

\* Mutant: the next task goes on where the last one stopped.
BeginTaskNoStep(ts) == todo' = ts /\ phase' = "send" /\ UNCHANGED step /\ ver' = 1

BeginTask(ts) ==
  /\ todo' = ts
  /\ step' = FirstStep(Head(ts).kind) /\ phase' = "send"
  /\ ver' = IF Head(ts).kind = "fdl1" THEN 2 ELSE 1

\* Mutant: the result of a task is not looked at.
EndTaskAlwaysOk(ok) ==
  IF Tail(todo) # <<>>
  THEN BeginTask(Tail(todo)) /\ UNCHANGED <<cmd, ret>>
  ELSE todo' = <<>> /\ ret' = "ok" /\ UNCHANGED <<cmd, step, phase, ver>>

\* Mutant: the demo returns at the first failure.
EndTaskAllStrict(ok) ==
  IF ok /\ Tail(todo) # <<>>
  THEN BeginTask(Tail(todo)) /\ UNCHANGED <<cmd, ret>>
  ELSE todo' = <<>> /\ ret' = (IF ok THEN "ok" ELSE "err") /\ UNCHANGED <<cmd, step, phase, ver>>

\* The task ends with success or not. Only the demo goes on after a failure,
\* and it never reports one.
EndTask(ok) ==
  IF (ok \/ cmd.op = "demo") /\ Tail(todo) # <<>>
  THEN BeginTask(Tail(todo)) /\ UNCHANGED <<cmd, ret>>
  ELSE /\ todo' = <<>>
       /\ ret' = IF ok \/ cmd.op = "demo" THEN "ok" ELSE "err"
       /\ UNCHANGED <<cmd, step, phase, ver>>

\* Mutant: off by one, the last window is not transferred.
DataStepShort(midst, end, o) ==
  \/ o + 1 < Cur.size /\ Exchange(midst)
  \/ o + 1 >= Cur.size /\ Exchange(end)

\* The step after a data exchange once "o" units are transferred (while(down_size),
\* while(up_size)). A file system reads up to Cur.size blocks before it closes.
DataStep(midst, end, o) ==
  \/ o < Cur.size /\ Exchange(midst)
  \/ (Cur.kind \in FileSystem \/ o >= Cur.size) /\ Exchange(end)

\* The exchange succeeded with "o" units transferred in all.
Advance(o) ==
  CASE step = "SYNC"             -> Exchange("CONNECT")
    [] step = "CONNECT"          -> Exchange("START_DATA")
    [] step = "START_DATA"       -> DataStep("MIDST_DATA", "END_DATA", o)
    [] step = "MIDST_DATA"       -> DataStep("MIDST_DATA", "END_DATA", o)
    [] step = "READ_FLASH_START" -> DataStep("READ_FLASH_MIDST", "READ_FLASH_END", o)
    [] step = "READ_FLASH_MIDST" -> DataStep("READ_FLASH_MIDST", "READ_FLASH_END", o)
    [] step = "END_DATA" /\ Cur.kind # "download" -> Exchange("EXEC_DATA")
    [] OTHER                     -> EndTask(Cur.kind # "closing")

\* lwext4 gives up: ext4_mount closes the device and reports the error.
CloseAndFail ==
  /\ todo' = [todo EXCEPT ![1].kind = "closing"]
  /\ step' = "READ_FLASH_END" /\ phase' = "send"
  /\ UNCHANGED <<cmd, ver, ret>>

\* Mutant: a failed exchange is tried again from the start.
AbandonResend == phase' = "send" /\ UNCHANGED <<cmd, todo, step, ver, ret>>

\* The exchange failed. A failed sprd_version is ignored (after a second attempt
\* to FDL1). A failed block read of lwext4 ends a listing early, fails a mount
\* or is returned as it is; every other failure ends the task.
Abandon ==
  IF step = "SYNC"
  THEN IF ver > 1
       THEN /\ ver' = ver - 1 /\ phase' = "send"
            /\ UNCHANGED <<cmd, todo, step, ret>>
       ELSE Exchange("CONNECT")
  ELSE \/ EndTask(FALSE)
       \/ /\ step = "READ_FLASH_MIDST" /\ Cur.kind = "ext4fs"
          /\ CloseAndFail \/ Exchange("READ_FLASH_END")

-----------------------------------------------------------------------------
(* The actions of the host *)

Running == todo # <<>>

Commandline == [op : Ops, part : Partitions, src : Files, size : Nat]

\* Where the program is.
ControlTypeOK ==
  /\ cmd \in Commandline
  /\ todo \in Seq(Tasks)
  /\ step \in Commands \ {"MALFORMED"}
  /\ Running => step \in StepsOf(Cur.kind)
  /\ phase \in {"send", "recv"}
  /\ ver \in Nat
  /\ ret \in {"none", "ok", "err"}

HostTypeOK ==
  /\ ControlTypeOK
  /\ tries \in Nat /\ off \in Nat /\ pos \in Nat /\ len \in Nat /\ cnt \in Nat
  /\ buf \in Frames
  /\ out \in Seq(Units)
  /\ errs \in Nat
  /\ clean \in BOOLEAN

HostInit(menu, maxErrs) ==
  /\ cmd \in menu
  /\ todo = <<>> /\ step = "SYNC" /\ phase = "send"
  /\ tries = 0 /\ ver = 0 /\ off = 0 /\ pos = 0 /\ len = 0 /\ cnt = 0
  /\ buf = Bare("NAK", "none") /\ out = <<>> /\ ret = "none"
  /\ errs = maxErrs /\ clean = TRUE

\* A run of the program. Without the device it ends at once, and so does
\* sprd_download_partition when the file is empty.
Start(c) ==
  /\ ~Running
  /\ cmd' = c
  /\ off' = 0 /\ pos' = 0 /\ len' = 0 /\ cnt' = 0 /\ tries' = 0 /\ out' = <<>>
  /\ clean' = (toDev = <<>> /\ toHost = <<>>)
  /\ IF attached /\ ~(c.op = "write" /\ FileLen[c.src] = 0)
     THEN ret' = "none" /\ BeginTask(Program(c.op, c.part, c.src, c.size))
     ELSE ret' = "err" /\ UNCHANGED <<todo, step, phase, ver>>
  /\ UNCHANGED <<pipes, buf, errs>>

\* Receive attempts of the exchange.
Tries == CASE step = "READ_FLASH_START" -> StartTries
           [] step = "START_DATA" /\ Cur.kind = "download" -> StartTries
           [] step = "EXEC_DATA" /\ Cur.kind = "fdl1" -> ExecTries
           [] OTHER -> 1

\* Units in the file being downloaded.
SourceLen == IF Cur.src \in Images THEN FdlSize ELSE FileLen[Cur.src]

Smaller(a, b) == IF a > b THEN b ELSE a

\* Offset and length of the data the exchange is about. A download sends what
\* read() returns, and nothing when that is 0. A file system reads where it likes.
Chosen(o, n) ==
  CASE step = "MIDST_DATA" ->
         o = off /\ n = Smaller(Smaller(Cur.size - off, Window), SourceLen - off) /\ n > 0
    [] step = "READ_FLASH_MIDST" /\ Cur.kind \notin FileSystem ->
         o = off /\ n = Smaller(Cur.size - off, Window)
    [] step = "READ_FLASH_MIDST" /\ Cur.kind \in FileSystem ->
         n > 0 /\ o + n <= Capacity[Cur.part]
    [] OTHER -> o = 0 /\ n = 0

\* The offsets and lengths to choose from.
Offsets == 0..(IF Cur.kind \in FileSystem THEN Capacity[Cur.part] ELSE off)
Lengths == 0..Window

\* Mutant: the offset is left out of the request.
RequestFrameNoOffset(o, n) ==
  [Bare(step, checksum_type) EXCEPT !.n = n,
     !.part = IF step = "READ_FLASH_START" THEN Cur.part ELSE "none"]

\* The frame the exchange sends.
RequestFrame(o, n) ==
  CASE step = "SYNC"             -> Bare("SYNC", "none")
    [] step = "START_DATA"       -> [Bare(step, checksum_type) EXCEPT !.part = Cur.part, !.n = Cur.size]
    [] step = "READ_FLASH_START" -> [Bare(step, checksum_type) EXCEPT !.part = Cur.part]
    [] step = "MIDST_DATA"       -> [Bare(step, checksum_type) EXCEPT !.n = n,
                                       !.data = [i \in 1..n |-> <<Cur.src, o + i>>]]
    [] step = "READ_FLASH_MIDST" -> [Bare(step, checksum_type) EXCEPT !.off = o, !.n = n]
    [] OTHER                     -> Bare(step, checksum_type)

\* sprd_usb_transfer delivers the frame and the program waits for the reply.
Transfer ==
  /\ Running /\ phase = "send" /\ attached
  /\ \E o \in Offsets, n \in Lengths :
       /\ Chosen(o, n)
       /\ toDev' = Append(toDev, RequestFrame(o, n))
       /\ pos' = o /\ len' = n
  /\ cnt' = 0 /\ phase' = "recv" /\ tries' = Tries
  /\ UNCHANGED <<attached, toHost, cmd, todo, step, ver, off, buf, out, ret, errs, clean>>

\* sprd_usb_transfer reports an error; the phone may have taken the frame.
\* sprd_task_fdl1 does not look at the result of sending EXEC_DATA.
TransferError ==
  /\ Running /\ phase = "send"
  /\ ~attached \/ errs > 0
  /\ errs' = IF attached THEN errs - 1 ELSE errs
  /\ \E o \in Offsets, n \in Lengths :
       /\ Chosen(o, n)
       /\ toDev' \in {toDev, IF attached THEN Append(toDev, RequestFrame(o, n)) ELSE toDev}
       /\ pos' = o /\ len' = n
  /\ cnt' = 0
  /\ IF step = "EXEC_DATA" /\ Cur.kind = "fdl1"
     THEN phase' = "recv" /\ tries' = Tries /\ UNCHANGED <<cmd, todo, step, ver, ret>>
     ELSE Abandon /\ UNCHANGED tries
  /\ UNCHANGED <<attached, toHost, off, buf, out, clean>>

\* sprd_verify_frame under the checksum in force.
Verified(f) == f.ck = checksum_type

\* Mutant: the type of the reply is not looked at.
AcceptedAnyType(f) == Verified(f)

\* Whether the reply makes the exchange succeed: it verifies and, where the program
\* looks at the type, is BSL_REP_ACK. Any frame at all counts as FDL2 running.
Accepted(f) ==
  \/ step = "EXEC_DATA" /\ Cur.kind = "fdl1"
  \/ Verified(f) /\ (step \in {"SYNC", "READ_FLASH_START"} \/ f.type = "ACK")

\* sprd_usb_receive returns a frame, and it is accepted. A transfer counts from 0
\* once it is started, and the output file of a read is created then.
ReceiveAccepted ==
  /\ Running /\ phase = "recv" /\ toHost # <<>>
  /\ step # "READ_FLASH_MIDST"
  /\ Accepted(Head(toHost))
  /\ toHost' = Tail(toHost)
  /\ off' = CASE step \in {"START_DATA", "READ_FLASH_START"} -> 0
              [] step = "MIDST_DATA" -> off + len
              [] OTHER -> off
  /\ out' = IF step = "READ_FLASH_START" THEN <<>> ELSE out
  /\ Advance(off')
  /\ UNCHANGED <<attached, toDev, tries, pos, len, cnt, buf, errs, clean>>

ReceiveRejected ==
  /\ Running /\ phase = "recv" /\ toHost # <<>>
  /\ step # "READ_FLASH_MIDST"
  /\ ~Accepted(Head(toHost))
  /\ toHost' = Tail(toHost)
  /\ Abandon
  /\ UNCHANGED <<attached, toDev, tries, off, pos, len, cnt, buf, out, errs, clean>>

\* The receive loop of sprd_upload, USB_disk_read and blockdev_bread: frames are
\* put one after the other until exactly len + 1 units are there; then they must
\* be one READ_FLASH frame.
ReceiveMidst ==
  /\ Running /\ phase = "recv" /\ toHost # <<>>
  /\ step = "READ_FLASH_MIDST"
  /\ toHost' = Tail(toHost)
  /\ cnt' = cnt + FrameLen(Head(toHost))
  /\ buf' = IF cnt = 0 THEN Head(toHost) ELSE buf
  /\ IF cnt' # len + 1
     THEN UNCHANGED <<cmd, todo, step, phase, ver, off, out, ret>>
     ELSE IF FrameLen(buf') = cnt' /\ Verified(buf') /\ buf'.type = "READ_FLASH"
          THEN /\ off' = off + (IF Cur.kind \in FileSystem THEN 1 ELSE len)
               /\ out' = IF Cur.kind \in FileSystem THEN buf'.data ELSE out \o buf'.data
               /\ Advance(off')
          ELSE UNCHANGED <<off, out>> /\ Abandon
  /\ UNCHANGED <<attached, toDev, tries, pos, len, errs, clean>>

\* Mutant: the attempts are not counted.
ReceiveErrorNoCount ==
  /\ Running /\ phase = "recv" /\ toHost = <<>>
  /\ IF tries > 1
     THEN UNCHANGED <<cmd, todo, step, phase, ver, ret>>
     ELSE Abandon
  /\ UNCHANGED <<pipes, tries, off, pos, len, cnt, buf, out, errs, clean>>

\* sprd_usb_receive returns an error: nothing came within 200 ms, because the phone
\* is late or has nothing to say, or because it has left the bus and what it sent
\* last is lost. The last attempt ends the exchange.
ReceiveError ==
  /\ Running /\ phase = "recv"
  /\ toHost = <<>> \/ ~attached
  /\ IF tries > 1
     THEN /\ tries' = tries - 1
          /\ UNCHANGED <<cmd, todo, step, phase, ver, ret>>
     ELSE Abandon /\ UNCHANGED tries
  /\ UNCHANGED <<pipes, off, pos, len, cnt, buf, out, errs, clean>>

\* A local file cannot be opened, read to the end, written or closed: the program
\* returns without telling the phone. So do the file systems when what they look
\* for is not there; lwext4 may also close the device, after a failed mount
\* (CloseAndFail) or a listing that found nothing.
LocalError ==
  /\ Running /\ phase = "send"
  /\ step \in {"START_DATA", "MIDST_DATA", "END_DATA",
               "READ_FLASH_START", "READ_FLASH_MIDST", "READ_FLASH_END"}
  /\ Cur.kind # "closing"
  /\ LET eof == step = "MIDST_DATA" /\ off >= SourceLen
     IN /\ eof \/ errs > 0
        /\ errs' = IF eof THEN errs ELSE errs - 1
  /\ \/ EndTask(FALSE)
     \/ /\ Cur.kind = "ext4fs" /\ step = "READ_FLASH_MIDST"
        /\ CloseAndFail \/ Exchange("READ_FLASH_END")
  /\ UNCHANGED <<pipes, tries, off, pos, len, cnt, buf, out, clean>>

\* read() fails while downloading and its -1 is used as the length of the data: the
\* frame sent is cut short, and more is left to send than the file holds.
ReadError ==
  /\ Running /\ phase = "send" /\ attached /\ errs > 0
  /\ step = "MIDST_DATA"
  /\ errs' = errs - 1
  /\ toDev' = Append(toDev, Bare("MALFORMED", checksum_type))
  /\ todo' = [todo EXCEPT ![1].size = @ + 1]
  /\ pos' = off /\ len' = 0 /\ cnt' = 0
  /\ phase' = "recv" /\ tries' = Tries
  /\ UNCHANGED <<attached, toHost, cmd, step, ver, off, buf, out, ret, clean>>

HostStep ==
  \/ Transfer \/ TransferError \/ ReceiveAccepted \/ ReceiveRejected
  \/ ReceiveMidst \/ ReceiveError \/ LocalError \/ ReadError

=============================================================================
