----------------------------- MODULE SprdSession -----------------------------
(***************************************************************************)
(* The program and the phone together: successive runs of syber_usb over   *)
(* the same pair of pipes, with a phone that answers whenever it likes.    *)
(***************************************************************************)
EXTENDS SprdHost, FdlDevice

CONSTANTS
  Menu,        \* the command lines users give
  FirstStage,  \* stage of the phone when the first is given
  MaxRuns, MaxErrs, MaxNaks   \* bounds: runs, local errors, failures of the phone

ASSUME SprdSessionAssumption ==
  /\ Menu \subseteq Commandline
  /\ FirstStage \in {"bootrom", "fdl1", "fdl2"}
  /\ MaxRuns \in Nat /\ MaxErrs \in Nat /\ MaxNaks \in Nat

VARIABLE runs   \* runs of the program so far

devVars == <<dev, mem, naks>>
vars == <<hostVars, pipes, devVars, runs>>

Init ==
  /\ PipesInit
  /\ DevInit(FirstStage, MaxNaks)
  /\ HostInit(Menu, MaxErrs)
  /\ runs = 0

StartRun ==
  /\ runs < MaxRuns
  /\ runs' = runs + 1
  /\ \E c \in Menu : Start(c)
  /\ UNCHANGED devVars

HostNext == HostStep /\ UNCHANGED <<devVars, runs>>
DevNext  == DevServe /\ UNCHANGED <<hostVars, runs>>
Replug   == runs < MaxRuns /\ ~Running /\ DevReplug /\ UNCHANGED <<hostVars, runs>>

Next == StartRun \/ HostNext \/ DevNext \/ Replug

\* The program runs on; nothing is assumed about the phone.
Fairness == WF_vars(HostNext)

Spec == Init /\ [][Next]_vars /\ Fairness

-----------------------------------------------------------------------------
(* Properties *)

TypeOK == PipesTypeOK /\ DevTypeOK /\ HostTypeOK /\ runs \in Nat

\* The last command was o, it started with empty pipes, and it reported success.
Succeeded(o) == ~Running /\ ret = "ok" /\ clean /\ cmd.op = o

Holds(t, src, n) == \A i \in 1..n : mem[t][i] = <<src, i>>

\* sprd_download_partition: when "write" reports success, the partition begins with
\* every unit of the file, in order, if no reply of an earlier run was pending.
CleanWriteIntegrity ==
  Succeeded("write") => Holds(cmd.part, cmd.src, FileLen[cmd.src])

\* sprd_upload: when "read" reports success, the local file is what the partition
\* holds, if no reply of an earlier run was pending. The type of the reply to
\* READ_FLASH_START does not matter for this.
CleanReadIntegrity ==
  Succeeded("read") => out = [i \in 1..cmd.size |-> mem[cmd.part][i]]

\* USB_disk_read and blockdev_bread: the buffer handed to the file system holds the
\* blocks that were asked for.
BlockIntegrity ==
  clean /\ Running /\ Cur.kind \in FileSystem /\ cmd.op # "demo"
    /\ step = "READ_FLASH_MIDST" /\ phase = "send" /\ out # <<>>
    => out = [i \in 1..len |-> mem[Cur.part][pos + i]]

\* Commands whose exchanges are never continued after a failure.
Strict == {"read", "write", "camera", "reset", "shutdown"}

\* Of a command that started with empty pipes at most one frame is under way, and
\* none when the next request is sent: no reply can be taken for another's.
Lockstep ==
  clean /\ Running /\ cmd.op \in Strict =>
    /\ Len(toDev) + Len(toHost) <= 1
    /\ phase = "send" => toDev = <<>> /\ toHost = <<>>

\* sprd_task_bootrom and sprd_task_fdl1: when "ready" reports success, FDL1 has taken
\* over from the boot ROM and both images were loaded without a gap, although a
\* failed sprd_version is ignored and its answer may come late.
BootIntegrity ==
  Succeeded("ready") =>
    /\ dev.stage \in {"fdl1", "fdl2"}
    /\ dev.loaded = LoadAreas
    /\ Holds("fdl1", "fdl1.bin", FdlSize) /\ Holds("fdl2", "fdl2.bin", FdlSize)

\* A transfer that reported success is closed on the phone, too.
ClosedOnSuccess ==
  Succeeded("read") \/ Succeeded("write") \/ Succeeded("camera") => dev.mode = "idle"

\* Until the next command starts, a command that started with empty pipes changes no
\* partition but the one "write" was given, not even by a request served late.
OnlyTargetWritten ==
  [][clean => \A p \in Partitions :
        mem'[p] # mem[p] => cmd.op = "write" /\ p = cmd.part]_vars

\* Every run of the program ends, whatever the phone answers or fails to answer.
Terminates == Running ~> ~Running

\* ... and the demo asks the phone to leave download mode in the end, whatever failed before.
DemoResets == Terminates /\ (Running /\ cmd.op = "demo" ~> step = "NORMAL_RESET")

\* The comments "write file to partition" and "read partition to file" without the
\* assumption on the pipes: a command that reports success has done just that.
SuccessIsTrue ==
  ~Running /\ ret = "ok" =>
    /\ cmd.op = "write" => Holds(cmd.part, cmd.src, FileLen[cmd.src])
    /\ cmd.op = "read" => out = [i \in 1..cmd.size |-> mem[cmd.part][i]]

-----------------------------------------------------------------------------
(* The inductive invariant behind Lockstep, CleanWriteIntegrity and
   CleanReadIntegrity *)

\* The one task of a strict command.
KindOf(o) == CASE o = "read"   -> "upload"
               [] o = "write"  -> "download"
               [] o = "camera" -> "camera"
               [] o = "reset"  -> "reset"
               [] OTHER        -> "powerdown"

\* A strict command has one task, and the frame under way is the request of its
\* exchange or the one reply to it.
LockInv ==
  clean /\ Running /\ cmd.op \in Strict =>
    /\ Len(todo) = 1
    /\ Cur.kind = KindOf(cmd.op)
    /\ phase = "send" => toDev = <<>> /\ toHost = <<>>
    /\ phase = "recv" => \/ Len(toDev) = 1 /\ toHost = <<>> /\ cnt = 0
                         \/ toDev = <<>> /\ Len(toHost) = 1 /\ cnt = 0
                         \/ toDev = <<>> /\ toHost = <<>>

WLen == FileLen[cmd.src]

\* The phone has the first k units of the file and waits for the rest.
Received(k) ==
  /\ dev.mode = "down" /\ dev.target = cmd.part
  /\ dev.size = WLen /\ dev.fill = k
  /\ k <= WLen
  /\ Holds(cmd.part, cmd.src, k)

\* What the phone must hold while "write" runs, as a request is sent, under way,
\* or answered.
WriteInv ==
  clean /\ Running /\ cmd.op = "write" =>
    /\ Cur.part = cmd.part /\ Cur.src = cmd.src
    /\ WLen <= Cur.size
    /\ phase = "send" =>
         /\ Cur.size = WLen
         /\ step \in {"MIDST_DATA", "END_DATA"} => Received(off)
         /\ step = "END_DATA" => off = WLen
    /\ phase = "recv" /\ toDev # <<>> => LET m == toDev[1] IN
         \/ m.type = "MALFORMED" /\ step = "MIDST_DATA"
         \/ /\ m.type = step
            /\ Cur.size = WLen
            /\ step = "START_DATA" => m.part = cmd.part /\ m.n = WLen
            /\ step = "MIDST_DATA" =>
                 /\ Received(off)
                 /\ m.n = len /\ off + len <= WLen
                 /\ m.data = [i \in 1..len |-> <<cmd.src, off + i>>]
            /\ step = "END_DATA" => Received(off) /\ off = WLen
    /\ phase = "recv" /\ toHost # <<>> /\ toHost[1].type = "ACK" =>
         /\ Cur.size = WLen
         /\ step = "START_DATA" => Received(0)
         /\ step = "MIDST_DATA" => Received(off + len)
         /\ step = "END_DATA" => Holds(cmd.part, cmd.src, WLen)

\* Only FDL2 opens a partition for reading.
StageInv == dev.mode = "read" => dev.stage = "fdl2"

\* The partition a read is about, and the part of it that was read.
ReadInv ==
  clean /\ Running /\ cmd.op = "read" =>
    /\ Cur.part = cmd.part /\ Cur.size = cmd.size
    /\ step # "READ_FLASH_START" =>
         /\ off <= cmd.size
         /\ dev.mode = "read" => dev.target = cmd.part
         /\ off <= Capacity[cmd.part]
         /\ out = [i \in 1..off |-> mem[cmd.part][i]]
    /\ step = "READ_FLASH_END" => off = cmd.size
    /\ step = "READ_FLASH_MIDST" /\ phase = "recv" => off + len <= cmd.size /\ pos = off
    /\ phase = "recv" /\ toDev # <<>> => LET m == toDev[1] IN
         /\ m.type = step /\ m.ck = "ip"
         /\ step = "READ_FLASH_START" => m.part = cmd.part
         /\ step = "READ_FLASH_MIDST" => m.off = off /\ m.n = len
    /\ phase = "recv" /\ toHost # <<>> => LET m == toHost[1] IN
         /\ step = "READ_FLASH_START" => (dev.mode = "read" => dev.target = cmd.part)
         /\ step = "READ_FLASH_MIDST" /\ m.type = "READ_FLASH" =>
              /\ m.n = len /\ off + len <= Capacity[cmd.part]
              /\ m.data = [i \in 1..len |-> mem[cmd.part][off + i]]

\* After a strict command that succeeded nothing is under way.
QuietInv == \A o \in Strict : Succeeded(o) => toDev = <<>> /\ toHost = <<>>

IInv ==
  /\ TypeOK
  /\ LockInv
  /\ QuietInv
  /\ WriteInv
  /\ StageInv
  /\ ReadInv

=============================================================================
