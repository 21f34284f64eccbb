--------------------------- MODULE SprdCommandProofs ---------------------------
(***************************************************************************)
(* What the commands of a session achieve, in three parts.                 *)
(*                                                                         *)
(* Booting the phone (sprd_task_bootrom, sprd_task_fdl1): a reply that     *)
(* comes late is never taken for the reply to another request, although a  *)
(* failed sprd_version is ignored and the demo goes on after a failure, so *)
(* an image that the phone acknowledges is there without a gap.            *)
(*                                                                         *)
(* What a command does to the phone: a transfer that succeeded is closed,  *)
(* and no partition is written but the one that "write" was given.         *)
(*                                                                         *)
(* The block reads of the two file systems (USB_disk_read, blockdev_bread):*)
(* what is handed to FatFs or lwext4 is what the partition holds at the    *)
(* place asked for. "ext4fs" goes on after a failed read, but only to      *)
(* close the device.                                                       *)
(***************************************************************************)
EXTENDS SprdSessionProofs

USE SprdUsbAssumption, SprdHostAssumption, SprdSessionAssumption

BootKinds == {"bootrom", "fdl1"}

\* No task of the list downloads anything.
Plain(ts) == \A i \in 1..Len(ts) : ts[i].kind \notin {"bootrom", "fdl1", "download"}

\* The tasks that are left, by the kind of the first.
TaskInv ==
  Running =>
    /\ Cur.kind = "bootrom" =>
         /\ Cur.part = "fdl1" /\ Cur.src = "fdl1.bin" /\ FdlSize <= Cur.size
         /\ Tail(todo) # <<>> /\ Head(Tail(todo)) = Fdl1
         /\ Plain(Tail(Tail(todo)))
         /\ cmd.op = "ready" => Tail(Tail(todo)) = <<>>
    /\ Cur.kind = "fdl1" =>
         Cur.part = "fdl2" /\ Cur.src = "fdl2.bin" /\ FdlSize <= Cur.size
    /\ Cur.kind # "bootrom" => Plain(Tail(todo))
    /\ Cur.kind = "download" <=> cmd.op = "write"
    /\ cmd.op = "write" => Tail(todo) = <<>>
    /\ Cur.kind \in BootKinds => cmd.op \in {"ready", "demo"}
    /\ cmd.op = "ready" =>
         Cur.kind \in BootKinds /\ (Cur.kind = "fdl1" => Tail(todo) = <<>>)

\* Only the lone 0x7e has no checksum.
SyncInv == \A i \in 1..Len(toDev) : toDev[i].ck = "none" => toDev[i].type = "SYNC"

\* A boot task is being executed, by a command that started with empty pipes.
Booting == clean /\ Running /\ Cur.kind \in BootKinds

AckOf(f, k) == f.type = "ACK" /\ f.ck = k

\* The first n frames of the pipes cannot be, or lead to, an acknowledgement under
\* checksum k.
NoRequest(s, n, k) == \A i \in 1..n : s[i].ck # k
NoAck(s, n, k) == \A i \in 1..n : ~AckOf(s[i], k)

Silent(k) == NoRequest(toDev, Len(toDev), k) /\ NoAck(toHost, Len(toHost), k)

\* At most one frame is under way.
OneFrame ==
  \/ Len(toDev) = 1 /\ toHost = <<>>
  \/ toDev = <<>> /\ Len(toHost) = 1
  \/ toDev = <<>> /\ toHost = <<>>

\* Whatever sprd_version left behind, only the reply to CONNECT can be taken for one;
\* it is the last frame under way, and after it the program is in step with the phone.
PipeInv ==
  Booting =>
    /\ Cur.kind = "bootrom" => Silent("ip")
    /\ step = "SYNC" \/ (step = "CONNECT" /\ phase = "send") => Silent(checksum_type)
    /\ step = "CONNECT" /\ phase = "recv" =>
         \/ /\ toDev # <<>> /\ NoRequest(toDev, Len(toDev) - 1, checksum_type)
            /\ NoAck(toHost, Len(toHost), checksum_type)
         \/ toDev = <<>> /\ NoAck(toHost, Len(toHost) - 1, checksum_type)
    /\ step \notin {"SYNC", "CONNECT"} =>
         /\ phase = "send" => toDev = <<>> /\ toHost = <<>>
         /\ phase = "recv" => OneFrame

\* The phone has the first k units of the image and waits for the rest.
Loading(k) ==
  /\ dev.mode = "down" /\ dev.target = Cur.part
  /\ dev.size = FdlSize /\ dev.fill = k
  /\ k <= FdlSize
  /\ Holds(Cur.part, Cur.src, k)

\* The phone has the whole image.
Loaded == Cur.part \in dev.loaded /\ Holds(Cur.part, Cur.src, FdlSize)

\* What the phone must hold while an image is downloaded, as a request is sent, under
\* way, or acknowledged.
LoadInv ==
  /\ Booting /\ (step \in {"SYNC", "CONNECT"} \/ phase = "send") => Cur.size = FdlSize
  /\ Booting /\ step \notin {"SYNC", "CONNECT"} =>
       /\ step = "EXEC_DATA" => Loaded
       /\ phase = "send" =>
            /\ step \in {"MIDST_DATA", "END_DATA"} => Loading(off)
            /\ step = "END_DATA" => off = FdlSize
       /\ phase = "recv" /\ toDev # <<>> => LET m == toDev[1] IN
            /\ m.ck = checksum_type
            /\ \/ m.type = "MALFORMED" /\ step = "MIDST_DATA"
               \/ /\ m.type = step
                  /\ Cur.size = FdlSize
                  /\ step = "START_DATA" => m.part = Cur.part /\ m.n = FdlSize
                  /\ step = "MIDST_DATA" =>
                       /\ Loading(off)
                       /\ m.n = len /\ off + len <= FdlSize
                       /\ m.data = [i \in 1..len |-> <<Cur.src, off + i>>]
                  /\ step = "END_DATA" => Loading(off) /\ off = FdlSize
       /\ phase = "recv" /\ toHost # <<>> /\ toHost[1].type = "ACK" =>
            /\ Cur.size = FdlSize
            /\ step = "START_DATA" => Loading(0)
            /\ step = "MIDST_DATA" => Loading(off + len)
            /\ step = "EXEC_DATA" /\ Cur.kind = "bootrom" => dev.stage = "fdl1"
            /\ step = "END_DATA" => Loaded

\* FDL1 runs, and was loaded without a gap.
Fdl1Runs ==
  /\ dev.stage \in {"fdl1", "fdl2"} /\ "fdl1" \in dev.loaded
  /\ Holds("fdl1", "fdl1.bin", FdlSize)

\* "ready" goes on to FDL2 only when FDL1 has answered; nothing makes the phone leave.
ReadyInv ==
  /\ clean /\ Running /\ cmd.op = "ready" =>
       /\ attached
       /\ \A i \in 1..Len(toDev) : toDev[i].type \in StepsOf("bootrom") \cup {"MALFORMED"}
       /\ step \in {"SYNC", "CONNECT"} =>
            \A i \in 1..Len(toDev) : toDev[i].type \in {"SYNC", "CONNECT"}
       /\ Cur.kind = "fdl1" => Fdl1Runs
  /\ Succeeded("ready") => attached /\ toDev = <<>> /\ toHost = <<>>

-----------------------------------------------------------------------------
(* The tasks that are left *)

\* Replacing the first task leaves the others alone.
LEMMA HeadReplaced ==
  ASSUME TypeOK, Running, NEW t, todo' = [todo EXCEPT ![1] = t]
  PROVE  Running' /\ Cur' = t /\ Tail(todo') = Tail(todo)
<1>1. todo \in Seq(Tasks \cup {t}) /\ Len(todo) \in Nat \ {0}
  <2>1. todo \in Seq(Tasks) /\ todo # <<>>
    BY DEF TypeOK, HostTypeOK, ControlTypeOK, Running
  <2> HIDE DEF Tasks
  <2> QED BY <2>1
<1>2. todo' \in Seq(Tasks \cup {t}) /\ Len(todo') = Len(todo) /\ todo'[1] = t
      /\ \A i \in 2..Len(todo) : todo'[i] = todo[i]
  <2> HIDE DEF Tasks
  <2> QED BY <1>1, ExceptSeq
<1> HIDE DEF Tasks
<1> DEFINE a == Tail(todo)
           b == Tail(todo')
<1>3. /\ a \in Seq(Tasks \cup {t}) /\ b \in Seq(Tasks \cup {t})
      /\ Len(a) = Len(todo) - 1 /\ Len(b) = Len(todo) - 1
  BY <1>1, <1>2
<1>4. \A i \in 1..Len(a) : a[i] = todo[i + 1] /\ b[i] = todo'[i + 1]
  BY <1>1, <1>2
<1>5. \A i \in 1..Len(a) : i + 1 \in 2..Len(todo)
  BY <1>1, <1>3
<1>6. a = b
  <2>1. \A i \in 1..Len(a) : a[i] = b[i]
    BY <1>2, <1>4, <1>5
  <2> HIDE DEF a, b
  <2> QED BY <1>3, <2>1, SeqEqual
<1>7. Head(todo') = t /\ todo' # <<>>
  BY <1>1, <1>2
<1> QED BY <1>6, <1>7 DEF Cur, Running

\* What a step of the host does to the list of tasks.
LEMMA HostTodo ==
  ASSUME TypeOK, HostStep
  PROVE  \/ todo' \in {todo, <<>>, Tail(todo)}
         \/ /\ Running' /\ Tail(todo') = Tail(todo)
            /\ Cur'.kind = Cur.kind /\ Cur'.part = Cur.part /\ Cur'.src = Cur.src
            /\ Cur'.size = Cur.size + 1
         \/ /\ Running' /\ Tail(todo') = Tail(todo)
            /\ Cur.kind = "ext4fs" /\ Cur'.kind = "closing"
<1>1. Running /\ Cur \in TaskRecords /\ Cur = todo[1] /\ Len(todo) \in Nat \ {0}
  BY HostStepFrame, CurType DEF TypeOK, HostTypeOK, ControlTypeOK
<1>2. \A ok : EndTask(ok) => todo' \in {<<>>, Tail(todo)}
  BY DEF EndTask, BeginTask
<1>3. \A c : Exchange(c) => todo' = todo
  BY DEF Exchange
<1>4. ASSUME CloseAndFail, Cur.kind = "ext4fs"
      PROVE  Running' /\ Tail(todo') = Tail(todo) /\ Cur'.kind = "closing"
  <2> DEFINE t == [Cur EXCEPT !.kind = "closing"]
  <2>1. todo' = [todo EXCEPT ![1] = t]
    BY <1>1, <1>4 DEF CloseAndFail
  <2>2. t.kind = "closing"
    BY <1>1 DEF TaskRecords
  <2> HIDE DEF t
  <2> QED BY <1>1, <2>1, <2>2, HeadReplaced
<1>5. ASSUME ReadError
      PROVE  /\ Running' /\ Tail(todo') = Tail(todo)
             /\ Cur'.kind = Cur.kind /\ Cur'.part = Cur.part /\ Cur'.src = Cur.src
             /\ Cur'.size = Cur.size + 1
  <2> DEFINE t == [Cur EXCEPT !.size = @ + 1]
  <2>1. todo' = [todo EXCEPT ![1] = t]
    BY <1>1, <1>5 DEF ReadError
  <2>2. t.kind = Cur.kind /\ t.part = Cur.part /\ t.src = Cur.src /\ t.size = Cur.size + 1
    BY <1>1 DEF TaskRecords
  <2> HIDE DEF t
  <2> QED BY <1>1, <2>1, <2>2, HeadReplaced
<1>6. \A o : Advance(o) => todo' \in {todo, <<>>, Tail(todo)}
  BY <1>2, <1>3 DEF Advance, DataStep
<1>7. Abandon => \/ todo' \in {todo, <<>>, Tail(todo)}
                 \/ Cur.kind = "ext4fs" /\ CloseAndFail
  BY <1>2, <1>3 DEF Abandon
<1>8. LocalError => \/ todo' \in {todo, <<>>, Tail(todo)}
                    \/ Cur.kind = "ext4fs" /\ CloseAndFail
  BY <1>2, <1>3 DEF LocalError
<1>9. \/ todo' \in {todo, <<>>, Tail(todo)}
      \/ ReadError
      \/ Cur.kind = "ext4fs" /\ CloseAndFail
  BY <1>6, <1>7, <1>8
     DEF HostStep, Transfer, TransferError, ReceiveAccepted, ReceiveRejected, ReceiveMidst, ReceiveError
<1> QED BY <1>4, <1>5, <1>9

\* The rest of a list of tasks none of which downloads.
LEMMA PlainTail ==
  ASSUME NEW ts \in Seq(Tasks), ts # <<>>, Plain(ts)
  PROVE  Plain(Tail(ts)) /\ Head(ts).kind \notin {"bootrom", "fdl1", "download"}
<1> HIDE DEF Tasks
<1>1. Len(ts) \in Nat \ {0} /\ Head(ts) = ts[1] /\ Len(Tail(ts)) = Len(ts) - 1
  OBVIOUS
<1>2. \A i \in 1..Len(Tail(ts)) : Tail(ts)[i] = ts[i + 1] /\ i + 1 \in 1..Len(ts)
  BY <1>1
<1> QED BY <1>1, <1>2 DEF Plain

\* A step of the program keeps or removes its first task.
LEMMA HostTask ==
  ASSUME TypeOK, TaskInv, HostStep
  PROVE  TaskInv'
<1>1. Running /\ cmd' = cmd /\ todo \in Seq(Tasks) /\ Tail(todo) \in Seq(Tasks)
      /\ Cur \in TaskRecords
  BY HostStepFrame, CurType DEF TypeOK, HostTypeOK, ControlTypeOK
<1>2. CASE todo' \in {todo, <<>>}
  BY <1>1, <1>2 DEF TaskInv, Running, Cur
<1>3. CASE todo' = Tail(todo) /\ todo' # <<>> /\ Cur.kind = "bootrom"
  <2>1. Cur' = Fdl1 /\ Plain(Tail(todo')) /\ cmd.op \in {"ready", "demo"}
        /\ (cmd.op = "ready" => Tail(todo') = <<>>)
    BY <1>1, <1>3 DEF TaskInv, Cur, BootKinds
  <2> QED BY <1>1, <2>1 DEF TaskInv, Fdl1, Task, BootKinds
<1>4. CASE todo' = Tail(todo) /\ todo' # <<>> /\ Cur.kind # "bootrom"
  <2>1. Plain(todo') /\ cmd.op \notin {"ready", "write"}
    BY <1>1, <1>4 DEF TaskInv, BootKinds
  <2>2. Plain(Tail(todo')) /\ Cur'.kind \notin {"bootrom", "fdl1", "download"}
    BY <1>1, <1>4, <2>1, PlainTail DEF Cur
  <2> QED BY <1>1, <2>1, <2>2 DEF TaskInv, BootKinds
<1>5. CASE /\ Running' /\ Tail(todo') = Tail(todo)
           /\ Cur'.kind = Cur.kind /\ Cur'.part = Cur.part /\ Cur'.src = Cur.src
           /\ Cur'.size = Cur.size + 1
  <2>1. Cur.size \in Nat
    BY <1>1 DEF TaskRecords
  <2>2. FdlSize <= Cur.size => FdlSize <= Cur'.size
    BY <1>5, <2>1
  <2> QED BY <1>1, <1>5, <2>2 DEF TaskInv
<1>6. CASE /\ Running' /\ Tail(todo') = Tail(todo)
           /\ Cur.kind = "ext4fs" /\ Cur'.kind = "closing"
  BY <1>1, <1>6 DEF TaskInv, BootKinds
<1> QED BY <1>2, <1>3, <1>4, <1>5, <1>6, HostTodo

\* Every command line begins with the tasks that the invariant allows.
LEMMA StartTask ==
  ASSUME TypeOK, StartRun
  PROVE  TaskInv'
<1>1. PICK c \in Commandline : Start(c)
  BY DEF StartRun
<1>2. cmd' = c /\ (todo' = <<>> \/ todo' = Program(c.op, c.part, c.src, c.size))
  BY <1>1, StartEffect
<1>3. c.op \in Ops
  BY DEF Commandline
<1>4. CASE todo' = <<>>
  BY <1>4 DEF TaskInv, Running
<1>5. CASE c.op = "ready" /\ todo' = <<BootRom, Fdl1>>
  <2>1. Cur' = BootRom /\ Tail(todo') = <<Fdl1>>
    BY <1>5 DEF Cur
  <2>2. Head(<<Fdl1>>) = Fdl1 /\ Tail(<<Fdl1>>) = <<>> /\ <<Fdl1>> # <<>> /\ Plain(<<>>)
    BY DEF Plain
  <2> QED BY <1>2, <1>5, <2>1, <2>2 DEF TaskInv, BootRom, Task, BootKinds
<1>6. CASE \E t : /\ todo' = <<t>> /\ t.kind \notin BootKinds
                  /\ t.kind = "download" <=> c.op = "write"
                  /\ c.op # "ready"
  <2>1. Tail(todo') = <<>> /\ Plain(<<>>) /\ Cur'.kind \notin BootKinds
        /\ (Cur'.kind = "download" <=> c.op = "write")
    BY <1>6 DEF Plain, Cur
  <2> QED BY <1>2, <1>6, <2>1 DEF TaskInv, BootKinds
<1>7. CASE c.op = "demo" /\ todo' = Program(c.op, c.part, c.src, c.size)
  <2> DEFINE u == Upload(c.part, c.size)
             a == Camera(c.part, c.size)
             d == <<a, u, u, u, Reset>>
  <2>1. todo' = <<BootRom, Fdl1, a, u, u, u, Reset>>
    BY <1>7 DEF Program
  <2>2. a.kind = "camera" /\ u.kind = "upload" /\ Reset.kind = "reset"
    BY DEF Camera, Upload, Reset, Task
  <2> HIDE DEF u, a
  <2>3. Cur' = BootRom /\ Tail(todo') = <<Fdl1, a, u, u, u, Reset>>
    BY <2>1 DEF Cur
  <2>4. Head(<<Fdl1, a, u, u, u, Reset>>) = Fdl1 /\ Tail(<<Fdl1, a, u, u, u, Reset>>) = d
        /\ <<Fdl1, a, u, u, u, Reset>> # <<>>
    OBVIOUS
  <2>5. Plain(d)
    <3>1. \A i \in 1..5 : d[i] \in {a, u, Reset}
      OBVIOUS
    <3>2. Len(d) = 5
      OBVIOUS
    <3> HIDE DEF d
    <3> QED BY <2>2, <3>1, <3>2 DEF Plain
  <2> HIDE DEF d
  <2>6. /\ Tail(todo') # <<>> /\ Head(Tail(todo')) = Fdl1 /\ Plain(Tail(Tail(todo')))
        /\ cmd'.op = "demo"
    BY <1>2, <1>7, <2>3, <2>4, <2>5
  <2> QED BY <2>3, <2>6 DEF TaskInv, BootRom, Task, BootKinds
<1>8. todo' = Program(c.op, c.part, c.src, c.size) =>
        \/ c.op = "ready" /\ todo' = <<BootRom, Fdl1>>
        \/ c.op = "demo"
        \/ \E t : /\ todo' = <<t>> /\ t.kind \notin BootKinds
                  /\ t.kind = "download" <=> c.op = "write"
                  /\ c.op # "ready"
  BY <1>3 DEF Program, Ops, Reset, PowerDown, Upload, Download, Camera, Ext4fs, Task, BootKinds
<1> QED BY <1>2, <1>4, <1>5, <1>6, <1>7, <1>8

\* Every step keeps TaskInv.
LEMMA TaskNext ==
  ASSUME TypeOK, TaskInv, [Next]_vars
  PROVE  TaskInv'
<1>1. CASE UNCHANGED <<todo, cmd>>
  BY <1>1 DEF TaskInv, Running, Cur
<1> QED BY <1>1, HostTask, StartTask DEF Next, HostNext, DevNext, Replug, vars, hostVars

-----------------------------------------------------------------------------
(* The frames under way *)

\* A frame that is sent comes behind those under way.
LEMMA AppendElements ==
  ASSUME NEW S, NEW s \in Seq(S), NEW x \in S
  PROVE  /\ Append(s, x) \in Seq(S) /\ Len(Append(s, x)) = Len(s) + 1 /\ Len(s) \in Nat
         /\ \A i \in 1..Len(s) : Append(s, x)[i] = s[i]
         /\ Append(s, x)[Len(s) + 1] = x /\ Append(s, x) # <<>>
  OBVIOUS

\* A frame that is taken was the first, and the others move up.
LEMMA TailElements ==
  ASSUME NEW S, NEW s \in Seq(S), s # <<>>
  PROVE  /\ Tail(s) \in Seq(S) /\ Len(Tail(s)) = Len(s) - 1 /\ Len(s) \in Nat \ {0}
         /\ \A i \in 1..(Len(s) - 1) : Tail(s)[i] = s[i + 1] /\ i + 1 \in 1..Len(s)
         /\ Head(s) = s[1] /\ 1 \in 1..Len(s)
  OBVIOUS

\* A request bears the checksum in use, and its step as its type.
LEMMA RequestCk ==
  ASSUME NEW o, NEW n
  PROVE  /\ RequestFrame(o, n).type = step
         /\ RequestFrame(o, n).ck = IF step = "SYNC" THEN "none" ELSE checksum_type
         /\ step = "START_DATA" => RequestFrame(o, n).part = Cur.part
  BY DEF RequestFrame, Bare

\* A frame that the exchange may send.
Sendable(m) ==
  /\ m \in Frames
  /\ m.ck = IF step = "SYNC" THEN "none" ELSE checksum_type
  /\ m.type = step \/ (m.type = "MALFORMED" /\ step = "MIDST_DATA")
  /\ m.type = "START_DATA" => m.part = Cur.part

\* The host appends a frame of its exchange, takes a reply, or leaves the pipes alone.
LEMMA HostPipes ==
  ASSUME TypeOK, HostStep
  PROVE  /\ attached' = attached
         /\ \/ toDev' = toDev /\ toHost' = toHost
            \/ /\ phase = "send" /\ toHost' = toHost
               /\ \E m : Sendable(m) /\ toDev' = Append(toDev, m)
            \/ /\ phase = "recv" /\ toDev' = toDev
               /\ toHost # <<>> /\ toHost' = Tail(toHost)
<1>1. ControlTypeOK /\ Running /\ off \in Nat
  BY HostStepFrame DEF TypeOK, HostTypeOK
<1>2. ASSUME NEW o \in Offsets, NEW n \in Lengths PROVE Sendable(RequestFrame(o, n))
  <2>1. o \in Nat /\ n \in Nat
    BY <1>1, <1>2, OffsetsType
  <2> QED BY <1>1, <2>1, RequestType, RequestCk DEF Sendable
<1>3. CASE Transfer
  BY <1>2, <1>3 DEF Transfer
<1>4. CASE TransferError
  BY <1>2, <1>4 DEF TransferError
<1>5. CASE ReadError
  <2>1. Bare("MALFORMED", checksum_type) \in Frames
    BY BareType DEF checksum_type, ChecksumTypes, Commands
  <2>2. Sendable(Bare("MALFORMED", checksum_type))
    BY <1>5, <2>1 DEF ReadError, Sendable, Bare
  <2> QED BY <1>5, <2>2 DEF ReadError
<1>6. CASE ReceiveError \/ LocalError
  BY <1>6 DEF ReceiveError, LocalError, pipes
<1>7. CASE ReceiveAccepted \/ ReceiveRejected \/ ReceiveMidst
  BY <1>7 DEF ReceiveAccepted, ReceiveRejected, ReceiveMidst
<1> QED BY <1>3, <1>4, <1>5, <1>6, <1>7 DEF HostStep

\* Every step keeps SyncInv.
LEMMA SyncNext ==
  ASSUME TypeOK, SyncInv, [Next]_vars
  PROVE  SyncInv'
<1>1. toDev \in Seq(Frames)
  BY DEF TypeOK, PipesTypeOK
<1>2. CASE toDev' \in {toDev, <<>>}
  BY <1>2 DEF SyncInv
<1>3. CASE HostNext
  <2>1. CASE \E m : Sendable(m) /\ toDev' = Append(toDev, m)
    <3>1. PICK m : Sendable(m) /\ toDev' = Append(toDev, m)
      BY <2>1
    <3>2. m \in Frames /\ (m.ck = "none" => m.type = "SYNC")
      BY <3>1 DEF Sendable, checksum_type
    <3> QED BY <1>1, <3>1, <3>2, AppendElements DEF SyncInv
  <2> QED BY <1>2, <1>3, <2>1, HostPipes DEF HostNext
<1>4. CASE DevServe
  <2>1. toDev # <<>> /\ toDev' = Tail(toDev)
    BY <1>4
       DEF DevServe, DevSync, DevConnect, DevVerifyError, DevStartData, DevMidstData,
         DevEndData, DevExecData, DevReadStart, DevReadMidst, DevReadEnd, DevLeave, DevFail, Serve
  <2> QED BY <1>1, <2>1, TailElements DEF SyncInv
<1>5. CASE StartRun
  BY <1>2, <1>5 DEF StartRun, Start, pipes
<1>6. CASE Replug
  BY <1>2, <1>6 DEF Replug, DevReplug
<1>7. CASE UNCHANGED vars
  BY <1>2, <1>7 DEF vars, pipes
<1> QED BY <1>3, <1>4, <1>5, <1>6, <1>7 DEF Next, DevNext

\* The phone takes a request, and acknowledges it under the checksum it came with.
LEMMA ServeAnswer ==
  ASSUME TypeOK, SyncInv, DevServe
  PROVE  /\ toDev # <<>> /\ toDev' = Tail(toDev)
         /\ \/ toHost' = toHost
            \/ \E m \in Frames : /\ toHost' = Append(toHost, m)
                                 /\ m.type = "ACK" => m.ck = toDev[1].ck
<1>1. toDev # <<>> /\ toDev' = Tail(toDev)
  BY DEF DevServe, DevSync, DevConnect, DevVerifyError, DevStartData, DevMidstData,
         DevEndData, DevExecData, DevReadStart, DevReadMidst, DevReadEnd, DevLeave, DevFail, Serve
<1>2. Request = toDev[1] /\ 1 \in 1..Len(toDev)
  BY <1>1, TailElements DEF TypeOK, PipesTypeOK, Request
<1>3. Request.ck = "none" => Request.type = "SYNC"
  BY <1>2 DEF SyncInv
<1>4. DevChecksum \in ChecksumTypes
  BY DEF DevChecksum, ChecksumTypes
<1>5. ASSUME NEW t \in Replies \ {"READ_FLASH", "ACK"}, Answer(t)
      PROVE  \E m \in Frames : toHost' = Append(toHost, m) /\ m.type # "ACK"
  <2>1. Bare(t, DevChecksum) \in Frames /\ Bare(t, DevChecksum).type # "ACK"
    BY <1>4, <1>5, BareType DEF Replies, Bare
  <2> QED BY <1>5, <2>1 DEF Answer
<1>6. ASSUME Answer("ACK"), Request.ck = DevChecksum
      PROVE  \E m \in Frames : toHost' = Append(toHost, m) /\ m.ck = toDev[1].ck
  <2>1. Bare("ACK", DevChecksum) \in Frames /\ Bare("ACK", DevChecksum).ck = DevChecksum
    BY <1>4, BareType DEF Replies, Bare
  <2> QED BY <1>2, <1>6, <2>1 DEF Answer
<1>7. CASE DevVerifyError \/ DevFail
  BY <1>1, <1>5, <1>7 DEF DevVerifyError, DevFail, Replies
<1>8. CASE DevSync
  BY <1>1, <1>5, <1>8 DEF DevSync, Replies
<1>9. CASE DevReadMidst
  BY <1>1, <1>5, <1>9, ReadMidstAnswer DEF Replies
<1>10. CASE \/ DevConnect \/ DevStartData \/ DevMidstData \/ DevEndData \/ DevExecData
            \/ DevReadStart \/ DevReadEnd \/ DevLeave
  <2>1. Request.ck = DevChecksum
    BY <1>3, <1>10
       DEF DevConnect, DevStartData, DevMidstData, DevEndData, DevExecData, DevReadStart,
           DevReadEnd, DevLeave, Serve
  <2>2. \E t \in {"ACK", "NAK", "INCOMPATIBLE"} : Answer(t)
    BY <1>10
       DEF DevConnect, DevStartData, DevMidstData, DevEndData, DevExecData, DevReadStart,
           DevReadEnd, DevLeave
  <2> QED BY <1>1, <1>5, <1>6, <2>1, <2>2 DEF Replies
<1> QED BY <1>7, <1>8, <1>9, <1>10 DEF DevServe

-----------------------------------------------------------------------------
(* What the host does in a boot task *)

\* Types and checksum while a boot task is being executed.
LEMMA BootFacts ==
  ASSUME TypeOK, Booting
  PROVE  /\ todo \in Seq(Tasks) /\ Cur \in TaskRecords /\ Cur.kind \in BootKinds
         /\ step \in {"SYNC", "CONNECT", "START_DATA", "MIDST_DATA", "END_DATA", "EXEC_DATA"}
         /\ checksum_type = IF Cur.kind = "bootrom" THEN "crc" ELSE "ip"
         /\ toDev \in Seq(Frames) /\ toHost \in Seq(Frames) /\ phase \in {"send", "recv"}
         /\ off \in Nat /\ len \in Nat /\ Running /\ clean
<1>1. ControlTypeOK /\ Running /\ Cur.kind \in BootKinds
  BY DEF TypeOK, HostTypeOK, Booting
<1>2. todo \in Seq(Tasks) /\ Cur \in TaskRecords /\ step \in StepsOf(Cur.kind)
      /\ phase \in {"send", "recv"}
  BY <1>1, CurType DEF ControlTypeOK
<1> QED BY <1>1, <1>2 DEF Booting, BootKinds, StepsOf, checksum_type, TypeOK, PipesTypeOK, HostTypeOK

\* sprd_version goes on, tries again or is over, whatever happens.
SyncMove ==
  /\ step = "SYNC" /\ UNCHANGED <<todo, cmd, clean, ret>>
  /\ step' = "SYNC" \/ (step' = "CONNECT" /\ phase' = "send")

\* The host tries to receive once more.
BootWaiting ==
  /\ step # "SYNC" /\ phase = "recv"
  /\ UNCHANGED <<todo, cmd, clean, ret, step, phase, off, len, toDev, toHost>>

\* The result of sending EXEC_DATA to FDL1 is not looked at.
ExecUnsent ==
  /\ step = "EXEC_DATA" /\ Cur.kind = "fdl1" /\ phase = "send" /\ phase' = "recv"
  /\ UNCHANGED <<todo, cmd, clean, ret, step, off, toHost>>
  /\ toDev' = toDev \/ \E o, n : toDev' = Append(toDev, RequestFrame(o, n))

\* A reply was accepted.
BootReply ==
  /\ step # "SYNC" /\ phase = "recv" /\ toHost # <<>>
  /\ Accepted(Head(toHost))
  /\ toHost' = Tail(toHost)
  /\ UNCHANGED <<toDev, cmd, clean, len>>
  /\ off' = CASE step = "START_DATA" -> 0
              [] step = "MIDST_DATA" -> off + len
              [] OTHER -> off
  /\ Advance(off')

BootAbandoned == step # "SYNC" /\ EndTask(FALSE) /\ clean' = clean

\* Giving up in a boot task ends it, or goes on from the version to CONNECT.
LEMMA BootAbandon ==
  ASSUME TypeOK, Booting, Abandon, clean' = clean
  PROVE  SyncMove \/ BootAbandoned
<1>1. step # "READ_FLASH_MIDST"
  BY BootFacts
<1> QED BY <1>1 DEF Abandon, SyncMove, BootAbandoned, Exchange

\* What a step of the program in a boot task can be.
LEMMA BootHost ==
  ASSUME TypeOK, Booting, HostStep
  PROVE  \/ SyncMove \/ BootWaiting \/ ExecUnsent \/ BootReply \/ BootAbandoned
         \/ ReadError
         \/ Transfer /\ step # "SYNC"
<1>1. clean' = clean /\ cmd' = cmd
  BY HostStepFrame
<1>2. /\ step \in {"SYNC", "CONNECT", "START_DATA", "MIDST_DATA", "END_DATA", "EXEC_DATA"}
      /\ Cur.kind \in BootKinds
  BY BootFacts
<1>3. CASE Transfer
  BY <1>3 DEF Transfer, SyncMove
<1>4. CASE TransferError
  <2>1. CASE step = "EXEC_DATA" /\ Cur.kind = "fdl1"
    BY <1>1, <1>4, <2>1 DEF TransferError, ExecUnsent
  <2>2. CASE ~(step = "EXEC_DATA" /\ Cur.kind = "fdl1")
    <3>1. Abandon
      BY <1>4, <2>2 DEF TransferError
    <3> QED BY <1>1, <3>1, BootAbandon
  <2> QED BY <2>1, <2>2
<1>5. CASE ReceiveAccepted
  <2>1. CASE step = "SYNC"
    <3>1. Exchange("CONNECT")
      BY <1>5, <2>1 DEF ReceiveAccepted, Advance
    <3> QED BY <1>1, <2>1, <3>1 DEF Exchange, SyncMove
  <2>2. CASE step # "SYNC"
    BY <1>1, <1>2, <1>5, <2>2 DEF ReceiveAccepted, BootReply
  <2> QED BY <2>1, <2>2
<1>6. CASE ReceiveRejected
  BY <1>1, <1>6, BootAbandon DEF ReceiveRejected
<1>7. CASE ReceiveMidst
  BY <1>2, <1>7 DEF ReceiveMidst
<1>8. CASE ReceiveError
  <2>1. CASE tries > 1
    BY <1>1, <1>8, <2>1 DEF ReceiveError, SyncMove, BootWaiting, pipes
  <2>2. CASE ~(tries > 1)
    BY <1>1, <1>8, <2>2, BootAbandon DEF ReceiveError
  <2> QED BY <2>1, <2>2
<1>9. CASE LocalError
  BY <1>1, <1>2, <1>9 DEF LocalError, BootKinds, BootAbandoned
<1> QED BY <1>3, <1>4, <1>5, <1>6, <1>7, <1>8, <1>9 DEF HostStep

\* The exchange after one that succeeded.
LEMMA BootAdvance ==
  ASSUME TypeOK, Booting, NEW o \in Nat, Advance(o), step # "SYNC"
  PROVE  \/ step = "CONNECT" /\ Exchange("START_DATA")
         \/ /\ step \in {"START_DATA", "MIDST_DATA"}
            /\ \/ o < Cur.size /\ Exchange("MIDST_DATA")
               \/ o >= Cur.size /\ Exchange("END_DATA")
         \/ step = "END_DATA" /\ Exchange("EXEC_DATA")
         \/ step = "EXEC_DATA" /\ EndTask(TRUE)
<1>1. /\ step \in {"CONNECT", "START_DATA", "MIDST_DATA", "END_DATA", "EXEC_DATA"}
      /\ Cur.kind \in BootKinds
  BY BootFacts
<1>2. CASE step \in {"CONNECT", "END_DATA"}
  BY <1>1, <1>2 DEF Advance, BootKinds
<1>3. CASE step \in {"START_DATA", "MIDST_DATA"}
  <2>1. DataStep("MIDST_DATA", "END_DATA", o)
    BY <1>3 DEF Advance
  <2> QED BY <1>1, <1>3, <2>1 DEF DataStep, FileSystem, BootKinds
<1>4. CASE step = "EXEC_DATA"
  <2>1. EndTask(Cur.kind # "closing") /\ Cur.kind # "closing"
    BY <1>1, <1>4 DEF Advance, BootKinds
  <2> QED BY <1>4, <2>1
<1> QED BY <1>1, <1>2, <1>3, <1>4

\* A boot task that ends is followed by FDL1's, once, or by none.
LEMMA BootLeave ==
  ASSUME TypeOK, TaskInv, Booting, NEW ok \in BOOLEAN, EndTask(ok), clean' = clean
  PROVE  /\ cmd' = cmd
         /\ Booting' => /\ Cur.kind = "bootrom" /\ Cur' = Fdl1 /\ step' = "SYNC" /\ phase' = "send"
                        /\ ok \/ cmd.op = "demo"
         /\ Running' => ok \/ cmd.op = "demo"
<1>1. /\ todo \in Seq(Tasks) /\ Tail(todo) \in Seq(Tasks) /\ Cur.kind \in BootKinds /\ Running
      /\ cmd.op \in {"ready", "demo"}
  BY BootFacts, CurType DEF TaskInv
<1>2. CASE (ok \/ cmd.op = "demo") /\ Tail(todo) # <<>>
  <2>1. BeginTask(Tail(todo)) /\ cmd' = cmd
    BY <1>2 DEF EndTask
  <2>2. todo' = Tail(todo) /\ step' = FirstStep(Cur'.kind) /\ phase' = "send"
        /\ Cur' = Head(Tail(todo))
    BY <2>1 DEF BeginTask, Cur
  <2>3. CASE Cur.kind = "bootrom"
    <3>1. Cur' = Fdl1
      BY <1>1, <2>2, <2>3 DEF TaskInv
    <3>2. step' = "SYNC"
      <4>1. Fdl1.kind = "fdl1"
        BY DEF Fdl1, Task
      <4>2. FirstStep("fdl1") = "SYNC"
        BY DEF FirstStep
      <4> QED BY <2>2, <3>1, <4>1, <4>2
    <3> QED BY <1>2, <2>1, <2>2, <2>3, <3>1, <3>2
  <2>4. CASE Cur.kind # "bootrom"
    <3>1. Plain(Tail(todo))
      BY <1>1, <2>4 DEF TaskInv
    <3>2. Cur'.kind \notin BootKinds
      BY <1>1, <1>2, <2>2, <3>1, PlainTail DEF BootKinds
    <3> QED BY <1>2, <2>1, <3>2 DEF Booting
  <2> QED BY <2>3, <2>4
<1>3. CASE ~((ok \/ cmd.op = "demo") /\ Tail(todo) # <<>>)
  <2>1. todo' = <<>> /\ cmd' = cmd
    BY <1>3, Zenon DEF EndTask
  <2> QED BY <2>1 DEF Booting, Running
<1> QED BY <1>2, <1>3

-----------------------------------------------------------------------------
(* No reply is taken for another's *)

\* The program breaks the silence under a checksum only by sending a request under it.
LEMMA SilentHost ==
  ASSUME TypeOK, HostStep, NEW k, Silent(k),
         \A m : Sendable(m) => m.ck # k
  PROVE  Silent(k)'
<1>1. toDev \in Seq(Frames) /\ toHost \in Seq(Frames)
  BY DEF TypeOK, PipesTypeOK
<1>2. CASE toDev' = toDev /\ toHost' = toHost
  BY <1>2 DEF Silent, NoRequest, NoAck, AckOf
<1>3. CASE toHost' = toHost /\ \E m : Sendable(m) /\ toDev' = Append(toDev, m)
  <2>1. PICK m : Sendable(m) /\ toDev' = Append(toDev, m)
    BY <1>3
  <2>2. m \in Frames /\ m.ck # k
    BY <2>1 DEF Sendable
  <2>3. \A i \in 1..Len(toDev') : toDev'[i].ck # k
    BY <1>1, <2>1, <2>2, AppendElements DEF Silent, NoRequest
  <2> QED BY <1>3, <2>3 DEF Silent, NoRequest, NoAck, AckOf
<1>4. CASE toDev' = toDev /\ toHost # <<>> /\ toHost' = Tail(toHost)
  <2>1. \A i \in 1..Len(toHost') : ~AckOf(toHost'[i], k)
    BY <1>1, <1>4, TailElements DEF Silent, NoAck
  <2> QED BY <1>4, <2>1 DEF Silent, NoRequest, NoAck, AckOf
<1> QED BY <1>2, <1>3, <1>4, HostPipes

\* The phone acknowledges what verifies under its checksum, and under that one: no request, no ACK.
LEMMA SilentServe ==
  ASSUME TypeOK, SyncInv, DevServe, NEW k, Silent(k)
  PROVE  Silent(k)'
<1>1. toDev \in Seq(Frames) /\ toHost \in Seq(Frames) /\ toDev # <<>> /\ toDev' = Tail(toDev)
  BY ServeAnswer DEF TypeOK, PipesTypeOK
<1>2. NoRequest(toDev', Len(toDev'), k) /\ toDev[1].ck # k
  BY <1>1, TailElements DEF Silent, NoRequest
<1>3. NoAck(toHost', Len(toHost'), k)
  <2>1. CASE toHost' = toHost
    BY <2>1 DEF Silent, NoAck
  <2>2. CASE \E m \in Frames : toHost' = Append(toHost, m) /\ (m.type = "ACK" => m.ck = toDev[1].ck)
    <3>1. PICK m \in Frames : toHost' = Append(toHost, m) /\ (m.type = "ACK" => m.ck = toDev[1].ck)
      BY <2>2
    <3>2. ~AckOf(m, k)
      BY <1>2, <3>1 DEF AckOf
    <3> QED BY <1>1, <3>1, <3>2, AppendElements DEF Silent, NoAck
  <2> QED BY <2>1, <2>2, ServeAnswer
<1> QED BY <1>2, <1>3 DEF Silent

\* The reply that a boot task accepts is the only frame under way.
LEMMA ReplyAlone ==
  ASSUME TypeOK, PipeInv, Booting, BootReply
  PROVE  /\ toDev = <<>> /\ toDev' = <<>> /\ toHost' = <<>> /\ toHost # <<>>
         /\ Head(toHost) = toHost[1] /\ toHost[1] \in Frames
         /\ ~(step = "EXEC_DATA" /\ Cur.kind = "fdl1") =>
              toHost[1].type = "ACK" /\ toHost[1].ck = checksum_type
<1>1. /\ toDev \in Seq(Frames) /\ toHost \in Seq(Frames) /\ step # "READ_FLASH_START"
      /\ phase = "recv" /\ toHost # <<>> /\ Accepted(Head(toHost)) /\ step # "SYNC"
      /\ toDev' = toDev /\ toHost' = Tail(toHost)
  BY BootFacts DEF BootReply
<1>2. Head(toHost) = toHost[1] /\ toHost[1] \in Frames /\ Len(toHost) \in Nat \ {0}
  BY <1>1, TailElements
<1>3. ~(step = "EXEC_DATA" /\ Cur.kind = "fdl1") => AckOf(toHost[1], checksum_type)
  BY <1>1, <1>2 DEF Accepted, Verified, AckOf
<1>4. toDev = <<>> /\ Len(toHost) = 1
  <2>1. CASE step = "CONNECT"
    <3>1. AckOf(toHost[1], checksum_type)
      BY <1>3, <2>1
    <3>2. toDev = <<>> /\ NoAck(toHost, Len(toHost) - 1, checksum_type)
      BY <1>1, <1>2, <2>1, <3>1 DEF PipeInv, NoAck
    <3>3. ~(1 \in 1..(Len(toHost) - 1))
      BY <3>1, <3>2 DEF NoAck
    <3>4. Len(toHost) = 1
      <4>1. ASSUME NEW n \in Nat \ {0}, ~(1 \in 1..(n - 1)) PROVE n = 1
        BY <4>1
      <4> QED BY <1>2, <3>3, <4>1
    <3> QED BY <3>2, <3>4
  <2>2. CASE step # "CONNECT"
    BY <1>1, <2>2 DEF PipeInv, OneFrame
  <2> QED BY <2>1, <2>2
<1>5. Tail(toHost) = <<>>
  BY <1>1, <1>4, SingleSeq
<1> QED BY <1>1, <1>2, <1>3, <1>4, <1>5 DEF AckOf

\* A boot task starts at the beginning of a command or after another one only.
LEMMA NotBooting ==
  ASSUME TypeOK, TaskInv, HostStep, ~Booting
  PROVE  ~Booting'
<1>1. clean' = clean /\ Running /\ (clean => Cur.kind \notin BootKinds)
  BY HostStepFrame DEF Booting
<1>2. ASSUME Booting' PROVE FALSE
  <2>1. /\ todo \in Seq(Tasks) /\ Tail(todo) \in Seq(Tasks) /\ Cur.kind \notin BootKinds /\ Running'
        /\ Cur'.kind \in BootKinds
    BY <1>1, <1>2, CurType DEF TypeOK, HostTypeOK, ControlTypeOK, Booting
  <2>2. Plain(Tail(todo))
    BY <1>1, <2>1 DEF TaskInv, BootKinds
  <2>3. todo' = Tail(todo)
    BY <2>1, HostTodo DEF Cur, Running, BootKinds
  <2>4. Cur'.kind \notin BootKinds
    BY <2>1, <2>2, <2>3, PlainTail DEF Cur, Running, BootKinds
  <2> QED BY <2>1, <2>4
<1> QED BY <1>2

\* A step of the program keeps PipeInv.
LEMMA PipeHost ==
  ASSUME TypeOK, TypeOK', TaskInv, PipeInv, HostStep
  PROVE  PipeInv'
<1>1. CASE ~Booting
  BY <1>1, NotBooting DEF PipeInv
<1> SUFFICES ASSUME Booting PROVE PipeInv'
  BY <1>1
<1>2. /\ step \in {"SYNC", "CONNECT", "START_DATA", "MIDST_DATA", "END_DATA", "EXEC_DATA"}
      /\ Cur.kind \in BootKinds
      /\ checksum_type = IF Cur.kind = "bootrom" THEN "crc" ELSE "ip"
      /\ toDev \in Seq(Frames) /\ toHost \in Seq(Frames) /\ off' \in Nat
      /\ clean' = clean
  BY BootFacts, HostStepFrame DEF TypeOK, HostTypeOK
<1>3. Cur.kind = "bootrom" => Silent("ip")'
  <2>1. Cur.kind = "bootrom" => \A m : Sendable(m) => m.ck # "ip"
    BY <1>2 DEF Sendable
  <2> QED BY <2>1, SilentHost DEF PipeInv
<1>4. todo' = todo => Cur' = Cur /\ checksum_type' = checksum_type /\ Booting'
  BY <1>2 DEF Cur, checksum_type, Booting, Running
<1>5. CASE SyncMove
  <2>1. step = "SYNC" /\ todo' = todo
        /\ (step' = "SYNC" \/ (step' = "CONNECT" /\ phase' = "send"))
    BY <1>5 DEF SyncMove
  <2>2. \A m : Sendable(m) => m.ck # checksum_type
    BY <1>2, <2>1 DEF Sendable
  <2>3. PICK k : k = checksum_type
    OBVIOUS
  <2>4. Silent(k)
    BY <2>1, <2>3 DEF PipeInv
  <2>5. Silent(k)'
    BY <2>2, <2>3, <2>4, SilentHost
  <2>6. Silent(checksum_type)'
    BY <1>4, <2>1, <2>3, <2>5
  <2> QED BY <1>3, <1>4, <2>1, <2>6 DEF PipeInv
<1>6. CASE BootAbandoned \/ EndTask(TRUE)
  <2>1. Booting' => Cur.kind = "bootrom" /\ Cur' = Fdl1 /\ step' = "SYNC"
    BY <1>2, <1>6, BootLeave DEF BootAbandoned
  <2>2. Fdl1.kind = "fdl1"
    BY DEF Fdl1, Task
  <2>3. Booting' => checksum_type' = "ip" /\ Cur'.kind = "fdl1" /\ step' = "SYNC" /\ Silent("ip")'
    BY <1>3, <2>1, <2>2 DEF checksum_type
  <2>4. Booting' => Silent(checksum_type)'
    BY <2>3
  <2> QED BY <2>3, <2>4 DEF PipeInv
<1>7. CASE BootReply
  <2>1. Advance(off') /\ step # "SYNC" /\ toDev' = <<>> /\ toHost' = <<>>
    BY <1>7, ReplyAlone DEF BootReply
  <2>2. CASE EndTask(TRUE)
    BY <1>6, <2>2
  <2>3. ASSUME NEW c \in {"START_DATA", "MIDST_DATA", "END_DATA", "EXEC_DATA"}, Exchange(c)
        PROVE  PipeInv'
    BY <1>3, <1>4, <2>1, <2>3 DEF Exchange, PipeInv
  <2>4. \/ EndTask(TRUE)
        \/ \E c \in {"START_DATA", "MIDST_DATA", "END_DATA", "EXEC_DATA"} : Exchange(c)
    BY <1>2, <2>1, BootAdvance
  <2> QED BY <2>2, <2>3, <2>4
<1>8. CASE BootWaiting
  <2>1. UNCHANGED <<todo, step, phase, toDev, toHost>>
    BY <1>8 DEF BootWaiting
  <2> QED BY <1>3, <1>4, <2>1 DEF PipeInv, Silent, NoRequest, NoAck, AckOf, OneFrame
<1>9. CASE ReadError \/ (Transfer /\ step # "SYNC") \/ ExecUnsent
  <2>1. /\ phase = "send" /\ phase' = "recv" /\ step' = step /\ step # "SYNC"
        /\ toHost' = toHost
    BY <1>2, <1>9 DEF ReadError, Transfer, ExecUnsent
  <2>2. Cur'.kind = Cur.kind /\ Running' /\ checksum_type' = checksum_type /\ Booting'
    <3>1. CASE ReadError
      <4>1. /\ Running /\ Cur = todo[1] /\ Cur \in TaskRecords /\ Len(todo) \in Nat \ {0}
        BY BootFacts, CurType
      <4> DEFINE t == [Cur EXCEPT !.size = @ + 1]
      <4>2. todo' = [todo EXCEPT ![1] = t]
        BY <3>1, <4>1 DEF ReadError
      <4>3. t.kind = Cur.kind
        BY <4>1 DEF TaskRecords
      <4> HIDE DEF t
      <4>4. Running' /\ Cur' = t
        BY <4>1, <4>2, HeadReplaced
      <4> QED BY <1>2, <4>3, <4>4 DEF checksum_type, Booting
    <3>2. CASE todo' = todo
      BY <1>2, <1>4, <3>2 DEF Booting
    <3> QED BY <1>9, <3>1, <3>2 DEF Transfer, ExecUnsent
  <2>3. CASE step = "CONNECT"
    <3>1. Transfer
      BY <1>9, <2>3 DEF ReadError, ExecUnsent
    <3>2. PICK m : Sendable(m) /\ toDev' = Append(toDev, m)
      <4>1. ~(toDev' = toDev)
        <5>1. \A x : Append(toDev, x) # toDev
          <6>1. ASSUME NEW x PROVE Append(toDev, x) # toDev
            <7>1. Len(Append(toDev, x)) = Len(toDev) + 1 /\ Len(toDev) \in Nat
              BY <1>2
            <7> QED BY <7>1
          <6> QED BY <6>1
        <5> QED BY <3>1, <5>1 DEF Transfer
      <4> QED BY <2>1, <4>1, HostPipes
    <3>3. m \in Frames /\ Silent(checksum_type)
      BY <2>1, <2>3, <3>2 DEF Sendable, PipeInv
    <3>4. /\ toDev' # <<>> /\ Len(toDev') - 1 = Len(toDev)
          /\ \A i \in 1..Len(toDev) : toDev'[i] = toDev[i]
      BY <1>2, <3>2, <3>3, AppendElements
    <3>5. NoRequest(toDev', Len(toDev') - 1, checksum_type)
          /\ NoAck(toHost', Len(toHost'), checksum_type)
      BY <2>1, <3>3, <3>4 DEF Silent, NoRequest, NoAck
    <3>6. NoRequest(toDev', Len(toDev') - 1, checksum_type')
          /\ NoAck(toHost', Len(toHost'), checksum_type')
      BY <2>2, <3>5
    <3> QED BY <1>3, <2>1, <2>2, <2>3, <3>4, <3>6 DEF PipeInv
  <2>4. CASE step # "CONNECT"
    <3>1. toDev = <<>> /\ toHost = <<>>
      BY <2>1, <2>4 DEF PipeInv
    <3>2. toDev' = <<>> \/ \E m : toDev' = Append(<<>>, m)
      BY <1>9, <3>1 DEF ReadError, Transfer, ExecUnsent
    <3>3. OneFrame'
      BY <2>1, <3>1, <3>2, AppendToEmpty DEF OneFrame
    <3> QED BY <1>3, <2>1, <2>2, <2>4, <3>3 DEF PipeInv
  <2> QED BY <2>3, <2>4
<1> QED BY <1>5, <1>6, <1>7, <1>8, <1>9, BootHost

\* So does an answer of the phone.
LEMMA PipeServe ==
  ASSUME TypeOK, SyncInv, PipeInv, Booting, DevServe, UNCHANGED hostVars
  PROVE  PipeInv'
<1>1. UNCHANGED <<todo, clean, step, phase>>
  BY DEF hostVars
<1>2. Cur' = Cur /\ checksum_type' = checksum_type
  BY <1>1 DEF Cur, checksum_type
<1>3. /\ toDev \in Seq(Frames) /\ toHost \in Seq(Frames) /\ toDev # <<>> /\ toDev' = Tail(toDev)
      /\ phase \in {"send", "recv"}
  BY BootFacts, ServeAnswer
<1>4. Cur.kind = "bootrom" => Silent("ip")'
  BY SilentServe DEF PipeInv
<1> DEFINE k == checksum_type
<1>5. step = "SYNC" \/ (step = "CONNECT" /\ phase = "send") => Silent(checksum_type)'
  <2>1. PICK x : x = checksum_type
    OBVIOUS
  <2>2. step = "SYNC" \/ (step = "CONNECT" /\ phase = "send") => Silent(x)
    BY <2>1 DEF PipeInv
  <2> QED BY <1>2, <2>1, <2>2, SilentServe
<1>6. ASSUME step = "CONNECT", phase = "recv"
      PROVE  \/ /\ toDev' # <<>> /\ NoRequest(toDev', Len(toDev') - 1, k)
                /\ NoAck(toHost', Len(toHost'), k)
             \/ toDev' = <<>> /\ NoAck(toHost', Len(toHost') - 1, k)
  <2>1. NoRequest(toDev, Len(toDev) - 1, k) /\ NoAck(toHost, Len(toHost), k)
    BY <1>3, <1>6 DEF PipeInv
  <2>2. /\ Tail(toDev) \in Seq(Frames) /\ Len(toDev') = Len(toDev) - 1 /\ Len(toDev) \in Nat \ {0}
        /\ \A i \in 1..(Len(toDev) - 1) : toDev'[i] = toDev[i + 1]
    BY <1>3, TailElements
  <2>3. CASE Len(toDev) = 1
    <3>1. toDev' = <<>>
      BY <1>3, <2>3, SingleSeq
    <3>2. CASE toHost' = toHost
      BY <1>3, <2>1, <3>1, <3>2 DEF NoAck
    <3>3. CASE \E m \in Frames : toHost' = Append(toHost, m)
      <4>1. Len(toHost') - 1 = Len(toHost) /\ \A i \in 1..Len(toHost) : toHost'[i] = toHost[i]
        BY <1>3, <3>3, AppendElements
      <4> QED BY <2>1, <3>1, <4>1 DEF NoAck
    <3> QED BY <3>2, <3>3, ServeAnswer
  <2>4. CASE Len(toDev) # 1
    <3>1. 1 \in 1..(Len(toDev) - 1) /\ \A i \in 1..(Len(toDev') - 1) : i + 1 \in 1..(Len(toDev) - 1)
                                      /\ i \in 1..(Len(toDev) - 1)
      BY <2>2, <2>4
    <3>2. toDev[1].ck # k /\ NoRequest(toDev', Len(toDev') - 1, k)
      BY <2>1, <2>2, <3>1 DEF NoRequest
    <3>3. toDev' # <<>>
      <4>1. Len(toDev') # 0
        BY <2>2, <2>4
      <4> QED BY <4>1
    <3>4. NoAck(toHost', Len(toHost'), k)
      <4>1. CASE toHost' = toHost
        BY <2>1, <4>1
      <4>2. CASE \E m \in Frames : toHost' = Append(toHost, m) /\ (m.type = "ACK" => m.ck = toDev[1].ck)
        <5>1. PICK m \in Frames : toHost' = Append(toHost, m) /\ (m.type = "ACK" => m.ck = toDev[1].ck)
          BY <4>2
        <5>2. ~AckOf(m, k)
          BY <3>2, <5>1 DEF AckOf
        <5> QED BY <1>3, <2>1, <5>1, <5>2, AppendElements DEF NoAck
      <4> QED BY <4>1, <4>2, ServeAnswer
    <3> QED BY <3>2, <3>3, <3>4
  <2> QED BY <2>3, <2>4
<1>7. ASSUME step \notin {"SYNC", "CONNECT"}
      PROVE  phase = "recv" /\ OneFrame'
  <2>1. phase = "recv" /\ Len(toDev) = 1 /\ toHost = <<>>
    BY <1>3, <1>7 DEF PipeInv, OneFrame
  <2>2. toDev' = <<>>
    BY <1>3, <2>1, SingleSeq
  <2>3. toHost' = <<>> \/ \E m : toHost' = Append(<<>>, m)
    BY <2>1, ServeAnswer
  <2> QED BY <2>1, <2>2, <2>3, AppendToEmpty DEF OneFrame
<1> QED BY <1>1, <1>2, <1>4, <1>5, <1>6, <1>7 DEF PipeInv

\* A boot that starts clean starts with SYNC and empty pipes.
LEMMA StartBoot ==
  ASSUME TypeOK, StartRun, Booting'
  PROVE  /\ step' = "SYNC" /\ phase' = "send" /\ toDev' = <<>> /\ toHost' = <<>>
         /\ attached /\ attached' = attached /\ Cur' = BootRom
<1>1. PICK c \in Commandline : Start(c)
  BY DEF StartRun
<1>2. /\ toDev' = toDev /\ toHost' = toHost /\ attached' = attached
      /\ clean' = (toDev = <<>> /\ toHost = <<>>)
      /\ clean' /\ todo' # <<>>
  BY <1>1, StartEffect DEF Booting, Running
<1>3. /\ todo' = Program(c.op, c.part, c.src, c.size)
      /\ phase' = "send" /\ step' = FirstStep(Cur'.kind)
  BY <1>1, <1>2, StartEffect DEF Cur
<1>4. attached
  BY <1>1, <1>2 DEF Start, Running
<1>5. Cur'.kind \in BootKinds
  BY DEF Booting
<1>6. step' = "SYNC"
  BY <1>3, <1>5 DEF FirstStep, BootKinds
<1>7. c.op \in Ops
  BY DEF Commandline
<1>8. c.op \in {"ready", "demo"}
  BY <1>3, <1>5, <1>7
     DEF Program, Ops, Reset, PowerDown, Upload, Download, Camera, Ext4fs, Task, BootKinds, Cur
<1>9. Cur' = BootRom
  BY <1>3, <1>8 DEF Program, Cur
<1> QED BY <1>2, <1>3, <1>4, <1>6, <1>9

\* Every step keeps PipeInv.
LEMMA PipeNext ==
  ASSUME TypeOK, TypeOK', TaskInv, SyncInv, PipeInv, [Next]_vars
  PROVE  PipeInv'
<1>1. CASE StartRun
  <2>1. Booting' => step' = "SYNC" /\ phase' = "send" /\ toDev' = <<>> /\ toHost' = <<>>
    BY <1>1, StartBoot
  <2> QED BY <2>1 DEF PipeInv, Silent, NoRequest, NoAck
<1>2. CASE HostNext
  BY <1>2, PipeHost DEF HostNext
<1>3. CASE DevNext \/ Replug
  <2>1. UNCHANGED hostVars
    BY <1>3 DEF DevNext, Replug
  <2>2. Booting' <=> Booting
    BY <2>1 DEF hostVars, Booting, Running, Cur
  <2>3. Booting => DevServe
    BY <1>3 DEF DevNext, Replug, Booting
  <2> QED BY <2>1, <2>2, <2>3, PipeServe DEF PipeInv
<1>4. CASE UNCHANGED vars
  BY <1>4 DEF PipeInv, Silent, NoRequest, NoAck, AckOf, OneFrame, Booting, Running, Cur, checksum_type,
         vars, hostVars, pipes
<1> QED BY <1>1, <1>2, <1>3, <1>4 DEF Next

-----------------------------------------------------------------------------
(* The images *)

\* A boot task downloads an image.
InLoad == Booting /\ step \notin {"SYNC", "CONNECT"}

\* Types and places while an image is downloaded.
LEMMA LoadFacts ==
  ASSUME TypeOK, TaskInv, PipeInv, InLoad
  PROVE  /\ step \in {"START_DATA", "MIDST_DATA", "END_DATA", "EXEC_DATA"}
         /\ Cur.part \in LoadAreas /\ Cur.part \in Memories /\ Cur.src \in Images
         /\ Cur.size \in Nat /\ FdlSize \in Nat /\ SourceLen = FdlSize /\ FdlSize <= Cur.size
         /\ off \in Nat /\ len \in Nat /\ phase \in {"send", "recv"}
         /\ Booting /\ Running /\ clean
         /\ phase = "send" => toDev = <<>> /\ toHost = <<>>
         /\ toDev # <<>> => phase = "recv" /\ Len(toDev) = 1 /\ Tail(toDev) = <<>> /\ toHost = <<>>
                            /\ Request = toDev[1] /\ toDev[1] \in Frames
<1>1. Booting /\ Cur.kind \in BootKinds /\ Cur \in TaskRecords /\ Running /\ clean
  BY BootFacts DEF InLoad
<1>2. Cur.part \in LoadAreas /\ Cur.src \in Images /\ FdlSize <= Cur.size
  BY <1>1 DEF TaskInv, BootKinds, LoadAreas, Images
<1>3. /\ phase = "send" => toDev = <<>> /\ toHost = <<>>
      /\ phase = "recv" => OneFrame
  BY <1>1 DEF InLoad, PipeInv
<1>4. toDev # <<>> => phase = "recv" /\ Len(toDev) = 1 /\ toHost = <<>>
  BY <1>1, <1>3, BootFacts DEF OneFrame
<1>5. toDev # <<>> => Tail(toDev) = <<>> /\ Request = toDev[1] /\ toDev[1] \in Frames
  BY <1>1, <1>4, BootFacts, SingleSeq DEF Request
<1>6. Cur.size \in Nat /\ FdlSize \in Nat
  BY <1>1 DEF TaskRecords
<1> QED BY <1>1, <1>2, <1>3, <1>4, <1>5, <1>6, BootFacts DEF InLoad, Memories, SourceLen

\* The request that is sent fits what the phone has of the image.
LEMMA LoadTransfer ==
  ASSUME TypeOK, TaskInv, PipeInv, LoadInv, InLoad, Transfer, UNCHANGED <<dev, mem>>
  PROVE  LoadInv'
<1>1. phase = "send" /\ Booting /\ toDev = <<>> /\ toHost = <<>>
  BY LoadFacts DEF Transfer
<1>2. PICK o \in Offsets, n \in Lengths :
         Chosen(o, n) /\ toDev' = Append(toDev, RequestFrame(o, n)) /\ len' = n
  BY DEF Transfer
<1> DEFINE m == RequestFrame(o, n)
<1>3. toDev'[1] = m /\ toHost' = <<>> /\ phase' = "recv"
      /\ UNCHANGED <<cmd, todo, step, off, clean>>
  BY <1>1, <1>2, AppendToEmpty DEF Transfer
<1>4. /\ Cur.size = FdlSize
      /\ step \in {"MIDST_DATA", "END_DATA"} => Loading(off)
      /\ step = "END_DATA" => off = FdlSize
      /\ step = "EXEC_DATA" => Loaded
  BY <1>1 DEF LoadInv, InLoad
<1>5. m.type = step /\ m.ck = checksum_type
  BY RequestCk, LoadFacts
<1>6. step = "START_DATA" => m.part = Cur.part /\ m.n = FdlSize
  BY <1>4 DEF RequestFrame, Bare
<1>7. ASSUME step = "MIDST_DATA"
      PROVE  /\ m.n = n /\ off + n <= FdlSize
             /\ m.data = [i \in 1..n |-> <<Cur.src, off + i>>]
  <2>1. o = off /\ n = Smaller(Smaller(Cur.size - off, Window), SourceLen - off) /\ n \in Nat
    BY <1>2, <1>7 DEF Chosen, Lengths
  <2>2. off + n <= FdlSize
    BY <2>1, <1>4, LoadFacts DEF Smaller
  <2>3. m.n = n /\ m.data = [i \in 1..n |-> <<Cur.src, off + i>>]
    BY <1>7, <2>1 DEF RequestFrame, Bare
  <2> QED BY <2>2, <2>3
<1> HIDE DEF m
<1>8. /\ UNCHANGED <<Cur, checksum_type>>
      /\ Loading(off)' = Loading(off) /\ Loaded' = Loaded
  BY <1>3 DEF Cur, checksum_type, Loading, Loaded, Holds
<1> QED BY <1>1, <1>2, <1>3, <1>4, <1>5, <1>6, <1>7, <1>8, LoadFacts DEF LoadInv, InLoad

\* A read() that fails makes the size one larger; the phone has what it had.
LEMMA LoadReadError ==
  ASSUME TypeOK, TaskInv, PipeInv, LoadInv, InLoad, ReadError, UNCHANGED <<dev, mem>>
  PROVE  LoadInv'
<1>1. phase = "send" /\ Booting /\ toDev = <<>> /\ toHost = <<>> /\ step = "MIDST_DATA"
  BY LoadFacts DEF ReadError
<1>2. /\ toDev'[1].type = "MALFORMED" /\ toDev'[1].ck = checksum_type
      /\ step' = "MIDST_DATA" /\ toHost' = <<>> /\ phase' = "recv"
  BY <1>1, AppendToEmpty DEF ReadError, Bare
<1>3. /\ Running /\ Cur = todo[1] /\ Cur \in TaskRecords /\ Len(todo) \in Nat \ {0}
  BY <1>1, BootFacts, CurType
<1> DEFINE t == [Cur EXCEPT !.size = @ + 1]
<1>4. todo' = [todo EXCEPT ![1] = t]
  BY <1>3 DEF ReadError
<1>5. t.kind = Cur.kind
  BY <1>3 DEF TaskRecords
<1> HIDE DEF t
<1>6. checksum_type' = checksum_type
  BY <1>3, <1>4, <1>5, HeadReplaced DEF checksum_type
<1> QED BY <1>2, <1>6 DEF LoadInv

\* An accepted reply says that the phone took the request, so the next one fits, too.
LEMMA LoadReply ==
  ASSUME TypeOK, TaskInv, PipeInv, LoadInv, InLoad, BootReply, off' \in Nat, UNCHANGED <<dev, mem>>
  PROVE  LoadInv'
<1>1. /\ toDev' = <<>> /\ toHost' = <<>> /\ toHost # <<>> /\ phase = "recv" /\ Booting
      /\ Advance(off') /\ clean' = clean /\ step # "SYNC"
      /\ ~(step = "EXEC_DATA" /\ Cur.kind = "fdl1") => toHost[1].type = "ACK"
  BY ReplyAlone DEF InLoad, BootReply
<1>2. CASE step \in {"START_DATA", "MIDST_DATA"}
  <2>1. /\ Cur.size = FdlSize
        /\ step = "START_DATA" => Loading(0)
        /\ step = "MIDST_DATA" => Loading(off + len)
    BY <1>1, <1>2 DEF LoadInv, InLoad
  <2>2. Loading(off')
    BY <1>2, <2>1 DEF BootReply
  <2>3. \/ off' < Cur.size /\ Exchange("MIDST_DATA")
        \/ off' >= Cur.size /\ Exchange("END_DATA")
    BY <1>1, <1>2, BootAdvance
  <2>4. UNCHANGED todo /\ phase' = "send"
        /\ \/ step' = "MIDST_DATA"
           \/ step' = "END_DATA" /\ off' >= Cur.size
    BY <2>3 DEF Exchange
  <2>5. step' = "END_DATA" => off' = FdlSize
    BY <2>1, <2>2, <2>4, LoadFacts DEF Loading
  <2>6. Cur' = Cur /\ Loading(off)'
    BY <2>2, <2>4 DEF Cur, Loading, Holds
  <2> QED BY <1>1, <2>1, <2>4, <2>5, <2>6 DEF LoadInv
<1>3. CASE step = "END_DATA"
  <2>1. Loaded /\ Cur.size = FdlSize
    BY <1>1, <1>3 DEF LoadInv, InLoad
  <2>2. Exchange("EXEC_DATA")
    BY <1>1, <1>3, BootAdvance
  <2>3. step' = "EXEC_DATA" /\ phase' = "send" /\ todo' = todo
    BY <2>2 DEF Exchange
  <2>4. Cur' = Cur /\ Loaded'
    BY <2>1, <2>3 DEF Cur, Loaded, Holds
  <2> QED BY <2>1, <2>3, <2>4 DEF LoadInv
<1>4. CASE step = "EXEC_DATA"
  <2>1. EndTask(TRUE)
    BY <1>1, <1>4, BootAdvance
  <2>2. Booting' => Cur' = Fdl1 /\ step' = "SYNC"
    BY <1>1, <2>1, BootLeave
  <2> QED BY <2>2 DEF LoadInv, Fdl1, Task
<1> QED BY <1>2, <1>3, <1>4, LoadFacts

\* A step of the program keeps LoadInv.
LEMMA LoadHost ==
  ASSUME TypeOK, TypeOK', TaskInv, PipeInv, LoadInv, HostStep, UNCHANGED <<dev, mem>>
  PROVE  LoadInv'
<1>1. CASE ~Booting
  BY <1>1, NotBooting DEF LoadInv
<1> SUFFICES ASSUME Booting PROVE LoadInv'
  BY <1>1
<1>2. off' \in Nat /\ clean' = clean
  BY HostStepFrame DEF TypeOK, HostTypeOK
<1>3. todo' = todo => Cur' = Cur /\ checksum_type' = checksum_type /\ Loading(off)' = Loading(off')
                      /\ Loaded' = Loaded
  BY DEF Cur, checksum_type, Loading, Loaded, Holds
<1>4. CASE SyncMove
  BY <1>3, <1>4 DEF SyncMove, LoadInv
<1>5. CASE BootAbandoned
  <2>1. Booting' => Cur' = Fdl1 /\ step' = "SYNC"
    BY <1>2, <1>5, BootLeave DEF BootAbandoned
  <2> QED BY <2>1 DEF LoadInv, Fdl1, Task
<1>6. CASE BootWaiting
  BY <1>3, <1>6 DEF BootWaiting, LoadInv, Loading, Holds, Booting, Running, Cur
<1>7. CASE ExecUnsent
  <2>1. /\ step = "EXEC_DATA" /\ phase = "send" /\ phase' = "recv" /\ step' = step /\ todo' = todo
        /\ toHost' = toHost
        /\ toDev' = toDev \/ \E o, n : toDev' = Append(toDev, RequestFrame(o, n))
    BY <1>7 DEF ExecUnsent
  <2>2. InLoad /\ toDev = <<>> /\ toHost = <<>>
    BY <2>1, LoadFacts DEF InLoad
  <2>3. Loaded /\ Cur.size = FdlSize
    BY <2>1, <2>2 DEF LoadInv, InLoad
  <2>4. toDev' # <<>> => toDev'[1].ck = checksum_type /\ toDev'[1].type = "EXEC_DATA"
    BY <2>1, <2>2, RequestCk, AppendToEmpty
  <2> QED BY <1>3, <2>1, <2>2, <2>3, <2>4 DEF LoadInv
<1>8. CASE step = "CONNECT" /\ BootReply
  <2>1. Exchange("START_DATA")
    BY <1>2, <1>8, BootAdvance DEF BootReply
  <2>2. Cur.size = FdlSize /\ toDev' = <<>> /\ toHost' = <<>>
    BY <1>8, ReplyAlone DEF LoadInv
  <2> QED BY <1>3, <2>1, <2>2 DEF Exchange, LoadInv
<1>9. CASE step = "CONNECT" /\ Transfer
  BY <1>3, <1>9 DEF Transfer, LoadInv
<1>10. CASE step \notin {"SYNC", "CONNECT"} /\ (Transfer \/ BootReply \/ ReadError)
  BY <1>2, <1>10, LoadTransfer, LoadReply, LoadReadError DEF InLoad
<1>11. step \in {"SYNC", "CONNECT"} => ~ReadError
  BY DEF ReadError
<1> QED BY <1>4, <1>5, <1>6, <1>7, <1>8, <1>9, <1>10, <1>11, BootHost DEF BootReply

\* Data that the phone stores after what it has: it then has both.
LEMMA StoreHolds ==
  ASSUME TypeOK, DevMidstData, dev.mode = "down", dev.fill + Request.n <= dev.size, NEW src,
         Holds(dev.target, src, dev.fill),
         Request.data = [i \in 1..Request.n |-> <<src, dev.fill + i>>]
  PROVE  /\ dev'.mode = "down" /\ dev'.target = dev.target /\ dev'.size = dev.size
         /\ dev'.fill = dev.fill + Request.n /\ dev'.loaded = dev.loaded /\ dev'.stage = dev.stage
         /\ \A i \in 1..dev'.fill : mem'[dev.target][i] = <<src, i>>
         /\ \A t \in Memories : t # dev.target => mem'[t] = mem[t]
<1>1. /\ dev \in DevRecords /\ dev.target \in Memories /\ dev.size <= Capacity[dev.target]
      /\ toDev \in Seq(Frames) /\ toDev # <<>> /\ Capacity[dev.target] \in Nat
  BY DEF TypeOK, DevTypeOK, PipesTypeOK, DevMidstData, Serve
<1>2. Request.n \in Nat /\ dev.fill \in Nat /\ dev.size \in Nat
  BY <1>1, ServeType DEF FrameRecords, DevRecords
<1>3. /\ dev' = [dev EXCEPT !.fill = @ + Request.n]
      /\ \A t \in Memories : t # dev.target => mem'[t] = mem[t]
      /\ \A i \in 1..Capacity[dev.target] :
              mem'[dev.target][i] = IF i \in (dev.fill + 1)..(dev.fill + Request.n)
                                    THEN Request.data[i - dev.fill] ELSE mem[dev.target][i]
  BY StoreType
<1>4. /\ dev'.mode = "down" /\ dev'.target = dev.target /\ dev'.size = dev.size
      /\ dev'.fill = dev.fill + Request.n /\ dev'.loaded = dev.loaded /\ dev'.stage = dev.stage
  BY <1>1, <1>3 DEF DevRecords
<1>5. ASSUME NEW i \in 1..(dev.fill + Request.n) PROVE mem'[dev.target][i] = <<src, i>>
  <2>1. i \in 1..Capacity[dev.target] /\ i \in Nat
    BY <1>1, <1>2
  <2>2. CASE i \in (dev.fill + 1)..(dev.fill + Request.n)
    <3>1. i - dev.fill \in 1..Request.n /\ dev.fill + (i - dev.fill) = i
      BY <1>2, <2>1, <2>2
    <3>2. mem'[dev.target][i] = Request.data[i - dev.fill]
      BY <1>3, <2>1, <2>2
    <3> QED BY <3>1, <3>2
  <2>3. CASE i \notin (dev.fill + 1)..(dev.fill + Request.n)
    <3>1. i \in 1..dev.fill
      BY <1>2, <1>5, <2>1, <2>3
    <3>2. mem'[dev.target][i] = mem[dev.target][i]
      BY <1>3, <2>1, <2>3
    <3> QED BY <3>1, <3>2 DEF Holds
  <2> QED BY <2>2, <2>3
<1> QED BY <1>3, <1>4, <1>5

\* The request of a download that the phone takes.
LEMMA LoadRequest ==
  ASSUME TypeOK, TaskInv, PipeInv, LoadInv, InLoad, DevServe, UNCHANGED hostVars
  PROVE  /\ phase = "recv" /\ toDev # <<>> /\ toHost = <<>> /\ toDev' = <<>> /\ Booting
         /\ UNCHANGED <<cmd, clean, todo, step, phase, off, len, ret>> /\ Cur' = Cur
         /\ checksum_type' = checksum_type
         /\ Request.ck = checksum_type
         /\ \/ Request.type = "MALFORMED" /\ step = "MIDST_DATA"
            \/ /\ Request.type = step
               /\ Cur.size = FdlSize
               /\ step = "START_DATA" => Request.part = Cur.part /\ Request.n = FdlSize
               /\ step = "MIDST_DATA" =>
                    /\ Loading(off)
                    /\ Request.n = len /\ off + len <= FdlSize
                    /\ Request.data = [i \in 1..len |-> <<Cur.src, off + i>>]
               /\ step = "END_DATA" => Loading(off) /\ off = FdlSize
         /\ \/ DevVerifyError \/ DevFail
            \/ DevStartData /\ step = "START_DATA"
            \/ DevMidstData /\ step = "MIDST_DATA"
            \/ DevEndData /\ step = "END_DATA"
            \/ DevExecData /\ step = "EXEC_DATA"
<1>1. toDev # <<>> /\ toDev' = Tail(toDev)
  BY DEF DevServe, DevSync, DevConnect, DevVerifyError, DevStartData, DevMidstData,
         DevEndData, DevExecData, DevReadStart, DevReadMidst, DevReadEnd, DevLeave, DevFail, Serve
<1>2. phase = "recv" /\ toHost = <<>> /\ toDev' = <<>> /\ Request = toDev[1] /\ Booting
  BY <1>1, LoadFacts
<1>3. UNCHANGED <<cmd, clean, todo, step, phase, off, len, ret>>
  BY DEF hostVars
<1>4. Cur' = Cur /\ checksum_type' = checksum_type
  BY <1>3 DEF Cur, checksum_type
<1>5. /\ Request.ck = checksum_type
      /\ \/ Request.type = "MALFORMED" /\ step = "MIDST_DATA"
         \/ /\ Request.type = step
            /\ Cur.size = FdlSize
            /\ step = "START_DATA" => Request.part = Cur.part /\ Request.n = FdlSize
            /\ step = "MIDST_DATA" =>
                 /\ Loading(off)
                 /\ Request.n = len /\ off + len <= FdlSize
                 /\ Request.data = [i \in 1..len |-> <<Cur.src, off + i>>]
            /\ step = "END_DATA" => Loading(off) /\ off = FdlSize
  BY <1>1, <1>2 DEF LoadInv, InLoad
<1>6. \/ DevVerifyError \/ DevFail
      \/ DevStartData /\ step = "START_DATA"
      \/ DevMidstData /\ step = "MIDST_DATA"
      \/ DevEndData /\ step = "END_DATA"
      \/ DevExecData /\ step = "EXEC_DATA"
  <2>1. Request.type \in {step, "MALFORMED"}
        /\ step \in {"START_DATA", "MIDST_DATA", "END_DATA", "EXEC_DATA"}
    BY <1>5, LoadFacts
  <2> QED BY <2>1
     DEF DevServe, DevSync, DevConnect, DevStartData, DevMidstData,
         DevEndData, DevExecData, DevReadStart, DevReadMidst, DevReadEnd, DevLeave, Serve
<1> QED BY <1>1, <1>2, <1>3, <1>4, <1>5, <1>6

\* The phone acknowledges a request of a download only after it has done what was asked for.
LEMMA LoadServe ==
  ASSUME TypeOK, TaskInv, PipeInv, LoadInv, InLoad, DevServe, UNCHANGED hostVars
  PROVE  LoadInv'
<1>1. /\ phase = "recv" /\ toHost = <<>> /\ toDev' = <<>> /\ Booting /\ Cur' = Cur
      /\ UNCHANGED <<cmd, clean, todo, step, phase, off, len>>
      /\ Request.ck = checksum_type
  BY LoadRequest
<1>2. dev \in DevRecords
  BY DEF TypeOK, DevTypeOK
<1>3. step = "EXEC_DATA" => Loaded'
  <2>1. ASSUME step = "EXEC_DATA" PROVE Loaded /\ mem' = mem /\ dev'.loaded = dev.loaded
    <3>1. Loaded
      BY <2>1 DEF LoadInv, InLoad
    <3>2. DevVerifyError \/ DevFail \/ DevExecData
      BY <2>1, LoadRequest
    <3>3. Request.type = "EXEC_DATA"
      BY <2>1, LoadRequest
    <3> QED BY <1>2, <3>1, <3>2, <3>3 DEF DevVerifyError, DevFail, DevExecData, DevRecords
  <2> QED BY <1>1, <2>1 DEF Loaded, Holds
<1>4. SUFFICES ASSUME toHost'[1].type = "ACK"
               PROVE  /\ Cur.size = FdlSize
                      /\ step = "START_DATA" => Loading(0)'
                      /\ step = "MIDST_DATA" => Loading(off + len)'
                      /\ step = "EXEC_DATA" /\ Cur.kind = "bootrom" => dev'.stage = "fdl1"
                      /\ step = "END_DATA" => Loaded'
  <2>1. /\ Booting /\ (step \in {"SYNC", "CONNECT"} \/ phase = "send") => Cur.size = FdlSize
        /\ Booting' <=> Booting
    BY <1>1 DEF LoadInv, Booting, Running
  <2> QED BY <1>1, <1>3, <1>4, <2>1 DEF LoadInv
<1>5. ~Answer("NAK")
  BY <1>1, <1>4, AppendToEmpty DEF Answer, Bare
<1>6. Request.type # "MALFORMED" /\ ~DevVerifyError /\ ~DevFail
  <2>1. ~DevVerifyError /\ ~DevFail
    BY <1>5 DEF DevVerifyError, DevFail
  <2>2. Request.type # "MALFORMED"
    BY <2>1, LoadRequest DEF DevStartData, DevMidstData, DevEndData, DevExecData, Serve
  <2> QED BY <2>1, <2>2
<1>7. /\ Request.type = step /\ Cur.size = FdlSize
      /\ step = "START_DATA" => Request.part = Cur.part /\ Request.n = FdlSize
      /\ step = "MIDST_DATA" =>
           /\ Loading(off)
           /\ Request.n = len /\ off + len <= FdlSize
           /\ Request.data = [i \in 1..len |-> <<Cur.src, off + i>>]
      /\ step = "END_DATA" => Loading(off) /\ off = FdlSize
      /\ \/ DevStartData /\ step = "START_DATA"
         \/ DevMidstData /\ step = "MIDST_DATA"
         \/ DevEndData /\ step = "END_DATA"
         \/ DevExecData /\ step = "EXEC_DATA"
  BY <1>6, LoadRequest
<1>8. CASE step = "START_DATA"
  <2>1. dev' = [dev EXCEPT !.mode = "down", !.target = Request.part,
                           !.size = Request.n, !.fill = 0,
                           !.loaded = @ \ {Request.part}]
    BY <1>5, <1>7, <1>8 DEF DevStartData
  <2>2. dev'.mode = "down" /\ dev'.target = Cur.part /\ dev'.size = FdlSize /\ dev'.fill = 0
    BY <1>2, <1>7, <1>8, <2>1 DEF DevRecords
  <2> QED BY <1>1, <1>7, <1>8, <2>2, LoadFacts DEF Loading, Holds
<1>9. CASE step = "MIDST_DATA"
  <2>1. /\ DevMidstData /\ Loading(off) /\ Request.n = len /\ off + len <= FdlSize
        /\ Request.data = [i \in 1..len |-> <<Cur.src, off + i>>]
    BY <1>7, <1>9
  <2>2. dev.mode = "down" /\ dev.fill + Request.n <= dev.size
    BY <1>5, <2>1 DEF DevMidstData
  <2>3. dev.target = Cur.part /\ dev.fill = off /\ dev.size = FdlSize
        /\ Holds(dev.target, Cur.src, dev.fill)
        /\ Request.data = [i \in 1..Request.n |-> <<Cur.src, dev.fill + i>>]
    BY <2>1 DEF Loading
  <2>4. /\ dev'.mode = "down" /\ dev'.target = Cur.part /\ dev'.size = FdlSize
        /\ dev'.fill = off + len
        /\ \A i \in 1..(off + len) : mem'[Cur.part][i] = <<Cur.src, i>>
    BY <2>1, <2>2, <2>3, StoreHolds
  <2> QED BY <1>1, <1>7, <1>9, <2>1, <2>4 DEF Loading, Holds
<1>10. CASE step = "END_DATA"
  <2>1. DevEndData /\ Loading(off) /\ off = FdlSize
    BY <1>7, <1>10
  <2>2. /\ mem' = mem
        /\ dev' = [dev EXCEPT !.mode = "idle", !.loaded = @ \cup ({dev.target} \cap LoadAreas)]
    BY <1>5, <2>1 DEF DevEndData
  <2>3. Cur.part \in dev'.loaded
    BY <1>2, <2>1, <2>2, LoadFacts DEF Loading, DevRecords
  <2> QED BY <1>1, <1>7, <1>10, <2>1, <2>2, <2>3 DEF Loaded, Loading, Holds
<1>11. CASE step = "EXEC_DATA"
  <2>1. DevExecData
    BY <1>7, <1>11
  <2>2. ASSUME Cur.kind = "bootrom" PROVE dev'.stage = "fdl1"
    <3>1. Request.ck = "crc"
      BY <1>1, <2>2 DEF checksum_type
    <3>2. dev.stage = "bootrom"
      BY <2>1, <3>1 DEF DevExecData, Serve, DevChecksum
    <3>3. dev' = [dev EXCEPT !.stage = "fdl1", !.synced = FALSE, !.mode = "idle"]
      BY <1>5, <2>1, <3>2 DEF DevExecData
    <3> QED BY <1>2, <3>3 DEF DevRecords
  <2> QED BY <1>7, <1>11, <2>2
<1> QED BY <1>7, <1>8, <1>9, <1>10, <1>11

\* Every step keeps LoadInv.
LEMMA LoadNext ==
  ASSUME TypeOK, TypeOK', TaskInv, PipeInv, LoadInv, [Next]_vars
  PROVE  LoadInv'
<1>1. CASE StartRun
  <2>1. Booting' => step' = "SYNC" /\ Cur' = BootRom
    BY <1>1, StartBoot
  <2> QED BY <2>1 DEF LoadInv, BootRom, Task
<1>2. CASE HostNext
  BY <1>2, LoadHost DEF HostNext, devVars
<1>3. CASE DevNext \/ Replug
  <2>1. UNCHANGED hostVars
    BY <1>3 DEF DevNext, Replug
  <2>2. UNCHANGED <<todo, step, phase, clean>> /\ Cur' = Cur /\ (Booting' <=> Booting)
    BY <2>1 DEF hostVars, Booting, Running, Cur
  <2>3. Booting => DevServe
    BY <1>3 DEF DevNext, Replug, Booting
  <2>4. CASE InLoad
    BY <2>1, <2>3, <2>4, LoadServe DEF InLoad
  <2> QED BY <2>2, <2>4 DEF LoadInv, InLoad
<1>4. CASE UNCHANGED vars
  BY <1>4 DEF LoadInv, Loading, Loaded, Holds, Booting, Running, Cur, checksum_type,
         vars, hostVars, pipes, devVars
<1> QED BY <1>1, <1>2, <1>3, <1>4 DEF Next

-----------------------------------------------------------------------------
(* "ready" *)

InReady == clean /\ Running /\ cmd.op = "ready"

BootInv == TaskInv /\ SyncInv /\ PipeInv /\ LoadInv

\* All that "ready" executes are boot tasks.
LEMMA ReadyBoots ==
  ASSUME TaskInv, InReady
  PROVE  Booting
  BY DEF TaskInv, InReady, Booting

\* When EXEC_DATA was answered, the next task finds empty pipes and FDL1 running, and
\* the command ends with both images on the phone.
LEMMA ReadyExec ==
  ASSUME TypeOK, TypeOK', BootInv, ReadyInv, InReady, BootReply, step = "EXEC_DATA",
         attached' = attached, off' \in Nat, UNCHANGED <<dev, mem>>
  PROVE  ReadyInv' /\ BootIntegrity'
<1>1. /\ TaskInv /\ PipeInv /\ LoadInv /\ Booting /\ Advance(off') /\ phase = "recv"
      /\ clean' = clean /\ cmd' = cmd
  BY ReadyBoots DEF BootInv, BootReply
<1>2. EndTask(TRUE)
  BY <1>1, BootAdvance
<1>3. /\ toDev' = <<>> /\ toHost' = <<>> /\ toHost # <<>>
      /\ Cur.kind = "bootrom" => toHost[1].type = "ACK"
  BY <1>1, ReplyAlone
<1>4. attached' /\ (Cur.kind = "fdl1" => Fdl1Runs) /\ Loaded
  BY <1>1 DEF ReadyInv, InReady, LoadInv
<1>5. CASE Cur.kind = "bootrom"
  <2>1. dev.stage = "fdl1" /\ Cur.part = "fdl1" /\ Cur.src = "fdl1.bin"
    BY <1>1, <1>3, <1>5 DEF LoadInv, TaskInv, InReady
  <2>2. Fdl1Runs'
    BY <1>4, <2>1 DEF Fdl1Runs, Loaded, Holds
  <2>3. todo' = Tail(todo) /\ todo' # <<>>
    <3>1. Tail(todo) # <<>>
      BY <1>1, <1>5 DEF TaskInv, InReady
    <3> QED BY <1>2, <3>1 DEF EndTask, BeginTask
  <2> QED BY <1>3, <1>4, <2>2, <2>3 DEF ReadyInv, BootIntegrity, Succeeded, Running
<1>6. CASE Cur.kind = "fdl1"
  <2>1. Cur.part = "fdl2" /\ Cur.src = "fdl2.bin" /\ Tail(todo) = <<>>
    BY <1>1, <1>6 DEF TaskInv, InReady
  <2>2. todo' = <<>>
    BY <1>2, <2>1 DEF EndTask
  <2>3. dev.loaded = LoadAreas
    BY <1>4, <1>6, <2>1 DEF Fdl1Runs, Loaded, LoadAreas, TypeOK, DevTypeOK, DevRecords
  <2>4. BootIntegrity'
    BY <1>4, <1>6, <2>1, <2>3 DEF BootIntegrity, Fdl1Runs, Loaded, Holds
  <2> QED BY <1>3, <1>4, <2>2, <2>4 DEF ReadyInv, Running
<1> QED BY <1>1, <1>5, <1>6 DEF Booting, BootKinds

\* A step of the program keeps what "ready" has achieved.
LEMMA ReadyHost ==
  ASSUME TypeOK, TypeOK', BootInv, ReadyInv, HostStep, UNCHANGED <<dev, mem>>
  PROVE  ReadyInv' /\ BootIntegrity'
<1>1. /\ Running /\ cmd' = cmd /\ clean' = clean /\ attached' = attached /\ off' \in Nat
      /\ TaskInv /\ PipeInv /\ LoadInv /\ toDev \in Seq(Frames)
  BY HostStepFrame, HostPipes DEF BootInv, TypeOK, HostTypeOK, PipesTypeOK
<1>2. CASE ~InReady
  BY <1>1, <1>2 DEF InReady, ReadyInv, BootIntegrity, Succeeded
<1> SUFFICES ASSUME InReady PROVE ReadyInv' /\ BootIntegrity'
  BY <1>2
<1>3. /\ Booting
      /\ step \in {"SYNC", "CONNECT", "START_DATA", "MIDST_DATA", "END_DATA", "EXEC_DATA"}
  BY <1>1, ReadyBoots, BootFacts
<1>4. CASE BootReply /\ step = "EXEC_DATA"
  BY <1>1, <1>4, ReadyExec
<1>5. CASE BootAbandoned
  <2>1. ~Running'
    BY <1>1, <1>3, <1>5, BootLeave DEF BootAbandoned, InReady
  <2>2. ret' # "ok"
    <3>1. todo' = <<>>
      BY <2>1 DEF Running
    <3>2. cmd.op # "demo" /\ EndTask(FALSE)
      BY <1>5 DEF BootAbandoned, InReady
    <3> QED BY <3>2 DEF EndTask
  <2> QED BY <2>1, <2>2 DEF ReadyInv, BootIntegrity, Succeeded
<1>6. CASE /\ Running' /\ Cur'.kind = Cur.kind
           /\ step' \in {"SYNC", "CONNECT"} =>
                step \in {"SYNC", "CONNECT"} \/ toDev' = <<>>
  <2>1. /\ attached
        /\ \A i \in 1..Len(toDev) : toDev[i].type \in StepsOf("bootrom") \cup {"MALFORMED"}
        /\ step \in {"SYNC", "CONNECT"} =>
             \A i \in 1..Len(toDev) : toDev[i].type \in {"SYNC", "CONNECT"}
        /\ Cur.kind = "fdl1" => Fdl1Runs
    BY DEF ReadyInv, InReady
  <2>2. /\ \A i \in 1..Len(toDev') : toDev'[i].type \in StepsOf("bootrom") \cup {"MALFORMED"}
        /\ step \in {"SYNC", "CONNECT"} =>
             \A i \in 1..Len(toDev') : toDev'[i].type \in {"SYNC", "CONNECT"}
    <3>1. CASE toDev' = toDev
      BY <2>1, <3>1
    <3>2. CASE \E m : Sendable(m) /\ toDev' = Append(toDev, m)
      <4>1. PICK m : Sendable(m) /\ toDev' = Append(toDev, m)
        BY <3>2
      <4>2. /\ m \in Frames /\ m.type \in StepsOf("bootrom") \cup {"MALFORMED"}
            /\ step \in {"SYNC", "CONNECT"} => m.type \in {"SYNC", "CONNECT"}
        BY <1>3, <4>1 DEF Sendable, StepsOf
      <4>3. /\ Len(toDev') = Len(toDev) + 1 /\ Len(toDev) \in Nat
            /\ \A i \in 1..Len(toDev) : toDev'[i] = toDev[i]
            /\ toDev'[Len(toDev) + 1] = m
        BY <1>1, <4>1, <4>2, AppendElements
      <4>4. \A i \in 1..Len(toDev') : i \in 1..Len(toDev) \/ i = Len(toDev) + 1
        BY <4>3
      <4> QED BY <2>1, <4>2, <4>3, <4>4
    <3> QED BY <3>1, <3>2, HostPipes
  <2>3. step' \in {"SYNC", "CONNECT"} =>
             \A i \in 1..Len(toDev') : toDev'[i].type \in {"SYNC", "CONNECT"}
    <3>1. CASE toDev' = <<>>
      BY <3>1
    <3> QED BY <1>6, <2>2, <3>1
  <2>4. Cur'.kind = "fdl1" => Fdl1Runs'
    BY <1>6, <2>1 DEF Fdl1Runs, Holds
  <2> QED BY <1>1, <1>6, <2>1, <2>2, <2>3, <2>4 DEF ReadyInv, BootIntegrity, Succeeded
<1>7. todo' = todo => Running' /\ Cur'.kind = Cur.kind
  BY <1>1 DEF Running, Cur
<1>8. CASE SyncMove \/ BootWaiting \/ ExecUnsent \/ Transfer
  BY <1>6, <1>7, <1>8 DEF SyncMove, BootWaiting, ExecUnsent, Transfer
<1>9. CASE ReadError
  <2>1. /\ Cur = todo[1] /\ Cur \in TaskRecords /\ Len(todo) \in Nat \ {0}
    BY <1>1, <1>3, BootFacts, CurType
  <2> DEFINE t == [Cur EXCEPT !.size = @ + 1]
  <2>2. todo' = [todo EXCEPT ![1] = t] /\ step' = step
    BY <1>9, <2>1 DEF ReadError
  <2>3. t.kind = Cur.kind
    BY <2>1 DEF TaskRecords
  <2> HIDE DEF t
  <2>4. Running' /\ Cur'.kind = Cur.kind
    BY <1>1, <2>2, <2>3, HeadReplaced
  <2> QED BY <1>6, <2>2, <2>4
<1>10. CASE BootReply /\ step # "EXEC_DATA"
  <2>1. \E c \in {"START_DATA", "MIDST_DATA", "END_DATA", "EXEC_DATA"} : Exchange(c)
    BY <1>1, <1>3, <1>10, BootAdvance DEF BootReply
  <2> QED BY <1>6, <1>7, <2>1 DEF Exchange
<1> QED BY <1>3, <1>4, <1>5, <1>8, <1>9, <1>10, BootHost

\* FDL1 stays where it is while FDL2 is loaded and started.
LEMMA ReadyServe ==
  ASSUME TypeOK, BootInv, ReadyInv, InReady, DevServe, UNCHANGED hostVars
  PROVE  ReadyInv' /\ BootIntegrity'
<1>1. /\ TaskInv /\ SyncInv /\ PipeInv /\ LoadInv /\ Booting /\ toDev \in Seq(Frames)
      /\ dev \in DevRecords
  BY ReadyBoots DEF BootInv, TypeOK, PipesTypeOK, DevTypeOK
<1>2. UNCHANGED <<cmd, clean, todo, step, phase, ret>>
  BY DEF hostVars
<1>3. Cur' = Cur /\ InReady' /\ Running'
  BY <1>2 DEF Cur, InReady, Running
<1>4. toDev # <<>> /\ toDev' = Tail(toDev)
  BY <1>1, ServeAnswer
<1>5. /\ Len(toDev') = Len(toDev) - 1 /\ Request = toDev[1] /\ 1 \in 1..Len(toDev)
      /\ \A i \in 1..(Len(toDev) - 1) : toDev'[i] = toDev[i + 1] /\ i + 1 \in 1..Len(toDev)
  BY <1>1, <1>4, TailElements DEF Request
<1>6. /\ attached
      /\ \A i \in 1..Len(toDev) : toDev[i].type \in StepsOf("bootrom") \cup {"MALFORMED"}
      /\ step \in {"SYNC", "CONNECT"} =>
           \A i \in 1..Len(toDev) : toDev[i].type \in {"SYNC", "CONNECT"}
      /\ Cur.kind = "fdl1" => Fdl1Runs
  BY DEF ReadyInv, InReady
<1>7. Request.type \in StepsOf("bootrom") \cup {"MALFORMED"}
  BY <1>5, <1>6
<1>8. attached'
  <2>1. ~DevLeave
    BY <1>7 DEF DevLeave, Serve, StepsOf
  <2> QED BY <1>6, <2>1
     DEF DevServe, DevSync, DevConnect, DevVerifyError, DevStartData, DevMidstData,
         DevEndData, DevExecData, DevReadStart, DevReadMidst, DevReadEnd, DevFail
<1>9. /\ \A i \in 1..Len(toDev') : toDev'[i].type \in StepsOf("bootrom") \cup {"MALFORMED"}
      /\ step \in {"SYNC", "CONNECT"} =>
           \A i \in 1..Len(toDev') : toDev'[i].type \in {"SYNC", "CONNECT"}
  BY <1>5, <1>6
<1>10. ASSUME Cur.kind = "fdl1" PROVE Fdl1Runs'
  <2>1. Fdl1Runs /\ Cur.part = "fdl2"
    BY <1>1, <1>6, <1>10 DEF TaskInv, Booting
  <2>2. CASE step \in {"SYNC", "CONNECT"}
    <3>1. Request.type \in {"SYNC", "CONNECT"}
      BY <1>5, <1>6, <2>2
    <3>2. DevSync \/ DevConnect \/ DevVerifyError \/ DevFail
      BY <3>1
         DEF DevServe, DevStartData, DevMidstData, DevEndData, DevExecData, DevReadStart,
             DevReadMidst, DevReadEnd, DevLeave, Serve
    <3>3. mem' = mem /\ dev'.stage = dev.stage /\ dev'.loaded = dev.loaded
      BY <1>1, <3>1, <3>2 DEF DevSync, DevConnect, DevVerifyError, DevFail, DevRecords
    <3> QED BY <2>1, <3>3 DEF Fdl1Runs, Holds
  <2>3. CASE step \notin {"SYNC", "CONNECT"}
    <3>1. InLoad
      BY <1>1, <2>3 DEF InLoad
    <3>2. CASE DevVerifyError \/ DevFail
      <4>1. mem' = mem /\ dev'.stage = dev.stage /\ dev'.loaded = dev.loaded
        BY <1>1, <3>2 DEF DevVerifyError, DevFail, DevRecords
      <4> QED BY <2>1, <4>1 DEF Fdl1Runs, Holds
    <3>3. CASE DevStartData /\ step = "START_DATA"
      <4>1. Request.part = "fdl2"
        BY <1>1, <2>1, <3>1, <3>3, LoadRequest
      <4>2. dev'.stage = dev.stage /\ dev'.loaded \in {dev.loaded, dev.loaded \ {Request.part}}
        <5>1. \/ dev' = dev
              \/ dev' = [dev EXCEPT !.mode = "down", !.target = Request.part, !.size = Request.n,
                                    !.fill = 0, !.loaded = @ \ {Request.part}]
          BY <3>3 DEF DevStartData
        <5> QED BY <1>1, <5>1 DEF DevRecords
      <4>3. mem' = mem
        BY <3>3 DEF DevStartData
      <4>4. "fdl1" \in dev'.loaded
        BY <2>1, <4>1, <4>2 DEF Fdl1Runs
      <4> QED BY <2>1, <4>2, <4>3, <4>4 DEF Fdl1Runs, Holds
    <3>4. CASE DevMidstData /\ step = "MIDST_DATA"
      <4>1. CASE dev.mode = "down" /\ dev.fill + Request.n <= dev.size
        <5>1. Loading(off)
          BY <1>1, <3>1, <3>4, LoadRequest DEF DevMidstData, Serve
        <5>2. "fdl1" \in Memories /\ "fdl1" # dev.target
          BY <2>1, <5>1 DEF Loading, Memories, LoadAreas
        <5>3. mem'["fdl1"] = mem["fdl1"] /\ dev' = [dev EXCEPT !.fill = @ + Request.n]
          BY <3>4, <4>1, <5>2, StoreType
        <5>4. dev'.stage = dev.stage /\ dev'.loaded = dev.loaded
          BY <1>1, <5>3 DEF DevRecords
        <5> QED BY <2>1, <5>3, <5>4 DEF Fdl1Runs, Holds
      <4>2. CASE ~(dev.mode = "down" /\ dev.fill + Request.n <= dev.size)
        BY <2>1, <3>4, <4>2 DEF DevMidstData, Fdl1Runs, Holds
      <4> QED BY <4>1, <4>2
    <3>5. CASE DevEndData \/ DevExecData
      <4>1. CASE DevEndData
        <5>1. \/ dev' = dev
              \/ dev' = [dev EXCEPT !.mode = "idle", !.loaded = @ \cup ({dev.target} \cap LoadAreas)]
          BY <4>1 DEF DevEndData
        <5>2. /\ dev'.stage = dev.stage
              /\ dev'.loaded \in {dev.loaded, dev.loaded \cup ({dev.target} \cap LoadAreas)}
          <6>1. CASE dev' = dev
            BY <6>1
          <6>2. CASE dev' # dev
            <7>1. dev' = [dev EXCEPT !.mode = "idle",
                                     !.loaded = @ \cup ({dev.target} \cap LoadAreas)]
              BY <5>1, <6>2
            <7> DEFINE l == dev.loaded \cup ({dev.target} \cap LoadAreas)
            <7>2. dev' = [dev EXCEPT !.mode = "idle", !.loaded = l]
              BY <7>1
            <7> HIDE DEF l
            <7>3. dev'.stage = dev.stage /\ dev'.loaded = l
              BY <1>1, <7>2 DEF DevRecords
            <7> QED BY <7>3 DEF l
          <6> QED BY <6>1, <6>2
        <5> QED BY <2>1, <4>1, <5>2 DEF Fdl1Runs, Holds, DevEndData
      <4>2. CASE DevExecData
        <5>1. \/ dev' = dev
              \/ dev' = [dev EXCEPT !.stage = "fdl1", !.synced = FALSE, !.mode = "idle"]
              \/ dev' = [dev EXCEPT !.stage = "fdl2", !.mode = "idle"]
          BY <4>2 DEF DevExecData
        <5>2. dev'.stage \in {dev.stage, "fdl1", "fdl2"} /\ dev'.loaded = dev.loaded
          BY <1>1, <5>1 DEF DevRecords
        <5> QED BY <2>1, <4>2, <5>2 DEF Fdl1Runs, Holds, DevExecData
      <4> QED BY <3>5, <4>1, <4>2
    <3> QED BY <1>1, <3>1, <3>2, <3>3, <3>4, <3>5, LoadRequest
  <2> QED BY <2>2, <2>3
<1> QED BY <1>2, <1>3, <1>8, <1>9, <1>10 DEF ReadyInv, BootIntegrity, Succeeded

\* The inductive invariant of "ready".
YInv == BootInv /\ ReadyInv /\ BootIntegrity

\* Every step keeps the invariant of boot tasks.
LEMMA BootNext ==
  ASSUME TypeOK, TypeOK', BootInv, [Next]_vars
  PROVE  BootInv'
  BY TaskNext, SyncNext, PipeNext, LoadNext DEF BootInv

\* Every step keeps the inductive invariant of "ready".
LEMMA ReadyNext ==
  ASSUME TypeOK, TypeOK', YInv, [Next]_vars
  PROVE  YInv'
<1>1. BootInv' /\ BootInv /\ ReadyInv /\ BootIntegrity
  BY BootNext DEF YInv
<1>2. CASE StartRun
  <2>1. PICK c \in Commandline : Start(c)
    BY <1>2 DEF StartRun
  <2>2. ret' # "ok"
    BY <2>1, StartEffect
  <2>3. InReady' => Booting'
    BY <1>1 DEF BootInv, TaskInv, InReady, Booting
  <2>4. InReady' => attached' /\ toDev' = <<>> /\ Cur' = BootRom
    BY <1>2, <2>3, StartBoot
  <2>5. BootRom.kind = "bootrom"
    BY DEF BootRom, Task
  <2> QED BY <1>1, <2>2, <2>4, <2>5 DEF YInv, ReadyInv, InReady, BootIntegrity, Succeeded
<1>3. CASE HostNext
  BY <1>1, <1>3, ReadyHost DEF HostNext, devVars, YInv
<1>4. CASE DevNext \/ Replug
  <2>1. UNCHANGED hostVars
    BY <1>4 DEF DevNext, Replug
  <2>2. UNCHANGED <<cmd, clean, todo, ret, step>>
    BY <2>1 DEF hostVars
  <2>3. CASE InReady
    <3>1. DevServe
      BY <1>4, <2>3 DEF DevNext, Replug, InReady
    <3> QED BY <1>1, <2>1, <2>3, <3>1, ReadyServe DEF YInv
  <2>4. CASE Succeeded("ready")
    <3>1. attached /\ toDev = <<>>
      BY <1>1, <2>4 DEF ReadyInv
    <3>2. ~DevServe
      BY <3>1
         DEF DevServe, DevSync, DevConnect, DevVerifyError, DevStartData, DevMidstData,
             DevEndData, DevExecData, DevReadStart, DevReadMidst, DevReadEnd, DevLeave, DevFail, Serve
    <3>3. ~Replug
      BY <3>1 DEF Replug, DevReplug
    <3> QED BY <1>4, <3>2, <3>3 DEF DevNext
  <2>5. CASE ~InReady /\ ~Succeeded("ready")
    BY <1>1, <2>2, <2>5 DEF YInv, ReadyInv, InReady, BootIntegrity, Succeeded, Running
  <2> QED BY <2>3, <2>4, <2>5
<1>5. CASE UNCHANGED vars
  BY <1>1, <1>5 DEF YInv, ReadyInv, Fdl1Runs, BootIntegrity, Succeeded, Holds, Running, Cur,
         vars, hostVars, pipes, devVars
<1> QED BY <1>2, <1>3, <1>4, <1>5 DEF Next

\* Before the first run there is nothing to keep.
LEMMA InitBoot == Init => YInv
  BY DEF Init, HostInit, PipesInit, YInv, BootInv, TaskInv, SyncInv, PipeInv, LoadInv, Booting,
         ReadyInv, BootIntegrity, Succeeded, Running

\* When "ready" found the pipes empty and reports success, FDL1 has taken over from the boot
\* ROM and both images are on the phone without a gap, for any size of the images, the data
\* frames and the load areas, any errors, delays and failures of the phone, although
\* the result of sprd_version is ignored and its answer may come late, and although any
\* frame at all counts as FDL2 running.
THEOREM BootCorrect == Spec => []BootIntegrity
<1>1. TypeOK /\ TypeOK' /\ YInv /\ [Next]_vars => YInv'
  BY ReadyNext
<1>2. YInv => BootIntegrity
  BY DEF YInv
<1> QED BY <1>1, <1>2, InitBoot, TypeCorrect, PTL DEF Spec

--------------------------------------------------------------------------------
(***************************************************************************)
(* Transfers are closed, and only the target is written.                   *)
(***************************************************************************)

Transfers == {"read", "write", "camera"}

\* The request under way is the one of the exchange, and the phone acknowledges the
\* end of a transfer once it has closed it.
CloseInv ==
  clean /\ Running /\ cmd.op \in Transfers /\ phase = "recv" =>
    /\ toDev # <<>> => \/ toDev[1].type = step
                       \/ toDev[1].type = "MALFORMED" /\ step = "MIDST_DATA"
    /\ toHost # <<>> /\ toHost[1].type = "ACK" /\ step \in {"END_DATA", "READ_FLASH_END"} =>
         dev.mode = "idle"

InTransfer == InStep /\ cmd.op \in Transfers

\* The exchanges of "read", "write" and "camera".
LEMMA TransferSteps ==
  ASSUME TypeOK, LockInv, InTransfer
  PROVE  step \in {"START_DATA", "MIDST_DATA", "END_DATA",
                   "READ_FLASH_START", "READ_FLASH_MIDST", "READ_FLASH_END"}
<1>1. Cur.kind = KindOf(cmd.op) /\ step \in StepsOf(Cur.kind)
  BY InStepTask DEF InTransfer
<1> QED BY <1>1 DEF InTransfer, Transfers, KindOf, StepsOf

\* A request that is sent is the one of its exchange.
LEMMA CloseTransfer ==
  ASSUME TypeOK, LockInv, InTransfer, Transfer
  PROVE  CloseInv' /\ Running'
<1>1. toDev = <<>> /\ toHost = <<>> /\ Running
  BY InStepPipes DEF InTransfer, InStep, Transfer
<1>2. PICK o, n : toDev' = Append(toDev, RequestFrame(o, n))
  BY DEF Transfer
<1>3. toDev'[1].type = step /\ toHost' = <<>> /\ step' = step /\ todo' = todo
  BY <1>1, <1>2, AppendToEmpty, RequestCk DEF Transfer
<1> QED BY <1>1, <1>3 DEF CloseInv, Running

\* So is the frame sent after a failed read().
LEMMA CloseReadError ==
  ASSUME TypeOK, LockInv, InTransfer, ReadError
  PROVE  CloseInv' /\ Running'
<1>1. toDev = <<>> /\ toHost = <<>> /\ Running'
  BY InStepPipes, ReadErrorTask DEF InTransfer, ReadError
<1>2. toDev'[1].type = "MALFORMED" /\ step' = "MIDST_DATA" /\ toHost' = <<>>
  BY <1>1, AppendToEmpty DEF ReadError, Bare
<1> QED BY <1>1, <1>2 DEF CloseInv

\* A reply that is taken ends the command only as the acknowledgement of a closed transfer.
LEMMA CloseTaken ==
  ASSUME TypeOK, LockInv, CloseInv, InTransfer, ReplyTaken \/ DataTaken, off' \in Nat,
         UNCHANGED dev
  PROVE  CloseInv' /\ ClosedOnSuccess'
<1>1. Advance(off') /\ toDev' = <<>> /\ toHost' = <<>> /\ InStep
  BY DEF ReplyTaken, DataTaken, InTransfer
<1>2. CloseInv'
  BY <1>1 DEF CloseInv
<1>3. CASE step \in {"START_DATA", "MIDST_DATA", "READ_FLASH_START", "READ_FLASH_MIDST"}
  <2>1. todo' = todo
    BY <1>1, <1>3, InStepAdvance DEF Exchange
  <2> QED BY <1>1, <1>2, <2>1 DEF ClosedOnSuccess, Succeeded, InStep, Running
<1>4. CASE step \in {"END_DATA", "READ_FLASH_END"}
  <2>1. toHost # <<>> /\ toHost[1].type = "ACK" /\ phase = "recv"
    BY <1>4 DEF ReplyTaken, DataTaken
  <2>2. dev.mode = "idle"
    BY <1>4, <2>1 DEF CloseInv, InTransfer, InStep
  <2> QED BY <1>2, <2>2 DEF ClosedOnSuccess
<1> QED BY <1>3, <1>4, TransferSteps

\* Whatever the phone acknowledges at the end of a transfer, it has closed.
LEMMA CloseServe ==
  ASSUME TypeOK, LockInv, CloseInv, InTransfer, DevServe, UNCHANGED hostVars
  PROVE  CloseInv'
<1>1. /\ toDev # <<>> /\ Request = toDev[1] /\ phase = "recv" /\ toHost = <<>> /\ toDev' = <<>>
  BY ServeOne, InStepPipes DEF InTransfer
<1>2. UNCHANGED <<cmd, clean, todo, step, phase>>
  BY DEF hostVars
<1>3. \/ Request.type = step
      \/ Request.type = "MALFORMED" /\ step = "MIDST_DATA"
  BY <1>1 DEF CloseInv, InTransfer, InStep
<1>4. SUFFICES ASSUME toHost'[1].type = "ACK", step \in {"END_DATA", "READ_FLASH_END"}
               PROVE  dev'.mode = "idle"
  BY <1>1, <1>2 DEF CloseInv
<1>5. ~Answer("NAK")
  BY <1>1, <1>4, AppendToEmpty DEF Answer, Bare
<1>6. Request.type = step
  BY <1>3, <1>4
<1>7. DevEndData \/ DevReadEnd
  BY <1>4, <1>5, <1>6
     DEF DevServe, DevSync, DevConnect, DevVerifyError, DevStartData, DevMidstData,
         DevEndData, DevExecData, DevReadStart, DevReadMidst, DevReadEnd, DevLeave, DevFail, Serve
<1>8. dev \in DevRecords
  BY DEF TypeOK, DevTypeOK
<1> QED BY <1>5, <1>7, <1>8 DEF DevEndData, DevReadEnd, DevRecords

CInv == LockInv /\ QuietInv /\ CloseInv /\ ClosedOnSuccess

\* A step of the program keeps CloseInv and ClosedOnSuccess.
LEMMA HostClose ==
  ASSUME TypeOK, TypeOK', CInv, HostNext
  PROVE  CloseInv' /\ ClosedOnSuccess'
<1>1. /\ LockInv /\ CloseInv /\ HostStep /\ cmd' = cmd /\ clean' = clean /\ Running
      /\ UNCHANGED dev /\ off' \in Nat
  BY HostStepFrame DEF CInv, HostNext, devVars, TypeOK, HostTypeOK
<1>2. CASE ~InTransfer
  BY <1>1, <1>2 DEF InTransfer, InStep, Strict, Transfers, CloseInv, ClosedOnSuccess, Succeeded
<1>3. CASE InTransfer
  <2>1. InStep
    BY <1>3 DEF InTransfer
  <2>2. CASE Transfer \/ ReadError
    BY <1>1, <1>3, <2>2, CloseTransfer, CloseReadError DEF ClosedOnSuccess, Succeeded
  <2>3. CASE Waiting
    BY <1>1, <2>3 DEF Waiting, CloseInv, ClosedOnSuccess, Succeeded, Running
  <2>4. CASE ReplyTaken \/ DataTaken
    BY <1>1, <1>3, <2>4, CloseTaken
  <2>5. CASE todo' = <<>> /\ ret' = "err"
    BY <2>5 DEF CloseInv, Running, ClosedOnSuccess, Succeeded
  <2> QED BY <1>1, <2>1, <2>2, <2>3, <2>4, <2>5, InStepHost
<1> QED BY <1>2, <1>3

\* A run that starts has succeeded in nothing yet.
LEMMA StartClose ==
  ASSUME TypeOK, StartRun
  PROVE  CloseInv' /\ ClosedOnSuccess'
<1>1. PICK c \in Commandline : Start(c)
  BY DEF StartRun
<1>2. todo' = <<>> \/ phase' = "send"
  BY <1>1, StartEffect
<1> QED BY <1>2, StartPending DEF CloseInv, Running, ClosedOnSuccess, Strict

\* The phone opens nothing after the end of the transfer, for nothing is under way.
LEMMA DevClose ==
  ASSUME TypeOK, CInv, DevNext \/ Replug
  PROVE  CloseInv' /\ ClosedOnSuccess'
<1>1. UNCHANGED hostVars /\ LockInv /\ QuietInv /\ CloseInv /\ ClosedOnSuccess
  BY DEF DevNext, Replug, CInv
<1>2. UNCHANGED <<cmd, clean, todo, ret, step, phase>>
  BY <1>1 DEF hostVars
<1>3. CASE InTransfer
  <2>1. DevServe /\ Running
    BY <1>3 DEF DevNext, Replug, InTransfer, InStep
  <2> QED BY <1>1, <1>2, <1>3, <2>1, CloseServe DEF ClosedOnSuccess, Succeeded, Running
<1>4. CASE \E o \in Transfers : Succeeded(o)
  <2>1. Replug
    BY <1>1, <1>4, QuietServe DEF DevNext, Strict, Transfers
  <2>2. dev'.mode = "idle"
    BY <2>1 DEF Replug, DevReplug, TypeOK, DevTypeOK, DevRecords
  <2> QED BY <1>2, <1>4, <2>2 DEF Succeeded, CloseInv, Running, ClosedOnSuccess
<1>5. CASE ~InTransfer /\ ~(\E o \in Transfers : Succeeded(o))
  BY <1>2, <1>5 DEF InTransfer, InStep, Strict, Transfers, CloseInv, ClosedOnSuccess, Succeeded, Running
<1> QED BY <1>3, <1>4, <1>5

\* A "read", a "write" or a camera listing that found the pipes empty and reported success
\* has left no transfer open on the phone, whatever errors and delays there were.
THEOREM Closed == Spec => []ClosedOnSuccess
<1>1. Init => CInv
  BY DEF Init, HostInit, CInv, LockInv, QuietInv, CloseInv, ClosedOnSuccess, Running, Succeeded
<1>2. ASSUME TypeOK, TypeOK', CInv, [Next]_vars
      PROVE  CInv'
  <2>1. LockInv' /\ QuietInv'
    BY <1>2, LockNext, QuietNext DEF CInv
  <2>2. CASE UNCHANGED vars
    BY <1>2, <2>1, <2>2 DEF CInv, CloseInv, ClosedOnSuccess, Succeeded, Running,
         vars, hostVars, pipes, devVars
  <2>3. CASE ~(UNCHANGED vars)
    BY <1>2, <2>1, <2>3, HostClose, StartClose, DevClose DEF Next, CInv
  <2> QED BY <2>2, <2>3
<1>3. CInv => ClosedOnSuccess
  BY DEF CInv
<1> QED BY <1>1, <1>2, <1>3, TypeCorrect, PTL DEF Spec

-----------------------------------------------------------------------------
(* What is written *)

\* A partition that a request under way may write is the one "write" was given; the
\* other commands write load areas only.
Targets == IF cmd.op = "write" THEN {cmd.part} ELSE LoadAreas

TargetInv ==
  clean =>
    /\ \A i \in 1..Len(toDev) : toDev[i].type = "START_DATA" => toDev[i].part \in Targets
    /\ \A i \in 1..Len(toDev) : toDev[i].type = "MIDST_DATA" =>
         (dev.mode = "down" => dev.target \in Targets)

\* The host opens a download of its target, and sends data only when that is open.
LEMMA TargetSent ==
  ASSUME TypeOK, TaskInv, WriteInv, LoadInv, clean, Running, phase = "send",
         step \in {"START_DATA", "MIDST_DATA"}
  PROVE  /\ Cur.part \in Targets
         /\ step = "MIDST_DATA" => dev.target \in Targets
<1>1. step \in StepsOf(Cur.kind) /\ Cur.kind \in Kinds
  BY CurType DEF TypeOK, HostTypeOK, ControlTypeOK, TaskRecords
<1>2. Cur.kind \in {"bootrom", "fdl1", "download"}
  BY <1>1 DEF StepsOf, Kinds
<1>3. CASE Cur.kind = "download"
  <2>1. cmd.op = "write" /\ Cur.part = cmd.part
    BY <1>3 DEF TaskInv, WriteInv
  <2>2. step = "MIDST_DATA" => dev.target = cmd.part
    BY <2>1 DEF WriteInv, Received
  <2> QED BY <2>1, <2>2 DEF Targets
<1>4. CASE Cur.kind \in BootKinds
  <2>1. cmd.op # "write" /\ Cur.part \in LoadAreas /\ Booting
    BY <1>4 DEF TaskInv, BootKinds, LoadAreas, Booting
  <2>2. step = "MIDST_DATA" => dev.target = Cur.part
    BY <2>1 DEF LoadInv, Loading
  <2> QED BY <2>1, <2>2 DEF Targets
<1> QED BY <1>2, <1>3, <1>4 DEF BootKinds

\* A step of the program keeps TargetInv.
LEMMA TargetHost ==
  ASSUME TypeOK, TaskInv, WriteInv, LoadInv, TargetInv, HostNext
  PROVE  TargetInv'
<1>1. /\ HostStep /\ Running /\ cmd' = cmd /\ clean' = clean /\ dev' = dev
      /\ toDev \in Seq(Frames)
  BY HostStepFrame DEF HostNext, devVars, TypeOK, PipesTypeOK
<1>2. Targets' = Targets
  BY <1>1 DEF Targets
<1>3. CASE toDev' = toDev
  BY <1>1, <1>2, <1>3 DEF TargetInv
<1>4. CASE clean /\ phase = "send" /\ \E m : Sendable(m) /\ toDev' = Append(toDev, m)
  <2>1. PICK m : Sendable(m) /\ toDev' = Append(toDev, m)
    BY <1>4
  <2>2. /\ m \in Frames
        /\ m.type = "START_DATA" => m.part \in Targets
        /\ m.type = "MIDST_DATA" => (dev.mode = "down" => dev.target \in Targets)
    BY <1>1, <1>4, <2>1, TargetSent DEF Sendable
  <2>3. /\ Len(toDev') = Len(toDev) + 1 /\ Len(toDev) \in Nat
        /\ \A i \in 1..Len(toDev) : toDev'[i] = toDev[i]
        /\ toDev'[Len(toDev) + 1] = m
    BY <1>1, <2>1, <2>2, AppendElements
  <2>4. \A i \in 1..Len(toDev') : i \in 1..Len(toDev) \/ i = Len(toDev) + 1
    BY <2>3
  <2> QED BY <1>1, <1>2, <1>4, <2>2, <2>3, <2>4 DEF TargetInv
<1> QED BY <1>1, <1>3, <1>4, HostPipes DEF TargetInv

\* The phone opens what it is asked to open.
LEMMA OpenServe ==
  ASSUME TypeOK, DevServe, dev'.mode = "down"
  PROVE  \/ dev.mode = "down" /\ dev'.target = dev.target
         \/ Request.type = "START_DATA" /\ dev'.target = Request.part
<1>1. dev \in DevRecords
  BY DEF TypeOK, DevTypeOK
<1>2. CASE DevStartData
  <2>1. \/ dev' = dev
        \/ dev' = [dev EXCEPT !.mode = "down", !.target = Request.part, !.size = Request.n,
                              !.fill = 0, !.loaded = @ \ {Request.part}]
    BY <1>2 DEF DevStartData
  <2>2. dev' = dev \/ dev'.target = Request.part
    BY <1>1, <2>1 DEF DevRecords
  <2> QED BY <1>2, <2>2 DEF DevStartData, Serve
<1>3. CASE DevSync \/ DevMidstData
  BY <1>1, <1>3 DEF DevSync, DevMidstData, DevRecords
<1>4. CASE DevConnect \/ DevVerifyError \/ DevReadMidst
  BY <1>4 DEF DevConnect, DevVerifyError, DevReadMidst
<1>5. CASE DevEndData \/ DevExecData
  BY <1>1, <1>5 DEF DevEndData, DevExecData, DevRecords
<1>6. CASE DevReadStart \/ DevReadEnd \/ DevLeave \/ DevFail
  BY <1>1, <1>6 DEF DevReadStart, DevReadEnd, DevLeave, DevFail, DevRecords
<1> QED BY <1>2, <1>3, <1>4, <1>5, <1>6 DEF DevServe

\* An answer of the phone keeps TargetInv.
LEMMA TargetServe ==
  ASSUME TypeOK, SyncInv, TargetInv, DevServe, UNCHANGED hostVars
  PROVE  TargetInv'
<1>1. UNCHANGED <<cmd, clean>> /\ Targets' = Targets
  BY DEF hostVars, Targets
<1>2. toDev \in Seq(Frames) /\ toDev # <<>> /\ toDev' = Tail(toDev)
  BY ServeAnswer DEF TypeOK, PipesTypeOK
<1>3. /\ Len(toDev') = Len(toDev) - 1 /\ Request = toDev[1] /\ 1 \in 1..Len(toDev)
      /\ \A i \in 1..(Len(toDev) - 1) : toDev'[i] = toDev[i + 1] /\ i + 1 \in 1..Len(toDev)
  BY <1>2, TailElements DEF Request
<1>4. ASSUME clean, NEW i \in 1..Len(toDev'), toDev'[i].type = "MIDST_DATA", dev'.mode = "down"
      PROVE  dev'.target \in Targets
  <2>1. toDev[i + 1].type = "MIDST_DATA" /\ i + 1 \in 1..Len(toDev)
    BY <1>3, <1>4
  <2>2. dev.mode = "down" => dev.target \in Targets
    BY <1>4, <2>1 DEF TargetInv
  <2>3. Request.type = "START_DATA" => Request.part \in Targets
    BY <1>3, <1>4 DEF TargetInv
  <2> QED BY <1>4, <2>2, <2>3, OpenServe
<1>5. ASSUME clean, NEW i \in 1..Len(toDev'), toDev'[i].type = "START_DATA"
      PROVE  toDev'[i].part \in Targets
  BY <1>3, <1>5 DEF TargetInv
<1> QED BY <1>1, <1>4, <1>5 DEF TargetInv

\* The inductive invariant of what is written.
EInv == BootInv /\ WInv /\ TargetInv

\* Every step keeps the inductive invariant of what is written.
LEMMA TargetNext ==
  ASSUME TypeOK, TypeOK', EInv, [Next]_vars
  PROVE  EInv'
<1>1. BootInv' /\ WInv' /\ TaskInv /\ SyncInv /\ LoadInv /\ WriteInv /\ TargetInv
  BY BootNext, WriteNext DEF EInv, BootInv, WInv
<1>2. CASE StartRun
  <2>1. PICK c \in Commandline : Start(c)
    BY <1>2 DEF StartRun
  <2>2. clean' => toDev' = <<>>
    BY <2>1, StartEffect
  <2> QED BY <1>1, <2>2 DEF EInv, TargetInv
<1>3. CASE HostNext
  BY <1>1, <1>3, TargetHost DEF EInv
<1>4. CASE DevNext
  BY <1>1, <1>4, TargetServe DEF EInv, DevNext
<1>5. CASE Replug
  BY <1>1, <1>5 DEF EInv, TargetInv, Replug, DevReplug
<1>6. CASE UNCHANGED vars
  BY <1>1, <1>6 DEF EInv, TargetInv, Targets, vars, hostVars, pipes, devVars
<1> QED BY <1>2, <1>3, <1>4, <1>5, <1>6 DEF Next

\* Only data that the phone accepts changes a memory, the open one.
LEMMA Written ==
  ASSUME TypeOK, EInv, clean, [Next]_vars, NEW p \in Partitions, mem'[p] # mem[p]
  PROVE  cmd.op = "write" /\ p = cmd.part
<1>1. TypeOK /\ TargetInv /\ SyncInv /\ p \in Memories
  BY DEF EInv, BootInv, Memories
<1>2. DevMidstData
  BY DEF Next, StartRun, HostNext, DevNext, Replug, DevReplug, vars, devVars, DevServe, DevSync,
         DevConnect, DevVerifyError, DevStartData, DevEndData, DevExecData, DevReadStart,
         DevReadMidst, DevReadEnd, DevLeave, DevFail
<1>3. dev.mode = "down" /\ dev.fill + Request.n <= dev.size
  BY <1>2 DEF DevMidstData
<1>4. p = dev.target
  BY <1>1, <1>2, <1>3, StoreType
<1>5. Request.type = "MIDST_DATA" /\ Request = toDev[1] /\ 1 \in 1..Len(toDev)
  BY <1>1, <1>2, TailElements DEF DevMidstData, Serve, Request, TypeOK, PipesTypeOK
<1>6. p \in Targets
  BY <1>1, <1>3, <1>4, <1>5 DEF TargetInv
<1> QED BY <1>6 DEF Targets

\* Until the next command starts, a command that started with empty pipes changes no
\* partition but the one "write" was given, and no other command changes any: the
\* requests of a "ready" or of the demo fill load areas only, a read none at all,
\* and none of them leaves a request behind that writes something else later.
THEOREM TargetOnly == Spec => OnlyTargetWritten
<1>1. Init => EInv
  BY InitBoot DEF Init, HostInit, PipesInit, EInv, YInv, WInv, LockInv, WriteInv, QuietInv,
         CleanWriteIntegrity, Running, Succeeded, TargetInv
<1>2. TypeOK /\ TypeOK' /\ EInv /\ [Next]_vars => EInv'
  BY TargetNext
<1>3. TypeOK /\ EInv /\ [Next]_vars =>
        [clean => \A p \in Partitions :
           mem'[p] # mem[p] => cmd.op = "write" /\ p = cmd.part]_vars
  BY Written
<1> QED BY <1>1, <1>2, <1>3, TypeCorrect, PTL DEF Spec, OnlyTargetWritten

--------------------------------------------------------------------------------
(***************************************************************************)
(* The blocks of the file systems.                                         *)
(***************************************************************************)

\* Only "ready" and the demo have several tasks.
SingleInv == Running /\ cmd.op \notin {"ready", "demo"} => Tail(todo) = <<>>

\* A file system opens the device or reads blocks, by a command that started with empty
\* pipes.
InBlocks ==
  /\ clean /\ Running
  /\ Cur.kind \in FileSystem /\ cmd.op # "demo"
  /\ step \in {"READ_FLASH_START", "READ_FLASH_MIDST"}

\* The blocks that the exchange is about.
Block == [i \in 1..len |-> mem[Cur.part][pos + i]]

Opened == dev.mode = "read" => dev.target = Cur.part

\* The frame under way is the request of the exchange or the one reply to it, and the
\* phone has no other partition open.
BlockInv ==
  InBlocks =>
    /\ phase = "send" => /\ toDev = <<>> /\ toHost = <<>>
                         /\ step = "READ_FLASH_MIDST" /\ out # <<>> => out = Block
    /\ phase = "recv" => /\ OneFrame
                         /\ toDev # <<>> \/ toHost # <<>> => cnt = 0
    /\ step = "READ_FLASH_MIDST" => Opened
    /\ phase = "recv" /\ toDev # <<>> => LET m == toDev[1] IN
         /\ m.type = step /\ m.ck = "ip"
         /\ step = "READ_FLASH_START" => m.part = Cur.part
         /\ step = "READ_FLASH_MIDST" => m.off = pos /\ m.n = len
    /\ phase = "recv" /\ toHost # <<>> => LET m == toHost[1] IN
         /\ step = "READ_FLASH_START" => Opened
         /\ step = "READ_FLASH_MIDST" /\ m.type = "READ_FLASH" => m.n = len /\ m.data = Block

-----------------------------------------------------------------------------
(* The tasks *)

\* Every step keeps the other commands at one task.
LEMMA SingleNext ==
  ASSUME TypeOK, SingleInv, [Next]_vars
  PROVE  SingleInv'
<1>1. CASE UNCHANGED <<todo, cmd>>
  BY <1>1 DEF SingleInv, Running
<1>2. CASE HostStep
  <2>1. Running /\ cmd' = cmd
    BY <1>2, HostStepFrame
  <2>2. Tail(todo') = Tail(todo) \/ todo' \in {todo, <<>>, Tail(todo)}
    BY <1>2, HostTodo
  <2> QED BY <2>1, <2>2 DEF SingleInv, Running
<1>3. CASE StartRun
  <2>1. PICK c \in Commandline : Start(c)
    BY <1>3 DEF StartRun
  <2>2. cmd' = c /\ (todo' = <<>> \/ todo' = Program(c.op, c.part, c.src, c.size))
    BY <2>1, StartEffect
  <2>3. c.op \in Ops
    BY DEF Commandline
  <2>4. ASSUME c.op \notin {"ready", "demo"}
        PROVE  \E t : Program(c.op, c.part, c.src, c.size) = <<t>>
    BY <2>3, <2>4 DEF Program, Ops
  <2>5. c.op \notin {"ready", "demo"} /\ todo' # <<>> => Tail(todo') = <<>>
    <3>1. \A t : Tail(<<t>>) = <<>>
      OBVIOUS
    <3> QED BY <2>2, <2>4, <3>1
  <2> QED BY <2>2, <2>5 DEF SingleInv, Running
<1> QED BY <1>1, <1>2, <1>3 DEF Next, HostNext, DevNext, Replug, vars, hostVars

\* A task of a file system is the only one, unless it is the demo's.
LEMMA FileSystemTask ==
  ASSUME TypeOK, TaskInv, SingleInv, Running, Cur.kind \in FileSystem, cmd.op # "demo"
  PROVE  /\ Tail(todo) = <<>> /\ Cur.part \in Memories /\ Capacity[Cur.part] \in Nat
         /\ checksum_type = "ip"
         /\ step \in {"READ_FLASH_START", "READ_FLASH_MIDST", "READ_FLASH_END"}
         /\ off \in Nat /\ pos \in Nat /\ len \in Nat
<1>1. Cur \in Tasks /\ step \in StepsOf(Cur.kind)
  BY CurType DEF TypeOK, HostTypeOK, ControlTypeOK
<1>2. Cur.part \in Memories
  BY <1>1 DEF Tasks, TaskRecords, FileSystem
<1>3. cmd.op # "ready"
  BY DEF TaskInv, FileSystem, BootKinds
<1>4. Tail(todo) = <<>>
  BY <1>3 DEF SingleInv
<1>5. checksum_type = "ip" /\ step \in {"READ_FLASH_START", "READ_FLASH_MIDST", "READ_FLASH_END"}
  BY <1>1 DEF checksum_type, StepsOf, FileSystem
<1> QED BY <1>2, <1>4, <1>5 DEF TypeOK, HostTypeOK

\* When the only task ends, so does the program.
LEMMA LastTaskEnds ==
  ASSUME NEW ok \in BOOLEAN, EndTask(ok), Tail(todo) = <<>>
  PROVE  todo' = <<>>
  BY Zenon DEF EndTask

\* Once the device is being closed, no block is read any more.
LEMMA NoBlocks ==
  ASSUME TypeOK, TaskInv, SingleInv, HostStep, ~InBlocks
  PROVE  ~InBlocks'
<1>1. Running /\ cmd' = cmd /\ clean' = clean
  BY HostStepFrame
<1> SUFFICES ASSUME InBlocks' PROVE FALSE
  OBVIOUS
<1>2. /\ clean /\ Running' /\ Cur'.kind \in FileSystem /\ cmd.op # "demo"
      /\ step' \in {"READ_FLASH_START", "READ_FLASH_MIDST"}
  BY <1>1 DEF InBlocks
<1>3. CASE Cur.kind \in FileSystem
  <2>1. step = "READ_FLASH_END" /\ Tail(todo) = <<>>
    BY <1>1, <1>2, <1>3, FileSystemTask DEF InBlocks
  <2>2. \A o : Advance(o) => todo' = <<>>
    <3> SUFFICES ASSUME NEW o, Advance(o) PROVE todo' = <<>>
      OBVIOUS
    <3>1. EndTask(Cur.kind # "closing")
      BY <2>1 DEF Advance
    <3> QED BY <2>1, <3>1, LastTaskEnds
  <2>3. EndTask(FALSE) => todo' = <<>>
    BY <2>1, LastTaskEnds
  <2>4. Abandon => todo' = <<>>
    BY <2>1, <2>3 DEF Abandon
  <2>5. step' = step \/ todo' = <<>>
    BY <2>1, <2>2, <2>3, <2>4
       DEF HostStep, Transfer, TransferError, ReceiveAccepted, ReceiveRejected, ReceiveMidst,
           ReceiveError, LocalError, ReadError
  <2> QED BY <1>2, <2>1, <2>5 DEF Running
<1>4. CASE Cur.kind \notin FileSystem
  <2>1. todo' = Tail(todo) /\ Tail(todo) # <<>>
    BY <1>2, <1>4, HostTodo DEF Cur, Running, FileSystem
  <2>2. cmd.op = "ready"
    BY <1>1, <1>2, <2>1 DEF SingleInv
  <2>3. Cur' = Fdl1
    BY <1>1, <2>1, <2>2 DEF TaskInv, BootKinds, Cur
  <2>4. Fdl1.kind = "fdl1"
    BY DEF Fdl1, Task
  <2> QED BY <1>2, <2>3, <2>4 DEF FileSystem
<1> QED BY <1>3, <1>4

-----------------------------------------------------------------------------
(* The exchanges *)

\* What is in the pipes while a file system reads: nothing, its request, or the reply.
LEMMA BlockPipes ==
  ASSUME TypeOK, BlockInv, InBlocks
  PROVE  /\ phase = "send" => toDev = <<>> /\ toHost = <<>>
         /\ toHost # <<>> => /\ phase = "recv" /\ toDev = <<>> /\ cnt = 0 /\ Tail(toHost) = <<>>
                             /\ Head(toHost) = toHost[1] /\ toHost[1] \in Frames
         /\ toDev # <<>>  => /\ phase = "recv" /\ toHost = <<>> /\ cnt = 0 /\ Tail(toDev) = <<>>
                             /\ Request = toDev[1] /\ toDev[1] \in Frames
<1>1. toHost \in Seq(Frames) /\ toDev \in Seq(Frames) /\ phase \in {"send", "recv"}
  BY DEF TypeOK, PipesTypeOK, HostTypeOK, ControlTypeOK
<1>2. /\ phase = "send" => toDev = <<>> /\ toHost = <<>>
      /\ phase = "recv" => /\ OneFrame
                           /\ toDev # <<>> \/ toHost # <<>> => cnt = 0
  BY DEF BlockInv
<1>3. /\ Len(toDev) = 1 => toDev # <<>>
      /\ Len(toHost) = 1 => toHost # <<>>
  BY <1>1, SingleSeq
<1> QED BY <1>1, <1>2, <1>3, SingleSeq DEF Request, OneFrame

\* A failed exchange ends the reading.
LEMMA BlockAbandon ==
  ASSUME TypeOK, TaskInv, SingleInv, InBlocks, Abandon
  PROVE  ~InBlocks'
<1>1. step \in {"READ_FLASH_START", "READ_FLASH_MIDST"} /\ Tail(todo) = <<>>
  BY FileSystemTask DEF InBlocks
<1>2. EndTask(FALSE) \/ CloseAndFail \/ Exchange("READ_FLASH_END")
  BY <1>1 DEF Abandon
<1>3. todo' = <<>> \/ step' = "READ_FLASH_END"
  BY <1>1, <1>2, LastTaskEnds DEF CloseAndFail, Exchange
<1> QED BY <1>3 DEF InBlocks, Running

\* A step of the host sends a request, takes the one reply, goes on waiting, or ends
\* the reading.
LEMMA BlockSteps ==
  ASSUME TypeOK, TaskInv, SingleInv, BlockInv, InBlocks, HostStep
  PROVE  Transfer \/ Waiting \/ ReplyTaken \/ DataTaken \/ ~InBlocks'
<1>1. /\ cmd' = cmd /\ clean' = clean /\ Tail(todo) = <<>>
      /\ step \in {"READ_FLASH_START", "READ_FLASH_MIDST"}
  BY HostStepFrame, FileSystemTask DEF InBlocks
<1>2. CASE TransferError
  BY <1>1, <1>2, BlockAbandon DEF TransferError
<1>3. CASE ReceiveRejected
  BY <1>3, BlockAbandon DEF ReceiveRejected
<1>4. CASE ReceiveAccepted
  <2>1. phase = "recv" /\ toHost # <<>> /\ toDev' = toDev /\ toHost' = Tail(toHost)
        /\ step = "READ_FLASH_START"
    BY <1>1, <1>4 DEF ReceiveAccepted
  <2>2. toDev' = <<>> /\ toHost' = <<>>
    BY <2>1, BlockPipes
  <2> QED BY <1>1, <1>4, <2>1, <2>2 DEF ReceiveAccepted, ReplyTaken
<1>5. CASE ReceiveMidst
  <2>1. /\ phase = "recv" /\ toHost # <<>> /\ toDev' = toDev /\ toHost' = Tail(toHost)
        /\ step = "READ_FLASH_MIDST" /\ UNCHANGED <<pos, len>>
    BY <1>5 DEF ReceiveMidst
  <2>2. /\ toDev' = <<>> /\ toHost' = <<>> /\ Head(toHost) = toHost[1] /\ cnt = 0 /\ toDev = <<>>
        /\ toHost[1] \in Frames
    BY <2>1, BlockPipes
  <2>3. cnt' = 0 + FrameLen(toHost[1]) /\ buf' = toHost[1]
    BY <1>5, <2>2 DEF ReceiveMidst
  <2>4. CASE cnt' # len + 1
    <3>1. UNCHANGED <<todo, step, phase, off, out, ret>>
      BY <1>5, <2>4 DEF ReceiveMidst
    <3> QED BY <1>1, <2>1, <2>2, <3>1 DEF Waiting
  <2>5. CASE cnt' = len + 1 /\ ~(FrameLen(buf') = cnt' /\ Verified(buf') /\ buf'.type = "READ_FLASH")
    <3>1. Abandon
      BY <1>5, <2>5 DEF ReceiveMidst
    <3> QED BY <3>1, BlockAbandon
  <2>6. CASE cnt' = len + 1 /\ FrameLen(buf') = cnt' /\ Verified(buf') /\ buf'.type = "READ_FLASH"
    <3>1. /\ off' = off + (IF Cur.kind \in FileSystem THEN 1 ELSE len)
          /\ out' = IF Cur.kind \in FileSystem THEN toHost[1].data ELSE out \o toHost[1].data
          /\ Advance(off')
      BY <1>5, <2>3, <2>6 DEF ReceiveMidst
    <3>2. toHost[1].n = len
      BY <2>2, <2>3, <2>6 DEF FrameLen, Frames, FrameRecords, TypeOK, HostTypeOK
    <3> QED BY <1>1, <2>1, <2>2, <2>3, <2>6, <3>1, <3>2 DEF DataTaken
  <2> QED BY <2>4, <2>5, <2>6
<1>6. CASE ReceiveError
  <2>1. CASE tries > 1
    BY <1>1, <1>6, <2>1 DEF ReceiveError, Waiting, pipes
  <2>2. CASE ~(tries > 1)
    BY <1>6, <2>2, BlockAbandon DEF ReceiveError
  <2> QED BY <2>1, <2>2
<1>7. CASE LocalError
  <2>1. EndTask(FALSE) \/ CloseAndFail \/ Exchange("READ_FLASH_END")
    BY <1>7 DEF LocalError
  <2>2. todo' = <<>> \/ step' = "READ_FLASH_END"
    BY <1>1, <2>1, LastTaskEnds DEF CloseAndFail, Exchange
  <2> QED BY <2>2 DEF InBlocks, Running
<1>8. CASE ReadError
  BY <1>1, <1>8 DEF ReadError
<1> QED BY <1>2, <1>3, <1>4, <1>5, <1>6, <1>7, <1>8 DEF HostStep

\* A request is sent into empty pipes, and is about the blocks asked for.
LEMMA BlockTransfer ==
  ASSUME TypeOK, TaskInv, SingleInv, BlockInv, InBlocks, Transfer, UNCHANGED <<dev, mem>>
  PROVE  BlockInv'
<1>1. phase = "send" /\ toDev = <<>> /\ toHost = <<>> /\ checksum_type = "ip"
      /\ step \in {"READ_FLASH_START", "READ_FLASH_MIDST"}
  BY BlockPipes, FileSystemTask DEF Transfer, InBlocks
<1>2. PICK o \in Offsets, n \in Lengths :
         toDev' = Append(toDev, RequestFrame(o, n)) /\ len' = n /\ pos' = o
  BY DEF Transfer
<1> DEFINE m == RequestFrame(o, n)
<1>3. toDev'[1] = m /\ Len(toDev') = 1 /\ toHost' = <<>> /\ phase' = "recv" /\ cnt' = 0
      /\ UNCHANGED <<cmd, todo, step, clean>>
  BY <1>1, <1>2, AppendToEmpty DEF Transfer
<1>4. m.type = step /\ m.ck = "ip"
  BY <1>1 DEF RequestFrame, Bare
<1>5. step = "READ_FLASH_START" => m.part = Cur.part
  BY <1>1 DEF RequestFrame, Bare
<1>6. step = "READ_FLASH_MIDST" => m.off = o /\ m.n = n
  BY <1>1 DEF RequestFrame, Bare
<1> HIDE DEF m
<1>7. Cur' = Cur /\ OneFrame' /\ (Opened' <=> Opened)
  BY <1>3 DEF Cur, OneFrame, Opened
<1>8. step = "READ_FLASH_MIDST" => Opened
  BY DEF BlockInv
<1> QED BY <1>2, <1>3, <1>4, <1>5, <1>6, <1>7, <1>8 DEF BlockInv

\* A receive that times out and is tried again changes nothing.
LEMMA BlockWaiting ==
  ASSUME TypeOK, BlockInv, InBlocks, Waiting, UNCHANGED <<dev, mem>>
  PROVE  BlockInv'
<1>1. UNCHANGED <<cmd, clean, todo, step, phase, pos, len, out, toDev>>
      /\ ((toHost' = toHost /\ cnt' = cnt) \/ (toHost' = <<>> /\ toDev = <<>>))
  BY DEF Waiting
<1>2. Cur' = Cur /\ Block' = Block /\ (Opened' <=> Opened)
  BY <1>1 DEF Cur, Block, Opened
<1>3. CASE toHost' = toHost /\ cnt' = cnt
  BY <1>1, <1>2, <1>3 DEF BlockInv, OneFrame
<1>4. CASE toHost' = <<>> /\ toDev = <<>>
  <2>1. OneFrame'
    BY <1>1, <1>4 DEF OneFrame
  <2> QED BY <1>1, <1>2, <1>4, <2>1 DEF BlockInv
<1> QED BY <1>1, <1>3, <1>4

\* The reply that opens the device, and the one that brings the blocks.
LEMMA BlockTaken ==
  ASSUME TypeOK, TaskInv, SingleInv, BlockInv, InBlocks, ReplyTaken \/ DataTaken,
         UNCHANGED <<dev, mem>>
  PROVE  BlockInv'
<1>1. /\ phase = "recv" /\ toHost # <<>> /\ toDev' = <<>> /\ toHost' = <<>>
      /\ UNCHANGED <<cmd, clean, pos, len>> /\ Advance(off')
      /\ step \in {"READ_FLASH_START", "READ_FLASH_MIDST"} /\ Cur.kind \in FileSystem
  BY DEF ReplyTaken, DataTaken, InBlocks
<1>2. Opened
  BY <1>1 DEF BlockInv
<1>3. DataStep("READ_FLASH_MIDST", "READ_FLASH_END", off')
  BY <1>1 DEF Advance
<1>4. todo' = todo /\ phase' = "send" /\ step' \in {"READ_FLASH_MIDST", "READ_FLASH_END"}
  BY <1>3 DEF DataStep, Exchange
<1>5. Cur' = Cur /\ Block' = Block /\ Opened'
  BY <1>1, <1>2, <1>4 DEF Cur, Block, Opened
<1>6. out' = <<>> \/ out' = Block
  <2>1. CASE ReplyTaken
    BY <1>1, <2>1 DEF ReplyTaken
  <2>2. CASE DataTaken
    BY <1>1, <2>2 DEF DataTaken, BlockInv
  <2> QED BY <2>1, <2>2
<1> QED BY <1>1, <1>4, <1>5, <1>6 DEF BlockInv

\* The phone opens the partition asked for and sends its contents, or refuses.
LEMMA BlockServe ==
  ASSUME TypeOK, TaskInv, SingleInv, StageInv, BlockInv, InBlocks, DevServe, UNCHANGED hostVars
  PROVE  BlockInv'
<1>1. toDev # <<>> /\ toDev' = Tail(toDev)
  BY DEF DevServe, DevSync, DevConnect, DevVerifyError, DevStartData, DevMidstData,
         DevEndData, DevExecData, DevReadStart, DevReadMidst, DevReadEnd, DevLeave, DevFail, Serve
<1>2. /\ phase = "recv" /\ toHost = <<>> /\ cnt = 0 /\ toDev' = <<>>
      /\ Request = toDev[1] /\ toDev[1] \in Frames
      /\ step \in {"READ_FLASH_START", "READ_FLASH_MIDST"}
  BY <1>1, BlockPipes DEF InBlocks
<1>3. UNCHANGED <<cmd, clean, todo, step, phase, pos, len, cnt, out>>
  BY DEF hostVars
<1>4. Cur' = Cur
  BY <1>3 DEF Cur
<1>5. /\ Request.type = step /\ Request.ck = "ip"
      /\ step = "READ_FLASH_START" => Request.part = Cur.part
      /\ step = "READ_FLASH_MIDST" => Request.off = pos /\ Request.n = len /\ Opened
  BY <1>1, <1>2 DEF BlockInv
<1>6. \/ DevReadStart /\ step = "READ_FLASH_START"
      \/ DevReadMidst /\ step = "READ_FLASH_MIDST"
      \/ DevVerifyError \/ DevFail
  BY <1>2, <1>5
     DEF DevServe, DevSync, DevConnect, DevStartData, DevMidstData,
         DevEndData, DevExecData, DevReadStart, DevReadMidst, DevReadEnd, DevLeave, Serve
<1>7. mem' = mem /\ dev \in DevRecords
  BY <1>6 DEF DevReadStart, DevReadMidst, DevVerifyError, DevFail, TypeOK, DevTypeOK
<1>8. Block' = Block
  BY <1>3, <1>4, <1>7 DEF Block
<1>9. PICK m : toHost' = Append(toHost, m)
  <2>1. ASSUME NEW t, Answer(t) PROVE \E m : toHost' = Append(toHost, m)
    BY <2>1 DEF Answer
  <2>2. DevReadMidst => \E m : toHost' = Append(toHost, m)
    BY <2>1 DEF DevReadMidst
  <2> QED BY <1>6, <2>1, <2>2 DEF DevReadStart, DevVerifyError, DevFail
<1>10. toHost'[1] = m /\ Len(toHost') = 1 /\ OneFrame'
  BY <1>2, <1>9, AppendToEmpty DEF OneFrame
<1>11. Opened'
  <2>1. CASE DevReadStart /\ step = "READ_FLASH_START"
    <3>1. dev'.mode = "idle" \/ dev'.target = Request.part
      BY <1>7, <2>1 DEF DevReadStart, DevRecords
    <3> QED BY <1>4, <1>5, <2>1, <3>1 DEF Opened
  <2>2. CASE step = "READ_FLASH_MIDST"
    <3>1. dev' = dev
      BY <1>5, <1>6, <2>2 DEF DevReadMidst, DevVerifyError, DevFail
    <3> QED BY <1>4, <1>5, <2>2, <3>1 DEF Opened
  <2>3. CASE step = "READ_FLASH_START" /\ DevVerifyError
    <3>1. dev' = dev /\ DevChecksum # "ip"
      BY <1>5, <2>3 DEF DevVerifyError
    <3>2. dev.mode # "read"
      BY <3>1 DEF DevChecksum, StageInv
    <3> QED BY <3>1, <3>2 DEF Opened
  <2>4. CASE step = "READ_FLASH_START" /\ DevFail
    <3>1. dev'.mode = "idle"
      BY <1>5, <1>7, <2>4 DEF DevFail, DevRecords
    <3> QED BY <3>1 DEF Opened
  <2> QED BY <1>2, <1>6, <2>1, <2>2, <2>3, <2>4
<1>12. ASSUME step = "READ_FLASH_MIDST", m.type = "READ_FLASH"
       PROVE  m.n = len /\ m.data = Block
  <2>1. ~Answer("NAK")
    BY <1>2, <1>10, <1>12, AppendToEmpty DEF Answer, Bare
  <2>2. DevReadMidst
    BY <1>6, <1>12, <2>1 DEF DevVerifyError, DevFail
  <2>3. PICK f \in Frames :
              /\ dev.mode = "read" /\ Request.off + Request.n <= Capacity[dev.target]
              /\ toHost' = Append(toHost, f)
              /\ f.type = "READ_FLASH" /\ f.n = Request.n
              /\ f.data = [i \in 1..Request.n |-> mem[dev.target][Request.off + i]]
    BY <2>1, <2>2, ReadMidstAnswer
  <2>4. f = m
    BY <1>2, <1>10, <2>3, AppendToEmpty
  <2>5. dev.target = Cur.part /\ Request.off = pos /\ Request.n = len
    BY <1>5, <1>12, <2>3 DEF Opened
  <2> QED BY <2>3, <2>4, <2>5 DEF Block
<1> QED BY <1>2, <1>3, <1>8, <1>10, <1>11, <1>12 DEF BlockInv

KInv == TaskInv /\ SingleInv /\ StageInv /\ BlockInv

\* Every step keeps the invariant.
LEMMA BlockNext ==
  ASSUME TypeOK, TypeOK', KInv, [Next]_vars
  PROVE  KInv'
<1>1. TaskInv' /\ SingleInv' /\ StageInv' /\ TaskInv /\ SingleInv /\ StageInv /\ BlockInv
  BY TaskNext, SingleNext, StageNext DEF KInv
<1> SUFFICES BlockInv'
  BY <1>1 DEF KInv
<1>2. CASE StartRun
  <2>1. PICK c \in Commandline : Start(c)
    BY <1>2 DEF StartRun
  <2>2. clean' => toDev' = <<>> /\ toHost' = <<>>
    BY <2>1, StartEffect
  <2>3. todo' # <<>> => phase' = "send" /\ step' = FirstStep(Cur'.kind)
    BY <2>1, StartEffect DEF Cur
  <2>4. InBlocks' => step' = "READ_FLASH_START"
    BY <2>3 DEF InBlocks, Running, FirstStep, FileSystem
  <2> QED BY <2>2, <2>3, <2>4 DEF BlockInv, InBlocks, Running
<1>3. CASE HostNext
  <2>1. HostStep /\ UNCHANGED <<dev, mem>>
    BY <1>3 DEF HostNext, devVars
  <2>2. CASE ~InBlocks
    BY <1>1, <2>1, <2>2, NoBlocks DEF BlockInv
  <2>3. CASE InBlocks
    BY <1>1, <2>1, <2>3, BlockSteps, BlockTransfer, BlockWaiting, BlockTaken DEF BlockInv
  <2> QED BY <2>2, <2>3
<1>4. CASE DevNext \/ Replug
  <2>1. UNCHANGED hostVars
    BY <1>4 DEF DevNext, Replug
  <2>2. InBlocks' <=> InBlocks
    BY <2>1 DEF hostVars, InBlocks, Running, Cur
  <2>3. InBlocks => DevServe
    BY <1>4 DEF DevNext, Replug, InBlocks
  <2> QED BY <1>1, <2>1, <2>2, <2>3, BlockServe DEF BlockInv
<1>5. CASE UNCHANGED vars
  BY <1>1, <1>5 DEF BlockInv, InBlocks, OneFrame, Opened, Block, Running, Cur,
         vars, hostVars, pipes, devVars
<1> QED BY <1>2, <1>3, <1>4, <1>5 DEF Next

\* Whenever FatFs (camera) or lwext4 (ext4fs) is about to ask for the next blocks,
\* in a command that started with empty pipes, the buffer it was given
\* last holds the blocks that it asked for, for any sizes of partitions and requests, any
\* errors, delays and failures, although the type of the reply that opens the partition
\* is not looked at.
THEOREM BlocksCorrect == Spec => []BlockIntegrity
<1>1. Init => KInv
  BY DEF Init, HostInit, DevInit, KInv, TaskInv, SingleInv, StageInv, BlockInv, InBlocks, Running
<1>2. TypeOK /\ TypeOK' /\ KInv /\ [Next]_vars => KInv'
  BY BlockNext
<1>3. KInv => BlockIntegrity
  BY DEF KInv, BlockInv, InBlocks, Block, BlockIntegrity
<1> QED BY <1>1, <1>2, <1>3, TypeCorrect, PTL DEF Spec

================================================================================
