-------------------------- MODULE SprdSessionProofs --------------------------
(* Proofs about SprdSession, for all partitions, files, windows, numbers of
   attempts, commands and bounds. *)
EXTENDS SprdSession, SequenceTheorems, TLAPS

USE SprdUsbAssumption, SprdHostAssumption, SprdSessionAssumption

-----------------------------------------------------------------------------
(* Type correctness *)

\* A frame without data is a frame.
LEMMA BareType ==
  ASSUME NEW type \in Commands \cup Replies, NEW ck \in ChecksumTypes,
         type \notin {"MIDST_DATA", "READ_FLASH"}
  PROVE  Bare(type, ck) \in Frames
  BY DEF Bare, Frames, FrameRecords

\* Every command line is a sequence of tasks, and not an empty one.
LEMMA TaskType ==
  ASSUME NEW c \in Commandline
  PROVE  Program(c.op, c.part, c.src, c.size) \in Seq(Tasks) \ {<<>>}
<1>1. /\ BootRom \in Tasks /\ Fdl1 \in Tasks /\ Reset \in Tasks /\ PowerDown \in Tasks
  BY DEF BootRom, Fdl1, Reset, PowerDown, Task, Tasks, TaskRecords, Kinds, Memories, LoadAreas, Images
<1>2. /\ c.part \in Partitions /\ c.src \in Files /\ c.size \in Nat /\ c.part # "none"
      /\ FileLen[c.src] \in Nat /\ c.src # "none" 
  BY DEF Commandline, Memories
<1>3. /\ Upload(c.part, c.size) \in Tasks /\ Camera(c.part, c.size) \in Tasks
      /\ Ext4fs(c.part, c.size) \in Tasks /\ Download(c.part, c.src) \in Tasks
  BY <1>2 DEF Upload, Camera, Ext4fs, Download, Task, Tasks, TaskRecords, Kinds, Memories
<1> QED
  BY <1>1, <1>3 DEF Program

\* The steps that a task may take.
LEMMA StepsType ==
  ASSUME NEW k \in Kinds
  PROVE  /\ StepsOf(k) \subseteq Commands \ {"MALFORMED"}
         /\ FirstStep(k) \in StepsOf(k)
  BY DEF StepsOf, FirstStep, Kinds, Commands

\* The task being executed is the first.
LEMMA CurType ==
  ASSUME todo \in Seq(Tasks), Running
  PROVE  /\ Cur \in Tasks /\ Cur \in TaskRecords /\ Cur = todo[1]
         /\ Len(todo) \in Nat \ {0} /\ Tail(todo) \in Seq(Tasks)
         /\ Len(Tail(todo)) = Len(todo) - 1
  BY DEF Running, Cur, Tasks

\* Beginning an exchange of the task keeps the types.
LEMMA ExchangeType ==
  ASSUME ControlTypeOK, Running, NEW c \in StepsOf(Cur.kind), Exchange(c)
  PROVE  ControlTypeOK'
<1>1. Cur.kind \in Kinds /\ Cur' = Cur /\ Running' = Running
  BY CurType DEF ControlTypeOK, TaskRecords, Exchange, Cur, Running
<1> QED
  BY <1>1, StepsType DEF ControlTypeOK, Exchange

\* Beginning a task keeps the types.
LEMMA BeginTaskType ==
  ASSUME NEW ts \in Seq(Tasks), ts # <<>>, BeginTask(ts)
  PROVE  /\ todo' \in Seq(Tasks)
         /\ step' \in Commands \ {"MALFORMED"}
         /\ Running' => step' \in StepsOf(Cur'.kind)
         /\ phase' \in {"send", "recv"}
         /\ ver' \in Nat
<1>1. Head(ts) \in TaskRecords /\ Head(ts).kind \in Kinds
  BY DEF Tasks, TaskRecords
<1> QED
  BY <1>1, StepsType DEF BeginTask, Cur, Running


\* Ending a task keeps the types, whether another follows or not.
LEMMA EndTaskType ==
  ASSUME ControlTypeOK, Running, NEW ok \in BOOLEAN, EndTask(ok)
  PROVE  ControlTypeOK'
<1>1. CASE (ok \/ cmd.op = "demo") /\ Tail(todo) # <<>>
  <2>1. Tail(todo) \in Seq(Tasks)
    BY CurType DEF ControlTypeOK
  <2>2. BeginTask(Tail(todo)) /\ UNCHANGED <<cmd, ret>>
    BY <1>1 DEF EndTask
  <2> QED
    BY <1>1, <2>1, <2>2, BeginTaskType DEF ControlTypeOK
<1>2. CASE ~((ok \/ cmd.op = "demo") /\ Tail(todo) # <<>>)
  <2>1. /\ todo' = <<>> /\ UNCHANGED <<cmd, step, phase, ver>>
        /\ ret' = IF ok \/ cmd.op = "demo" THEN "ok" ELSE "err"
    BY <1>2, Zenon DEF EndTask
  <2> QED
    BY <2>1 DEF ControlTypeOK, Running
<1> QED
  BY <1>1, <1>2

\* Going on to the next exchange keeps the types.
LEMMA AdvanceType ==
  ASSUME ControlTypeOK, Running, NEW o \in Nat, Advance(o)
  PROVE  ControlTypeOK'
<1>1. /\ Cur.kind \in Kinds /\ step \in StepsOf(Cur.kind)
  BY CurType DEF ControlTypeOK, TaskRecords
<1>2. \/ \E c \in StepsOf(Cur.kind) : Exchange(c)
      \/ EndTask(Cur.kind # "closing")
  BY <1>1 DEF Advance, DataStep, StepsOf, Kinds
<1> QED
  BY <1>2, ExchangeType, EndTaskType

\* Closing the device after a failed mount keeps the types.
LEMMA CloseAndFailType ==
  ASSUME ControlTypeOK, Running, Cur.kind = "ext4fs", CloseAndFail
  PROVE  ControlTypeOK'
<1>1. /\ Cur \in Tasks /\ Cur = todo[1] /\ Len(todo) \in Nat \ {0}
  BY CurType DEF ControlTypeOK
<1> DEFINE t == [Cur EXCEPT !.kind = "closing"]
<1>2. t \in Tasks /\ t.kind = "closing"
  BY <1>1 DEF Tasks, TaskRecords, Kinds
<1>3. todo' = [todo EXCEPT ![1] = t] 
  BY <1>1 DEF CloseAndFail
<1> HIDE DEF t
<1>4. todo' \in Seq(Tasks) /\ todo'[1] = t /\ Len(todo') = Len(todo)
  <2>1. todo \in Seq(Tasks) /\ 1 \in 1..Len(todo)
    BY <1>1 DEF ControlTypeOK
  <2> QED
    BY <1>2, <1>3, <2>1, ExceptSeq
<1>5. Cur' = t
  BY <1>1, <1>4 DEF Cur
<1>6. step' \in StepsOf(Cur'.kind) /\ step' \in Commands \ {"MALFORMED"}
  BY <1>2, <1>5 DEF CloseAndFail, StepsOf, Commands
<1> QED
  BY <1>4, <1>6 DEF ControlTypeOK, CloseAndFail

\* Every error exit keeps the types.
LEMMA AbandonType ==
  ASSUME ControlTypeOK, Running, Abandon
  PROVE  ControlTypeOK'
<1>1. /\ Cur.kind \in Kinds /\ step \in StepsOf(Cur.kind)
  BY CurType DEF ControlTypeOK, TaskRecords
<1>2. CASE step = "SYNC" /\ ver > 1
  BY <1>2 DEF Abandon, ControlTypeOK, Cur, Running
<1>3. CASE step = "SYNC" /\ ~(ver > 1)
  <2>1. Exchange("CONNECT") /\ "CONNECT" \in StepsOf(Cur.kind)
    BY <1>1, <1>3 DEF Abandon, StepsOf, Kinds
  <2> QED
    BY <2>1, ExchangeType
<1>4. CASE step # "SYNC"
  <2>1. \/ EndTask(FALSE)
        \/ Cur.kind = "ext4fs" /\ CloseAndFail
        \/ Cur.kind = "ext4fs" /\ Exchange("READ_FLASH_END")
    BY <1>4 DEF Abandon
  <2>2. Cur.kind = "ext4fs" => "READ_FLASH_END" \in StepsOf(Cur.kind)
    BY DEF StepsOf
  <2> QED
    BY <2>1, <2>2, EndTaskType, CloseAndFailType, ExchangeType
<1> QED
  BY <1>2, <1>3, <1>4

\* A function on 1..n is a sequence.
LEMMA FunctionIsSeq ==
  ASSUME NEW S, NEW n \in Nat, NEW f \in [1..n -> S]
  PROVE  f \in Seq(S) /\ Len(f) = n
  OBVIOUS

\* What is sent is a frame.
LEMMA RequestType ==
  ASSUME ControlTypeOK, Running, NEW o \in Nat, NEW n \in Nat
  PROVE  RequestFrame(o, n) \in Frames
<1>1. /\ Cur \in Tasks /\ Cur \in TaskRecords /\ step \in StepsOf(Cur.kind)
      /\ step \in Commands \ {"MALFORMED"}
  BY CurType DEF ControlTypeOK
<1>2. checksum_type \in ChecksumTypes
  BY DEF checksum_type, ChecksumTypes
<1>3. CASE step = "MIDST_DATA"
  <2>1. Cur.src \in Files \cup Images
    BY <1>1, <1>3 DEF Tasks, TaskRecords, StepsOf, Kinds
  <2> DEFINE d == [i \in 1..n |-> <<Cur.src, o + i>>]
  <2>2. d \in [1..n -> Units]
    BY <2>1 DEF Units
  <2>3. d \in Seq(Units) /\ Len(d) = n
    BY <2>2, FunctionIsSeq
  <2> HIDE DEF d
  <2>4. RequestFrame(o, n) = [type |-> "MIDST_DATA", ck |-> checksum_type, part |-> "none",
                              off |-> 0, n |-> n, data |-> d]
    BY <1>3 DEF RequestFrame, Bare, d
  <2> QED
    BY <1>2, <2>3, <2>4 DEF Frames, FrameRecords, Commands
<1>4. CASE step = "START_DATA"
  <2>1. RequestFrame(o, n) = [type |-> "START_DATA", ck |-> checksum_type, part |-> Cur.part,
                              off |-> 0, n |-> Cur.size, data |-> <<>>]
    BY <1>4 DEF RequestFrame, Bare
  <2> QED
    BY <1>1, <1>2, <2>1 DEF Frames, FrameRecords, TaskRecords, Commands
<1>5. CASE step = "READ_FLASH_START"
  <2>1. RequestFrame(o, n) = [type |-> "READ_FLASH_START", ck |-> checksum_type,
                              part |-> Cur.part, off |-> 0, n |-> 0, data |-> <<>>]
    BY <1>5 DEF RequestFrame, Bare
  <2> QED
    BY <1>1, <1>2, <2>1 DEF Frames, FrameRecords, TaskRecords, Commands
<1>6. CASE step = "READ_FLASH_MIDST"
  <2>1. RequestFrame(o, n) = [type |-> "READ_FLASH_MIDST", ck |-> checksum_type,
                              part |-> "none", off |-> o, n |-> n, data |-> <<>>]
    BY <1>6 DEF RequestFrame, Bare
  <2> QED
    BY <1>1, <1>2, <2>1 DEF Frames, FrameRecords, TaskRecords, Commands
<1>7. CASE step = "SYNC"
  BY <1>7 DEF RequestFrame, Bare, Frames, FrameRecords, Commands, ChecksumTypes
<1>8. CASE step \notin {"MIDST_DATA", "START_DATA", "READ_FLASH_START", "READ_FLASH_MIDST", "SYNC"}
  <2>1. RequestFrame(o, n) = Bare(step, checksum_type) /\ step # "READ_FLASH"
    BY <1>1, <1>8 DEF RequestFrame, Commands
  <2> QED
    BY <1>1, <1>2, <1>8, <2>1, BareType
<1> QED
  BY <1>3, <1>4, <1>5, <1>6, <1>7, <1>8

\* What a choice of offset and length may be.
LEMMA OffsetsType ==
  ASSUME ControlTypeOK, Running, off \in Nat
  PROVE  Offsets \subseteq Nat /\ Lengths \subseteq Nat
<1>1. Cur.kind \in FileSystem => Cur.part \in Memories
  BY CurType DEF ControlTypeOK, Tasks, TaskRecords, FileSystem
<1>2. Cur.kind \in FileSystem => Capacity[Cur.part] \in Nat
  BY <1>1
<1> QED
  BY <1>2 DEF Offsets, Lengths

\* The number of tries is a natural number.
LEMMA TriesType == Tries \in Nat
  BY DEF Tries

-----------------------------------------------------------------------------
(* Each action of the host preserves the types *)

\* Sending a request keeps the types.
LEMMA TransferType ==
  ASSUME TypeOK, Transfer
  PROVE  PipesTypeOK' /\ HostTypeOK'
<1>1. ControlTypeOK /\ Running /\ toDev \in Seq(Frames) /\ off \in Nat
  BY DEF TypeOK, HostTypeOK, PipesTypeOK, Transfer
<1>2. PICK o \in Offsets, n \in Lengths :
        /\ toDev' = Append(toDev, RequestFrame(o, n)) /\ pos' = o /\ len' = n
  BY DEF Transfer
<1>3. o \in Nat /\ n \in Nat
  BY <1>1, <1>2, OffsetsType
<1>4. toDev' \in Seq(Frames)
  BY <1>1, <1>2, <1>3, RequestType
<1>5. ControlTypeOK'
  BY <1>1 DEF Transfer, ControlTypeOK, Cur, Running
<1> QED
  BY <1>2, <1>3, <1>4, <1>5, TriesType DEF TypeOK, PipesTypeOK, HostTypeOK, Transfer

\* A failed bulk transfer keeps the types.
LEMMA TransferErrorType ==
  ASSUME TypeOK, TransferError
  PROVE  PipesTypeOK' /\ HostTypeOK'
<1>1. ControlTypeOK /\ Running /\ toDev \in Seq(Frames) /\ off \in Nat
  BY DEF TypeOK, HostTypeOK, PipesTypeOK, TransferError
<1>2. PICK o \in Offsets, n \in Lengths :
        /\ toDev' \in {toDev, IF attached THEN Append(toDev, RequestFrame(o, n)) ELSE toDev}
        /\ pos' = o /\ len' = n
  BY DEF TransferError
<1>3. o \in Nat /\ n \in Nat
  BY <1>1, <1>2, OffsetsType
<1>4. toDev' \in Seq(Frames)
  <2>1. Append(toDev, RequestFrame(o, n)) \in Seq(Frames)
    BY <1>1, <1>3, RequestType
  <2> QED
    BY <1>1, <1>2, <2>1
<1>5. ControlTypeOK'
  <2>1. CASE step = "EXEC_DATA" /\ Cur.kind = "fdl1"
    BY <1>1, <2>1 DEF TransferError, ControlTypeOK, Cur, Running
  <2>2. CASE ~(step = "EXEC_DATA" /\ Cur.kind = "fdl1")
    BY <1>1, <2>2, AbandonType DEF TransferError
  <2> QED
    BY <2>1, <2>2
<1>6. errs' \in Nat /\ tries' \in Nat
  BY TriesType DEF TransferError, TypeOK, HostTypeOK
<1> QED
  BY <1>2, <1>3, <1>4, <1>5, <1>6 DEF TypeOK, PipesTypeOK, HostTypeOK, TransferError

\* An accepted reply keeps the types.
LEMMA ReceiveAcceptedType ==
  ASSUME TypeOK, ReceiveAccepted
  PROVE  PipesTypeOK' /\ HostTypeOK'
<1>1. /\ ControlTypeOK /\ Running /\ toHost \in Seq(Frames) /\ toHost # <<>>
      /\ off \in Nat /\ len \in Nat /\ out \in Seq(Units)
  BY DEF TypeOK, HostTypeOK, PipesTypeOK, ReceiveAccepted
<1>2. toHost' \in Seq(Frames)
  <2>1. toHost' = Tail(toHost)
    BY DEF ReceiveAccepted
  <2> QED
    BY <1>1, <2>1
<1>3. off' \in Nat
  <2>1. off' \in {0, off + len, off}
    BY DEF ReceiveAccepted
  <2> QED
    BY <1>1, <2>1
<1>4. out' \in Seq(Units)
  <2>1. out' = IF step = "READ_FLASH_START" THEN <<>> ELSE out
    BY DEF ReceiveAccepted
  <2> QED
    BY <1>1, <2>1
<1>5. ControlTypeOK'
  <2>1. Advance(off')
    BY DEF ReceiveAccepted
  <2> QED
    BY <1>1, <1>3, <2>1, AdvanceType
<1> QED
  BY <1>2, <1>3, <1>4, <1>5 DEF TypeOK, PipesTypeOK, HostTypeOK, ReceiveAccepted

\* A refused reply keeps the types.
LEMMA ReceiveRejectedType ==
  ASSUME TypeOK, ReceiveRejected
  PROVE  PipesTypeOK' /\ HostTypeOK'
<1>1. /\ ControlTypeOK /\ Running /\ toHost \in Seq(Frames) /\ toHost # <<>>
      /\ toHost' = Tail(toHost) /\ Abandon
  BY DEF TypeOK, HostTypeOK, PipesTypeOK, ReceiveRejected
<1>2. toHost' \in Seq(Frames)
  BY <1>1
<1> QED
  BY <1>1, <1>2, AbandonType DEF TypeOK, PipesTypeOK, HostTypeOK, ReceiveRejected

\* A window that is received keeps the types.
LEMMA ReceiveMidstType ==
  ASSUME TypeOK, ReceiveMidst
  PROVE  PipesTypeOK' /\ HostTypeOK'
<1>1. /\ ControlTypeOK /\ Running /\ toHost \in Seq(Frames) /\ toHost # <<>>
      /\ off \in Nat /\ len \in Nat /\ cnt \in Nat /\ out \in Seq(Units) /\ buf \in Frames
      /\ toHost' = Tail(toHost)
      /\ cnt' = cnt + FrameLen(Head(toHost))
      /\ buf' = IF cnt = 0 THEN Head(toHost) ELSE buf
  BY DEF TypeOK, HostTypeOK, PipesTypeOK, ReceiveMidst
<1>2. /\ toHost' \in Seq(Frames) /\ Head(toHost) \in Frames
  BY <1>1
<1>3. cnt' \in Nat /\ buf' \in Frames
  <2>1. Head(toHost).n \in Nat
    BY <1>2 DEF Frames, FrameRecords
  <2>2. cnt' \in Nat
    BY <1>1, <2>1 DEF FrameLen
  <2> QED
    BY <1>1, <1>2, <2>2
<1>4. ControlTypeOK' /\ off' \in Nat /\ out' \in Seq(Units)
  <2>1. CASE cnt' # len + 1
    BY <1>1, <2>1 DEF ReceiveMidst, ControlTypeOK, Running, Cur
  <2> DEFINE Good == FrameLen(buf') = cnt' /\ Verified(buf') /\ buf'.type = "READ_FLASH"
  <2>2. CASE cnt' = len + 1 /\ Good
    <3>1. /\ off' = off + (IF Cur.kind \in FileSystem THEN 1 ELSE len)
          /\ out' = IF Cur.kind \in FileSystem THEN buf'.data ELSE out \o buf'.data
          /\ Advance(off')
      BY <2>2 DEF ReceiveMidst
    <3>2. off' \in Nat
      BY <1>1, <3>1
    <3>3. buf'.data \in Seq(Units)
      BY <1>3 DEF Frames, FrameRecords
    <3> QED
      BY <1>1, <3>1, <3>2, <3>3, AdvanceType
  <2>3. CASE cnt' = len + 1 /\ ~Good
    <3>1. Abandon /\ UNCHANGED <<off, out>>
      BY <2>3 DEF ReceiveMidst
    <3> QED
      BY <1>1, <3>1, AbandonType
  <2> QED
    BY <2>1, <2>2, <2>3
<1> QED
  BY <1>2, <1>3, <1>4 DEF TypeOK, PipesTypeOK, HostTypeOK, ReceiveMidst

\* A timeout keeps the types.
LEMMA ReceiveErrorType ==
  ASSUME TypeOK, ReceiveError
  PROVE  PipesTypeOK' /\ HostTypeOK'
<1>1. ControlTypeOK /\ Running /\ tries \in Nat
  BY DEF TypeOK, HostTypeOK, ReceiveError
<1>2. ControlTypeOK' /\ tries' \in Nat
  <2>1. CASE tries > 1
    BY <1>1, <2>1 DEF ReceiveError, ControlTypeOK, Running, Cur
  <2>2. CASE ~(tries > 1)
    BY <1>1, <2>2, AbandonType DEF ReceiveError
  <2> QED
    BY <2>1, <2>2
<1> QED
  BY <1>2 DEF TypeOK, PipesTypeOK, HostTypeOK, ReceiveError, pipes

\* A local file that fails keeps the types.
LEMMA LocalErrorType ==
  ASSUME TypeOK, LocalError
  PROVE  PipesTypeOK' /\ HostTypeOK'
<1>1. ControlTypeOK /\ Running /\ errs \in Nat
  BY DEF TypeOK, HostTypeOK, LocalError
<1>2. ControlTypeOK'
  <2>1. \/ EndTask(FALSE)
        \/ Cur.kind = "ext4fs" /\ CloseAndFail
        \/ Cur.kind = "ext4fs" /\ Exchange("READ_FLASH_END")
    BY DEF LocalError
  <2>2. Cur.kind = "ext4fs" => "READ_FLASH_END" \in StepsOf(Cur.kind)
    BY DEF StepsOf
  <2> QED
    BY <1>1, <2>1, <2>2, EndTaskType, CloseAndFailType, ExchangeType
<1>3. errs' \in Nat
  BY <1>1 DEF LocalError
<1> QED
  BY <1>2, <1>3 DEF TypeOK, PipesTypeOK, HostTypeOK, LocalError, pipes

\* A read() that returns -1 keeps the types.
LEMMA ReadErrorType ==
  ASSUME TypeOK, ReadError
  PROVE  PipesTypeOK' /\ HostTypeOK'
<1>1. /\ ControlTypeOK /\ Running /\ toDev \in Seq(Frames) /\ errs \in Nat /\ off \in Nat
      /\ step = "MIDST_DATA"
  BY DEF TypeOK, HostTypeOK, PipesTypeOK, ReadError
<1>2. /\ Cur \in Tasks /\ Cur = todo[1] /\ Len(todo) \in Nat \ {0} /\ todo \in Seq(Tasks)
  BY <1>1, CurType DEF ControlTypeOK
<1> DEFINE t == [Cur EXCEPT !.size = @ + 1]
<1>3. t \in Tasks /\ t.kind = Cur.kind
  <2>1. Cur \in TaskRecords /\ Cur.size + 1 \in Nat
    BY <1>2 DEF Tasks, TaskRecords
  <2>2. t \in TaskRecords /\ t.kind = Cur.kind /\ t.part = Cur.part /\ t.src = Cur.src
    BY <2>1 DEF TaskRecords
  <2> QED
    BY <1>2, <2>2 DEF Tasks
<1>4. todo' = [todo EXCEPT ![1] = t]
  BY <1>2 DEF ReadError
<1> HIDE DEF t
<1>5. todo' \in Seq(Tasks) /\ todo'[1] = t /\ Len(todo') = Len(todo)
  <2>1. 1 \in 1..Len(todo)
    BY <1>2
  <2> QED
    BY <1>2, <1>3, <1>4, <2>1, ExceptSeq
<1>6. Cur' = t
  BY <1>2, <1>5 DEF Cur
<1>7. ControlTypeOK'
  BY <1>1, <1>3, <1>5, <1>6 DEF ReadError, ControlTypeOK
<1>8. toDev' \in Seq(Frames)
  <2>1. Bare("MALFORMED", checksum_type) \in Frames
    BY BareType DEF checksum_type, ChecksumTypes, Commands
  <2> QED
    BY <1>1, <2>1 DEF ReadError
<1>9. errs' \in Nat /\ tries' \in Nat /\ pos' \in Nat /\ len' \in Nat /\ cnt' \in Nat
  BY <1>1, TriesType DEF ReadError
<1> QED
  BY <1>7, <1>8, <1>9 DEF TypeOK, PipesTypeOK, HostTypeOK, ReadError

-----------------------------------------------------------------------------
(* Each action of the phone preserves the types *)

\* An answer is a frame.
LEMMA AnswerType ==
  ASSUME toHost \in Seq(Frames), NEW t \in Replies \ {"READ_FLASH"}, Answer(t)
  PROVE  toHost' \in Seq(Frames)
<1>1. Bare(t, DevChecksum) \in Frames
  <2>1. DevChecksum \in ChecksumTypes /\ t \notin {"MIDST_DATA", "READ_FLASH"}
    BY DEF DevChecksum, ChecksumTypes, Replies
  <2> QED
    BY <2>1, BareType
<1> QED
  BY <1>1 DEF Answer

\* The request the phone serves is the first frame.
LEMMA ServeType ==
  ASSUME toDev \in Seq(Frames), toDev # <<>>
  PROVE  /\ Tail(toDev) \in Seq(Frames) /\ Request \in Frames /\ Request = toDev[1]
         /\ Request \in FrameRecords
  BY DEF Request, Frames

\* The actions that only look at the request and answer it.
LEMMA DevAnswerType ==
  ASSUME TypeOK,
         DevSync \/ DevConnect \/ DevVerifyError \/ DevReadEnd \/ DevLeave \/ DevFail
  PROVE  PipesTypeOK' /\ DevTypeOK'
<1>1. /\ toDev \in Seq(Frames) /\ toHost \in Seq(Frames) /\ attached \in BOOLEAN
      /\ dev \in DevRecords /\ naks \in Nat
      /\ dev.mode # "idle" => dev.target \in Memories
  BY DEF TypeOK, PipesTypeOK, DevTypeOK
<1>2. toDev' \in Seq(Frames)
  <2>1. toDev # <<>> /\ toDev' = Tail(toDev)
    BY DEF DevSync, DevConnect, DevVerifyError, DevReadEnd, DevLeave, DevFail, Serve
  <2> QED
    BY <1>1, <2>1, ServeType
<1>3. toHost' \in Seq(Frames)
  <2>1. \/ Answer("VER") \/ Answer("ACK") \/ Answer("NAK") \/ UNCHANGED toHost
    BY DEF DevSync, DevConnect, DevVerifyError, DevReadEnd, DevLeave, DevFail
  <2> QED
    BY <1>1, <2>1, AnswerType DEF Replies
<1>4. attached' \in BOOLEAN /\ naks' \in Nat /\ mem' = mem
  <2>1. mem' = mem /\ (UNCHANGED attached \/ attached' = FALSE)
    BY DEF DevSync, DevConnect, DevVerifyError, DevReadEnd, DevLeave, DevFail
  <2>2. naks' = naks \/ (naks > 0 /\ naks' = naks - 1)
    BY DEF DevSync, DevConnect, DevVerifyError, DevReadEnd, DevLeave, DevFail
  <2>3. naks' \in Nat
    BY <1>1, <2>2
  <2> QED
    BY <1>1, <2>1, <2>3
<1>5. \/ dev' = dev \/ dev' = [dev EXCEPT !.synced = TRUE]
      \/ dev' = [dev EXCEPT !.mode = "idle"]
      \/ dev' = [dev EXCEPT !.stage = "off", !.mode = "idle"]
  BY DEF DevSync, DevConnect, DevVerifyError, DevReadEnd, DevLeave, DevFail
<1>6. /\ dev' \in DevRecords /\ dev'.target = dev.target /\ dev'.size = dev.size
      /\ dev'.mode = dev.mode \/ dev'.mode = "idle"
  BY <1>1, <1>5 DEF DevRecords
<1> QED
  BY <1>2, <1>3, <1>4, <1>6 DEF TypeOK, PipesTypeOK, DevTypeOK

\* The phone opening a download keeps the types.
LEMMA DevStartDataType ==
  ASSUME TypeOK, DevStartData
  PROVE  PipesTypeOK' /\ DevTypeOK'
<1>1. /\ toDev \in Seq(Frames) /\ toHost \in Seq(Frames) /\ dev \in DevRecords
      /\ toDev # <<>> /\ toDev' = Tail(toDev)
  BY DEF TypeOK, PipesTypeOK, DevTypeOK, DevStartData, Serve
<1>2. /\ toDev' \in Seq(Frames) /\ Request \in FrameRecords
  BY <1>1, ServeType
<1>3. toHost' \in Seq(Frames)
  <2>1. Answer("ACK") \/ Answer("NAK")
    BY DEF DevStartData
  <2> QED
    BY <1>1, <2>1, AnswerType DEF Replies
<1>4. CASE Writable(Request.part) /\ Request.n <= Capacity[Request.part]
  <2>1. dev' = [dev EXCEPT !.mode = "down", !.target = Request.part,
                           !.size = Request.n, !.fill = 0, !.loaded = @ \ {Request.part}]
    BY <1>4 DEF DevStartData
  <2>2. Request.part \in Memories /\ Request.n \in Nat
    BY <1>2, <1>4 DEF Writable, Memories, LoadAreas, FrameRecords
  <2>3. dev' \in DevRecords /\ dev'.target = Request.part /\ dev'.size = Request.n
    BY <1>1, <2>1, <2>2 DEF DevRecords
  <2> QED
    BY <1>2, <1>3, <1>4, <2>2, <2>3 DEF TypeOK, PipesTypeOK, DevTypeOK, DevStartData
<1>5. CASE ~(Writable(Request.part) /\ Request.n <= Capacity[Request.part])
  <2>1. dev' = dev
    BY <1>5 DEF DevStartData
  <2> QED
    BY <1>2, <1>3, <2>1 DEF TypeOK, PipesTypeOK, DevTypeOK, DevStartData
<1> QED
  BY <1>4, <1>5

\* What the phone stores when it accepts data.
LEMMA StoreType ==
  ASSUME TypeOK, DevMidstData, dev.mode = "down" /\ dev.fill + Request.n <= dev.size
  PROVE  /\ dev' = [dev EXCEPT !.fill = @ + Request.n]
         /\ DOMAIN mem' = Memories
         /\ \A t \in Memories : t # dev.target => mem'[t] = mem[t]
         /\ mem'[dev.target] \in [1..Capacity[dev.target] -> Units]
         /\ \A i \in 1..Capacity[dev.target] :
              mem'[dev.target][i] = IF i \in (dev.fill + 1)..(dev.fill + Request.n)
                                    THEN Request.data[i - dev.fill] ELSE mem[dev.target][i]
<1>1. /\ toDev \in Seq(Frames) /\ toDev # <<>> /\ dev \in DevRecords
      /\ dev.target \in Memories /\ Request.type = "MIDST_DATA"
      /\ dev.size <= Capacity[dev.target] /\ DOMAIN mem = Memories
      /\ mem[dev.target] \in [1..Capacity[dev.target] -> Units]
  BY DEF TypeOK, PipesTypeOK, DevTypeOK, DevMidstData, Serve
<1>2. /\ Request \in Frames /\ Request \in FrameRecords
  BY <1>1, ServeType
<1>3. /\ Request.data \in Seq(Units) /\ Len(Request.data) = Request.n /\ Request.n \in Nat
      /\ dev.fill \in Nat /\ dev.size \in Nat /\ Capacity[dev.target] \in Nat
  BY <1>1, <1>2 DEF Frames, FrameRecords, DevRecords
<1> DEFINE d == Request.data
           f == dev.fill
           n == Request.n
           c == Capacity[dev.target]
           g == mem[dev.target]
           h == [i \in 1..c |-> IF i \in (f + 1)..(f + n) THEN d[i - f] ELSE g[i]]
<1>4. /\ dev' = [dev EXCEPT !.fill = @ + n] /\ mem' = [mem EXCEPT ![dev.target] = h]
  BY DEF DevMidstData
<1>5. d \in Seq(Units) /\ Len(d) = n /\ n \in Nat /\ f \in Nat /\ c \in Nat
      /\ g \in [1..c -> Units]
  BY <1>1, <1>3
<1> HIDE DEF d, f, n, c, g
<1>6. h \in [1..c -> Units]
  <2>1. ASSUME NEW i \in 1..c, i \in (f + 1)..(f + n)
        PROVE  d[i - f] \in Units
    <3>1. i - f \in 1..Len(d)
      BY <1>5, <2>1
    <3> QED
      BY <1>5, <3>1
  <2> QED
    BY <1>5, <2>1
<1>7. mem'[dev.target] = h /\ DOMAIN mem' = Memories
      /\ \A t \in Memories : t # dev.target => mem'[t] = mem[t]
  BY <1>1, <1>4
<1> QED
  BY <1>4, <1>6, <1>7 DEF d, f, n, c, g

\* The phone taking a window keeps the types.
LEMMA DevMidstDataType ==
  ASSUME TypeOK, DevMidstData
  PROVE  PipesTypeOK' /\ DevTypeOK'
<1>1. /\ toDev \in Seq(Frames) /\ toHost \in Seq(Frames) /\ dev \in DevRecords
      /\ toDev # <<>> /\ toDev' = Tail(toDev)
  BY DEF TypeOK, PipesTypeOK, DevTypeOK, DevMidstData, Serve
<1>2. /\ toDev' \in Seq(Frames) /\ Request \in FrameRecords
  BY <1>1, ServeType
<1>3. toHost' \in Seq(Frames)
  <2>1. Answer("ACK") \/ Answer("NAK")
    BY DEF DevMidstData
  <2> QED
    BY <1>1, <2>1, AnswerType DEF Replies
<1>4. CASE dev.mode = "down" /\ dev.fill + Request.n <= dev.size
  <2>1. dev' \in DevRecords /\ dev'.mode = dev.mode /\ dev'.target = dev.target
        /\ dev'.size = dev.size
    <3>1. dev' = [dev EXCEPT !.fill = @ + Request.n]
      BY <1>4, StoreType
    <3>2. Request.n \in Nat /\ dev.fill + Request.n \in Nat
      BY <1>1, <1>2 DEF DevRecords, FrameRecords
    <3> QED
      BY <1>1, <3>1, <3>2 DEF DevRecords
  <2>2. DOMAIN mem' = Memories /\ \A t \in Memories : mem'[t] \in [1..Capacity[t] -> Units]
    BY <1>4, StoreType DEF TypeOK, DevTypeOK
  <2> QED
    BY <1>2, <1>3, <2>1, <2>2 DEF TypeOK, PipesTypeOK, DevTypeOK, DevMidstData
<1>5. CASE ~(dev.mode = "down" /\ dev.fill + Request.n <= dev.size)
  <2>1. dev' = dev /\ mem' = mem
    BY <1>5 DEF DevMidstData
  <2> QED
    BY <1>2, <1>3, <2>1 DEF TypeOK, PipesTypeOK, DevTypeOK, DevMidstData
<1> QED
  BY <1>4, <1>5

\* The phone closing a download, starting an image or opening a partition keeps the types.
LEMMA DevEndDataType ==
  ASSUME TypeOK, DevEndData \/ DevExecData \/ DevReadStart
  PROVE  PipesTypeOK' /\ DevTypeOK'
<1>1. /\ toDev \in Seq(Frames) /\ toHost \in Seq(Frames) /\ dev \in DevRecords
      /\ toDev # <<>> /\ toDev' = Tail(toDev)
      /\ UNCHANGED <<attached, mem, naks>>
  BY DEF TypeOK, PipesTypeOK, DevTypeOK, DevEndData, DevExecData, DevReadStart, Serve
<1>2. toDev' \in Seq(Frames) /\ Request \in FrameRecords
  BY <1>1, ServeType
<1>3. toHost' \in Seq(Frames)
  <2>1. Answer("ACK") \/ Answer("NAK") \/ Answer("INCOMPATIBLE")
    BY DEF DevEndData, DevExecData, DevReadStart
  <2> QED
    BY <1>1, <2>1, AnswerType DEF Replies
<1>4. /\ dev' \in DevRecords
      /\ dev'.mode # "idle" => dev'.target \in Memories
      /\ dev'.mode = "down" => dev'.size <= Capacity[dev'.target]
  <2>1. \/ dev' = dev
        \/ dev' = [dev EXCEPT !.mode = "idle", !.loaded = @ \cup ({dev.target} \cap LoadAreas)]
        \/ dev' = [dev EXCEPT !.stage = "fdl1", !.synced = FALSE, !.mode = "idle"]
        \/ dev' = [dev EXCEPT !.stage = "fdl2", !.mode = "idle"]
        \/ Request.part \in Partitions /\ dev' = [dev EXCEPT !.mode = "read", !.target = Request.part]
        \/ dev' = [dev EXCEPT !.mode = "idle"]
    BY DEF DevEndData, DevExecData, DevReadStart
  <2>2. CASE dev' = dev
    BY <1>1, <2>2 DEF TypeOK, DevTypeOK
  <2>3. CASE Request.part \in Partitions
             /\ dev' = [dev EXCEPT !.mode = "read", !.target = Request.part]
    BY <1>1, <2>3 DEF DevRecords, Memories
  <2>4. CASE \/ dev' = [dev EXCEPT !.stage = "fdl1", !.synced = FALSE, !.mode = "idle"]
             \/ dev' = [dev EXCEPT !.stage = "fdl2", !.mode = "idle"]
             \/ dev' = [dev EXCEPT !.mode = "idle"]
    BY <1>1, <2>4 DEF DevRecords
  <2>5. CASE dev' = [dev EXCEPT !.mode = "idle", !.loaded = @ \cup ({dev.target} \cap LoadAreas)]
    BY <1>1, <2>5 DEF DevRecords
  <2> QED
    BY <2>1, <2>2, <2>3, <2>4, <2>5
<1> QED
  BY <1>1, <1>2, <1>3, <1>4 DEF TypeOK, PipesTypeOK, DevTypeOK

\* What the phone answers to a read.
LEMMA ReadMidstAnswer ==
  ASSUME TypeOK, DevReadMidst
  PROVE  \/ Answer("NAK")
         \/ \E m \in Frames :
              /\ dev.mode = "read" /\ Request.off + Request.n <= Capacity[dev.target]
              /\ toHost' = Append(toHost, m)
              /\ m.type = "READ_FLASH" /\ m.n = Request.n
              /\ m.data = [i \in 1..Request.n |-> mem[dev.target][Request.off + i]]
<1>1. /\ toDev \in Seq(Frames) /\ toDev # <<>> /\ dev \in DevRecords
      /\ dev.mode = "read" => dev.target \in Memories
  BY DEF TypeOK, PipesTypeOK, DevTypeOK, DevReadMidst, Serve
<1>2. Request \in FrameRecords /\ Request.off \in Nat /\ Request.n \in Nat
  BY <1>1, ServeType DEF FrameRecords
<1>3. CASE dev.mode = "read" /\ Request.off + Request.n <= Capacity[dev.target]
  <2> DEFINE o == Request.off
             n == Request.n
             g == mem[dev.target]
             d == [i \in 1..n |-> g[o + i]]
             ck == DevChecksum
             m == [type |-> "READ_FLASH", ck |-> ck, part |-> "none",
                   off |-> 0, n |-> n, data |-> d]
  <2>1. toHost' = Append(toHost, m)
    BY <1>3 DEF DevReadMidst
  <2>2. /\ o \in Nat /\ n \in Nat /\ Capacity[dev.target] \in Nat
        /\ g \in [1..Capacity[dev.target] -> Units] /\ o + n <= Capacity[dev.target]
    BY <1>1, <1>2, <1>3 DEF TypeOK, DevTypeOK
  <2>3. ck \in ChecksumTypes
    BY DEF DevChecksum, ChecksumTypes
  <2> HIDE DEF o, n, g, ck
  <2>4. d \in [1..n -> Units]
    BY <2>2
  <2>5. d \in Seq(Units) /\ Len(d) = n
    BY <2>2, <2>4, FunctionIsSeq
  <2> HIDE DEF d
  <2>6. m \in Frames /\ m.type = "READ_FLASH" /\ m.n = n /\ m.data = d
    BY <2>2, <2>3, <2>5 DEF Frames, FrameRecords, Replies
  <2> QED
    BY <1>3, <2>1, <2>6 DEF n, d, o, g
<1>4. CASE ~(dev.mode = "read" /\ Request.off + Request.n <= Capacity[dev.target])
  BY <1>4 DEF DevReadMidst
<1> QED
  BY <1>3, <1>4

\* The phone sending a window keeps the types.
LEMMA DevReadMidstType ==
  ASSUME TypeOK, DevReadMidst
  PROVE  PipesTypeOK' /\ DevTypeOK'
<1>1. /\ toDev \in Seq(Frames) /\ toHost \in Seq(Frames)
      /\ toDev # <<>> /\ toDev' = Tail(toDev) /\ UNCHANGED <<attached, dev, mem, naks>>
  BY DEF TypeOK, PipesTypeOK, DevReadMidst, Serve
<1>2. toDev' \in Seq(Frames)
  BY <1>1, ServeType
<1>3. toHost' \in Seq(Frames)
  <2>1. CASE Answer("NAK")
    BY <1>1, <2>1, AnswerType DEF Replies
  <2>2. CASE \E m \in Frames : toHost' = Append(toHost, m)
    BY <1>1, <2>2
  <2> QED
    BY <2>1, <2>2, ReadMidstAnswer
<1> QED
  BY <1>1, <1>2, <1>3 DEF TypeOK, PipesTypeOK, DevTypeOK

\* A phone that is plugged in again keeps the types.
LEMMA ReplugType ==
  ASSUME TypeOK, DevReplug
  PROVE  PipesTypeOK' /\ DevTypeOK'
<1>1. dev' \in DevRecords /\ dev'.mode = "idle"
  BY DEF TypeOK, DevTypeOK, DevReplug, DevRecords
<1> QED
  BY <1>1 DEF TypeOK, PipesTypeOK, DevTypeOK, DevReplug

\* A run of the program that starts keeps the types.
LEMMA StartRunType ==
  ASSUME TypeOK, StartRun
  PROVE  TypeOK'
<1>1. PICK c \in Menu : Start(c)
  BY DEF StartRun
<1>2. c \in Commandline
  BY <1>1
<1>3. ControlTypeOK'
  <2>1. CASE attached /\ ~(c.op = "write" /\ FileLen[c.src] = 0)
    <3> DEFINE ts == Program(c.op, c.part, c.src, c.size)
    <3>1. ts \in Seq(Tasks) /\ ts # <<>>
      BY <1>2, TaskType
    <3>2. ret' = "none" /\ cmd' = c /\ BeginTask(ts)
      BY <1>1, <2>1 DEF Start
    <3> HIDE DEF ts
    <3> QED
      BY <1>2, <3>1, <3>2, BeginTaskType DEF ControlTypeOK
  <2>2. CASE ~(attached /\ ~(c.op = "write" /\ FileLen[c.src] = 0))
    <3>1. /\ ret' = "err" /\ cmd' = c /\ UNCHANGED <<todo, step, phase, ver>>
      BY <1>1, <2>2 DEF Start
    <3> QED
      BY <1>2, <3>1 DEF TypeOK, HostTypeOK, ControlTypeOK, Running, Cur
  <2> QED
    BY <2>1, <2>2
<1>4. /\ off' = 0 /\ pos' = 0 /\ len' = 0 /\ cnt' = 0 /\ tries' = 0 /\ out' = <<>>
      /\ clean' \in BOOLEAN /\ UNCHANGED <<attached, toDev, toHost, buf, errs>>
  BY <1>1 DEF Start, pipes
<1>5. UNCHANGED <<dev, mem, naks>> /\ runs' \in Nat
  BY DEF StartRun, devVars, TypeOK
<1> QED
  BY <1>3, <1>4, <1>5 DEF TypeOK, PipesTypeOK, DevTypeOK, HostTypeOK

-----------------------------------------------------------------------------

\* The initial state has the types.
LEMMA InitType == Init => TypeOK
<1> SUFFICES ASSUME Init PROVE TypeOK
  OBVIOUS
<1>1. PipesTypeOK
  BY DEF Init, PipesInit, PipesTypeOK
<1>2. DevTypeOK
  <2>1. dev \in DevRecords /\ dev.mode = "idle"
    BY DEF Init, DevInit, DevRecords, LoadAreas
  <2>2. \A t \in Memories : [i \in 1..Capacity[t] |-> <<t, i>>] \in [1..Capacity[t] -> Units]
    BY DEF Units
  <2>3. mem = [t \in Memories |-> [i \in 1..Capacity[t] |-> <<t, i>>]] /\ naks = MaxNaks
    BY DEF Init, DevInit
  <2> QED
    BY <2>1, <2>2, <2>3 DEF DevTypeOK
<1>3. HostTypeOK
  <2>1. Bare("NAK", "none") \in Frames
    BY BareType DEF Replies, ChecksumTypes
  <2> QED
    BY <2>1 DEF Init, HostInit, HostTypeOK, ControlTypeOK, Running, Commands
<1> QED
  BY <1>1, <1>2, <1>3 DEF TypeOK, Init

\* Every step of the program keeps the types.
LEMMA HostStepType ==
  ASSUME TypeOK, HostNext
  PROVE  TypeOK'
<1>1. PipesTypeOK' /\ HostTypeOK'
  BY TransferType, TransferErrorType, ReceiveAcceptedType, ReceiveRejectedType,
     ReceiveMidstType, ReceiveErrorType, LocalErrorType, ReadErrorType DEF HostNext, HostStep
<1> QED
  BY <1>1 DEF TypeOK, HostNext, devVars, DevTypeOK

\* The types of the program depend on its variables only.
LEMMA HostUnchangedType ==
  ASSUME TypeOK, UNCHANGED hostVars
  PROVE  HostTypeOK'
  BY DEF TypeOK, HostTypeOK, ControlTypeOK, hostVars, Running, Cur

\* Every step of the phone keeps the types.
LEMMA DevStepType ==
  ASSUME TypeOK, DevNext \/ Replug
  PROVE  TypeOK'
<1>1. PipesTypeOK' /\ DevTypeOK'
  BY DevAnswerType, DevStartDataType, DevMidstDataType, DevEndDataType,
     DevReadMidstType, ReplugType DEF DevNext, Replug, DevServe
<1>2. HostTypeOK' /\ runs' \in Nat
  BY HostUnchangedType DEF DevNext, Replug, TypeOK
<1> QED
  BY <1>1, <1>2 DEF TypeOK

\* So does a step that changes nothing.
LEMMA StutterType == TypeOK /\ UNCHANGED vars => TypeOK'
<1> SUFFICES ASSUME TypeOK, UNCHANGED vars PROVE TypeOK'
  OBVIOUS
<1>1. HostTypeOK'
  BY HostUnchangedType DEF vars
<1> QED
  BY <1>1 DEF TypeOK, vars, pipes, devVars, PipesTypeOK, DevTypeOK

\* The frames under way, the state of the program and the contents of the phone
\* always have the shape the code relies on: a task is only in exchanges of its
\* own kind, frames with data count their data, an open transfer names a memory.
THEOREM TypeCorrect == Spec => []TypeOK
<1>1. Init => TypeOK
  BY InitType
<1>2. TypeOK /\ [Next]_vars => TypeOK'
  BY HostStepType, DevStepType, StartRunType, StutterType DEF Next
<1> QED
  BY <1>1, <1>2, PTL DEF Spec

-----------------------------------------------------------------------------
(* A command that started with empty pipes stays in lockstep with the phone *)

\* The host is executing such a command.
InStep == clean /\ Running /\ cmd.op \in Strict

\* A pipe with one frame.
LEMMA SingleSeq ==
  ASSUME NEW S, NEW s \in Seq(S), Len(s) = 1
  PROVE  s # <<>> /\ Head(s) = s[1] /\ s[1] \in S /\ Tail(s) = <<>>
<1>1. Tail(s) \in Seq(S) /\ Len(Tail(s)) = 0 /\ s # <<>> /\ Head(s) = s[1] /\ s[1] \in S
  OBVIOUS
<1> QED
  BY <1>1, EmptySeq

\* A frame that is sent into an empty pipe.
LEMMA AppendToEmpty ==
  ASSUME NEW x
  PROVE  /\ Append(<<>>, x)[1] = x /\ Len(Append(<<>>, x)) = 1 /\ Append(<<>>, x) # <<>>
  OBVIOUS

\* What InStep says about the task.
LEMMA InStepTask ==
  ASSUME TypeOK, LockInv, InStep
  PROVE  /\ todo \in Seq(Tasks) /\ Len(todo) = 1 /\ Tail(todo) = <<>>
         /\ Cur = todo[1] /\ Cur \in Tasks /\ Cur \in TaskRecords
         /\ Cur.kind = KindOf(cmd.op) /\ step \in StepsOf(Cur.kind)
         /\ Cur.kind \in {"upload", "download", "camera", "reset", "powerdown"}
         /\ step \notin {"SYNC", "CONNECT", "EXEC_DATA"}
         /\ cmd \in Commandline /\ cmd.op # "demo"
<1>1. ControlTypeOK /\ Running /\ todo \in Seq(Tasks) /\ cmd \in Commandline
  BY DEF TypeOK, HostTypeOK, ControlTypeOK, InStep
<1>2. Len(todo) = 1 /\ Cur.kind = KindOf(cmd.op) /\ cmd.op \in Strict
  BY DEF LockInv, InStep
<1>3. Cur.kind \in {"upload", "download", "camera", "reset", "powerdown"} /\ cmd.op # "demo"
  BY <1>2 DEF KindOf, Strict
<1>4. step \in StepsOf(Cur.kind)
  BY <1>1 DEF ControlTypeOK
<1>5. step \notin {"SYNC", "CONNECT", "EXEC_DATA"}
  BY <1>3, <1>4 DEF StepsOf
<1>6. Tail(todo) = <<>>
  BY <1>1, <1>2, SingleSeq
<1> QED
  BY <1>1, <1>2, <1>3, <1>4, <1>5, <1>6, CurType

\* The one task of a strict command ends the command.
LEMMA InStepEnd ==
  ASSUME TypeOK, LockInv, InStep, NEW ok \in BOOLEAN, EndTask(ok)
  PROVE  todo' = <<>> /\ cmd' = cmd /\ (ok => ret' = "ok") /\ (~ok => ret' = "err")
<1>1. Tail(todo) = <<>> /\ cmd.op # "demo"
  BY InStepTask
<1> QED
  BY <1>1, Zenon DEF EndTask

\* An error exit of a strict command ends it with an error.
LEMMA InStepAbandon ==
  ASSUME TypeOK, LockInv, InStep, Abandon
  PROVE  todo' = <<>> /\ cmd' = cmd /\ ret' = "err"
<1>1. step # "SYNC" /\ Cur.kind # "ext4fs"
  BY InStepTask
<1>2. EndTask(FALSE)
  BY <1>1 DEF Abandon
<1> QED
  BY <1>2, InStepEnd

\* The exchanges of a strict command, in their order.
LEMMA InStepAdvance ==
  ASSUME TypeOK, LockInv, InStep, NEW o \in Nat, Advance(o)
  PROVE  /\ cmd' = cmd
         /\ \/ /\ step \in {"START_DATA", "MIDST_DATA"}
               /\ \/ o < Cur.size /\ Exchange("MIDST_DATA")
                  \/ o >= Cur.size /\ Exchange("END_DATA")
            \/ /\ step \in {"READ_FLASH_START", "READ_FLASH_MIDST"}
               /\ \/ o < Cur.size /\ Exchange("READ_FLASH_MIDST")
                  \/ /\ Cur.kind = "upload" => o >= Cur.size
                     /\ Exchange("READ_FLASH_END")
            \/ /\ step \notin {"START_DATA", "MIDST_DATA", "READ_FLASH_START", "READ_FLASH_MIDST"}
               /\ todo' = <<>> /\ ret' = "ok"
<1>1. /\ step \notin {"SYNC", "CONNECT", "EXEC_DATA"} /\ step \in StepsOf(Cur.kind)
      /\ Cur.kind \in {"upload", "download", "camera", "reset", "powerdown"}
  BY InStepTask
<1>2. CASE step \in {"START_DATA", "MIDST_DATA"}
  <2>1. Cur.kind = "download"
    BY <1>1, <1>2 DEF StepsOf
  <2>2. DataStep("MIDST_DATA", "END_DATA", o)
    BY <1>2 DEF Advance
  <2> QED
    BY <1>2, <2>1, <2>2 DEF DataStep, FileSystem, Exchange
<1>3. CASE step \in {"READ_FLASH_START", "READ_FLASH_MIDST"}
  <2>1. DataStep("READ_FLASH_MIDST", "READ_FLASH_END", o)
    BY <1>3 DEF Advance
  <2> QED
    BY <1>3, <2>1 DEF DataStep, FileSystem, Exchange
<1>4. CASE step \notin {"START_DATA", "MIDST_DATA", "READ_FLASH_START", "READ_FLASH_MIDST"}
  <2>1. ~(step = "END_DATA" /\ Cur.kind # "download") /\ Cur.kind # "closing"
    BY <1>1 DEF StepsOf
  <2>2. EndTask(Cur.kind # "closing")
    BY <1>1, <1>4, <2>1 DEF Advance
  <2>3. EndTask(TRUE)
    BY <2>1, <2>2
  <2> QED
    BY <1>4, <2>3, InStepEnd
<1> QED
  BY <1>2, <1>3, <1>4

\* Of a command in step, the pipes hold at most one frame.
LEMMA InStepPipes ==
  ASSUME TypeOK, LockInv, InStep
  PROVE  /\ phase = "send" => toDev = <<>> /\ toHost = <<>>
         /\ toHost # <<>> => /\ phase = "recv" /\ toDev = <<>> /\ cnt = 0
                             /\ Len(toHost) = 1 /\ Tail(toHost) = <<>>
                             /\ Head(toHost) = toHost[1] /\ toHost[1] \in Frames
         /\ toDev # <<>>  => /\ phase = "recv" /\ toHost = <<>> /\ cnt = 0
                             /\ Len(toDev) = 1 /\ Tail(toDev) = <<>>
                             /\ Request = toDev[1] /\ toDev[1] \in Frames
<1>1. toHost \in Seq(Frames) /\ toDev \in Seq(Frames) /\ phase \in {"send", "recv"}
  BY DEF TypeOK, PipesTypeOK, HostTypeOK, ControlTypeOK
<1>2. /\ phase = "send" => toDev = <<>> /\ toHost = <<>>
      /\ phase = "recv" => \/ Len(toDev) = 1 /\ toHost = <<>> /\ cnt = 0
                           \/ toDev = <<>> /\ Len(toHost) = 1 /\ cnt = 0
                           \/ toDev = <<>> /\ toHost = <<>>
  BY DEF LockInv, InStep
<1>3. /\ Len(toDev) = 1 => toDev # <<>>
      /\ Len(toHost) = 1 => toHost # <<>>
  BY <1>1, SingleSeq
<1> QED
  BY <1>1, <1>2, <1>3, SingleSeq DEF Request

\* A request is sent into empty pipes.
LEMMA TransferLock ==
  ASSUME TypeOK, LockInv, InStep, Transfer
  PROVE  LockInv'
<1>1. toDev = <<>> /\ toHost = <<>>
  BY InStepPipes DEF Transfer
<1>2. PICK m : toDev' = Append(<<>>, m)
  BY <1>1 DEF Transfer
<1>3. Len(toDev') = 1 /\ toHost' = <<>> /\ cnt' = 0 /\ phase' = "recv"
  BY <1>1, <1>2, AppendToEmpty DEF Transfer
<1>4. UNCHANGED <<todo, cmd, clean>>
  BY DEF Transfer
<1> QED
  BY <1>3, <1>4 DEF LockInv, InStep, Running, Cur

\* The next exchange finds empty pipes.
LEMMA AdvanceLock ==
  ASSUME TypeOK, LockInv, InStep, NEW o \in Nat, Advance(o), toDev' = <<>>, toHost' = <<>>
  PROVE  LockInv'
<1>1. CASE \E c \in Commands : Exchange(c)
  <2>1. UNCHANGED <<todo, cmd>> /\ phase' = "send"
    BY <1>1 DEF Exchange
  <2> QED
    BY <2>1, InStepTask DEF LockInv, InStep, Running, Cur
<1>2. CASE todo' = <<>>
  BY <1>2 DEF LockInv, Running
<1> QED
  BY <1>1, <1>2, InStepAdvance DEF Commands

\* A failed read() changes the size of the task only.
LEMMA ReadErrorTask ==
  ASSUME TypeOK, LockInv, InStep, ReadError
  PROVE  /\ Len(todo') = 1 /\ Running'
         /\ Cur'.kind = Cur.kind /\ Cur'.part = Cur.part /\ Cur'.src = Cur.src
         /\ Cur'.size = Cur.size + 1
<1>1. Cur \in TaskRecords /\ Cur = todo[1] /\ Len(todo) = 1 /\ todo \in Seq(Tasks)
  BY InStepTask
<1> DEFINE t == [Cur EXCEPT !.size = @ + 1]
<1>2. t.kind = Cur.kind /\ t.part = Cur.part /\ t.src = Cur.src /\ t.size = Cur.size + 1
  BY <1>1 DEF TaskRecords
<1>3. todo' = [todo EXCEPT ![1] = t]
  BY <1>1 DEF ReadError
<1> HIDE DEF t
<1>4. todo'[1] = t /\ Len(todo') = 1 /\ todo' \in Seq(Tasks \cup {t})
  <2>1. todo \in Seq(Tasks \cup {t}) /\ 1 \in 1..Len(todo) /\ t \in Tasks \cup {t}
    BY <1>1
  <2> HIDE DEF Tasks
  <2>2. /\ todo' \in Seq(Tasks \cup {t}) /\ Len(todo') = Len(todo)
        /\ todo'[1] = t
    BY ONLY <1>3, <2>1, ExceptSeq
  <2> QED
    BY <1>1, <2>2
<1>5. Head(todo') = t /\ todo' # <<>>
  BY <1>4, SingleSeq
<1> QED
  BY <1>2, <1>4, <1>5 DEF Cur, Running

\* The frame sent after a failed read() is sent into empty pipes.
LEMMA ReadErrorLock ==
  ASSUME TypeOK, LockInv, InStep, ReadError
  PROVE  LockInv'
<1>1. toDev = <<>> /\ toHost = <<>>
  BY InStepPipes DEF ReadError
<1>2. PICK m : toDev' = Append(<<>>, m)
  BY <1>1 DEF ReadError
<1>3. Len(toDev') = 1 /\ toHost' = <<>> /\ cnt' = 0 /\ phase' = "recv" /\ cmd' = cmd
  BY <1>1, <1>2, AppendToEmpty DEF ReadError
<1>4. Len(todo') = 1 /\ Cur'.kind = KindOf(cmd'.op)
  BY <1>3, ReadErrorTask, InStepTask
<1> QED
  BY <1>3, <1>4 DEF LockInv

\* The phone takes the one request and queues at most one answer.
LEMMA ServeOne ==
  ASSUME TypeOK, LockInv, InStep, DevServe
  PROVE  /\ toDev # <<>> /\ phase = "recv" /\ toHost = <<>> /\ cnt = 0
         /\ toDev' = <<>>
         /\ \/ toHost' = <<>> /\ DevSync
            \/ Len(toHost') = 1 /\ \E m : toHost' = Append(<<>>, m)
<1>1. toDev # <<>> /\ toDev' = Tail(toDev)
  BY DEF DevServe, DevSync, DevConnect, DevVerifyError, DevStartData, DevMidstData,
         DevEndData, DevExecData, DevReadStart, DevReadMidst, DevReadEnd, DevLeave, DevFail, Serve
<1>2. phase = "recv" /\ toHost = <<>> /\ cnt = 0 /\ toDev' = <<>>
  BY <1>1, InStepPipes
<1>3. \/ UNCHANGED toHost /\ DevSync
      \/ \E m : toHost' = Append(toHost, m)
  <2>1. ASSUME NEW t, Answer(t) PROVE \E m : toHost' = Append(toHost, m)
    BY <2>1 DEF Answer
  <2>2. DevReadMidst => \E m : toHost' = Append(toHost, m)
    BY <2>1 DEF DevReadMidst
  <2> QED
    BY <2>1, <2>2 DEF DevServe, DevSync, DevConnect, DevVerifyError, DevStartData, DevMidstData,
         DevEndData, DevExecData, DevReadStart, DevReadEnd, DevLeave, DevFail
<1>4. CASE UNCHANGED toHost /\ DevSync
  BY <1>1, <1>2, <1>4
<1>5. CASE \E m : toHost' = Append(toHost, m)
  <2>1. PICK m : toHost' = Append(<<>>, m)
    BY <1>2, <1>5
  <2>2. Len(toHost') = 1
    BY <2>1, AppendToEmpty
  <2> QED
    BY <1>1, <1>2, <2>1, <2>2
<1> QED
  BY <1>3, <1>4, <1>5

\* The phone puts at most one reply in the place of the request.
LEMMA ServeLock ==
  ASSUME TypeOK, LockInv, InStep, DevServe, UNCHANGED hostVars
  PROVE  LockInv'
<1>1. UNCHANGED <<todo, cmd, clean, phase, cnt>>
  BY DEF hostVars
<1> QED
  BY <1>1, ServeOne DEF LockInv, InStep, Running, Cur

\* A step of the program is one of a running command, and of the same.
LEMMA HostStepFrame ==
  ASSUME HostStep
  PROVE  Running /\ cmd' = cmd /\ clean' = clean
<1>1. Running /\ clean' = clean
  BY DEF HostStep, Transfer, TransferError, ReceiveAccepted, ReceiveRejected, ReceiveMidst,
         ReceiveError, LocalError, ReadError
<1>2. \A o : Advance(o) => cmd' = cmd
  BY DEF Advance, DataStep, Exchange, EndTask
<1>3. Abandon => cmd' = cmd
  BY DEF Abandon, Exchange, EndTask, CloseAndFail
<1>4. EndTask(FALSE) \/ CloseAndFail \/ Exchange("READ_FLASH_END") => cmd' = cmd
  BY DEF EndTask, CloseAndFail, Exchange
<1>5. cmd' = cmd
  BY <1>2, <1>3, <1>4
     DEF HostStep, Transfer, TransferError, ReceiveAccepted, ReceiveRejected, ReceiveMidst,
         ReceiveError, LocalError, ReadError
<1> QED
  BY <1>1, <1>5

\* The host is still waiting for the rest of the reply, or tries once more.
Waiting ==
  /\ UNCHANGED <<cmd, clean, todo, step, phase, off, pos, len, out, ret, toDev>>
  /\ \/ toHost' = toHost /\ cnt' = cnt
     \/ toHost' = <<>> /\ toDev = <<>>

\* The reply to a READ_FLASH_MIDST is complete and is what was asked for.
DataTaken ==
  /\ phase = "recv" /\ step = "READ_FLASH_MIDST" /\ toHost # <<>> /\ toDev' = <<>> /\ toHost' = <<>>
  /\ UNCHANGED <<cmd, clean, pos, len>>
  /\ toHost[1].type = "READ_FLASH" /\ toHost[1].n = len
  /\ off' = off + (IF Cur.kind \in FileSystem THEN 1 ELSE len)
  /\ out' = IF Cur.kind \in FileSystem THEN toHost[1].data ELSE out \o toHost[1].data
  /\ Advance(off')

\* The reply was accepted.
ReplyTaken ==
  /\ phase = "recv" /\ step # "READ_FLASH_MIDST" /\ toHost # <<>> /\ toDev' = <<>> /\ toHost' = <<>>
  /\ UNCHANGED <<cmd, clean, pos, len>>
  /\ step # "READ_FLASH_START" => toHost[1].type = "ACK" /\ out' = out
  /\ step = "READ_FLASH_START" => out' = <<>>
  /\ off' = CASE step \in {"START_DATA", "READ_FLASH_START"} -> 0
              [] step = "MIDST_DATA" -> off + len
              [] OTHER -> off
  /\ Advance(off')

\* A step of the host in step with the phone sends a request, takes the one reply,
\* goes on waiting, or ends the command with an error.
LEMMA InStepHost ==
  ASSUME TypeOK, LockInv, InStep, HostStep
  PROVE  \/ Transfer \/ ReadError \/ Waiting \/ ReplyTaken \/ DataTaken
         \/ todo' = <<>> /\ ret' = "err"
<1>1. cmd' = cmd /\ clean' = clean
  BY HostStepFrame
<1>2. /\ step \notin {"SYNC", "CONNECT", "EXEC_DATA"}
      /\ Cur.kind \in {"upload", "download", "camera", "reset", "powerdown"}
  BY InStepTask
<1>3. CASE Transfer \/ ReadError
  BY <1>3
<1>4. CASE TransferError
  <2>1. Abandon
    BY <1>2, <1>4 DEF TransferError
  <2> QED
    BY <2>1, InStepAbandon
<1>5. CASE ReceiveRejected
  <2>1. Abandon
    BY <1>5 DEF ReceiveRejected
  <2> QED
    BY <2>1, InStepAbandon
<1>6. CASE ReceiveAccepted
  <2>1. phase = "recv" /\ toHost # <<>> /\ toDev' = toDev /\ toHost' = Tail(toHost)
    BY <1>6 DEF ReceiveAccepted
  <2>2. toDev' = <<>> /\ toHost' = <<>> /\ Head(toHost) = toHost[1]
    BY <2>1, InStepPipes
  <2>3. step # "READ_FLASH_START" => toHost[1].type = "ACK"
    BY <1>2, <1>6, <2>2 DEF ReceiveAccepted, Accepted
  <2> QED
    BY <1>1, <1>6, <2>1, <2>2, <2>3 DEF ReceiveAccepted, ReplyTaken
<1>7. CASE ReceiveMidst
  <2>1. /\ phase = "recv" /\ toHost # <<>> /\ toDev' = toDev /\ toHost' = Tail(toHost)
        /\ step = "READ_FLASH_MIDST" /\ UNCHANGED <<pos, len>>
    BY <1>7 DEF ReceiveMidst
  <2>2. /\ toDev' = <<>> /\ toHost' = <<>> /\ Head(toHost) = toHost[1] /\ cnt = 0 /\ toDev = <<>>
        /\ toHost[1] \in Frames
    BY <2>1, InStepPipes
  <2>3. cnt' = 0 + FrameLen(toHost[1]) /\ buf' = toHost[1]
    BY <1>7, <2>2 DEF ReceiveMidst
  <2>4. CASE cnt' # len + 1
    <3>1. UNCHANGED <<todo, step, phase, off, out, ret>>
      BY <1>7, <2>4 DEF ReceiveMidst
    <3> QED
      BY <1>1, <2>1, <2>2, <3>1 DEF Waiting
  <2>5. CASE cnt' = len + 1 /\ ~(FrameLen(buf') = cnt' /\ Verified(buf') /\ buf'.type = "READ_FLASH")
    <3>1. Abandon
      BY <1>7, <2>5 DEF ReceiveMidst
    <3> QED
      BY <3>1, InStepAbandon
  <2>6. CASE cnt' = len + 1 /\ FrameLen(buf') = cnt' /\ Verified(buf') /\ buf'.type = "READ_FLASH"
    <3>1. /\ off' = off + (IF Cur.kind \in FileSystem THEN 1 ELSE len)
          /\ out' = IF Cur.kind \in FileSystem THEN toHost[1].data ELSE out \o toHost[1].data
          /\ Advance(off')
      BY <1>7, <2>3, <2>6 DEF ReceiveMidst
    <3>2. toHost[1].n = len
      BY <2>2, <2>3, <2>6 DEF FrameLen, Frames, FrameRecords, TypeOK, HostTypeOK
    <3> QED
      BY <1>1, <2>1, <2>2, <2>3, <2>6, <3>1, <3>2 DEF DataTaken
  <2> QED
    BY <2>4, <2>5, <2>6
<1>8. CASE ReceiveError
  <2>1. CASE tries > 1
    BY <1>1, <1>8, <2>1 DEF ReceiveError, Waiting, pipes
  <2>2. CASE ~(tries > 1)
    <3>1. Abandon
      BY <1>8, <2>2 DEF ReceiveError
    <3> QED
      BY <3>1, InStepAbandon
  <2> QED
    BY <2>1, <2>2
<1>9. CASE LocalError
  <2>1. EndTask(FALSE)
    BY <1>2, <1>9 DEF LocalError
  <2> QED
    BY <2>1, InStepEnd
<1> QED
  BY <1>3, <1>4, <1>5, <1>6, <1>7, <1>8, <1>9 DEF HostStep

\* A receive that times out and is tried again changes no pipe.
LEMMA WaitingLock ==
  ASSUME TypeOK, LockInv, InStep, Waiting
  PROVE  LockInv'
<1>1. UNCHANGED <<cmd, clean, todo, phase, toDev>>
      /\ ((toHost' = toHost /\ cnt' = cnt) \/ (toHost' = <<>> /\ toDev = <<>>))
  BY DEF Waiting
<1>2. InStep' /\ Len(todo') = 1 /\ Cur'.kind = KindOf(cmd'.op)
  BY <1>1, InStepTask DEF InStep, Running, Cur
<1> QED
  BY <1>1, <1>2 DEF LockInv, InStep

\* A step of the program keeps LockInv.
LEMMA HostLock ==
  ASSUME TypeOK, TypeOK', LockInv, HostStep
  PROVE  LockInv'
<1>1. CASE ~InStep
  BY <1>1, HostStepFrame DEF LockInv, InStep
<1>2. CASE InStep
  <2>1. off' \in Nat
    BY DEF TypeOK, HostTypeOK
  <2>2. CASE ReplyTaken \/ DataTaken
    BY <1>2, <2>1, <2>2, AdvanceLock DEF ReplyTaken, DataTaken
  <2>3. CASE todo' = <<>>
    BY <2>3 DEF LockInv, Running
  <2> QED
    BY <1>2, <2>2, <2>3, InStepHost, TransferLock, ReadErrorLock, WaitingLock
<1> QED
  BY <1>1, <1>2

\* The one task of a strict command.
LEMMA StrictTask ==
  ASSUME NEW c \in Commandline, c.op \in Strict
  PROVE  /\ Program(c.op, c.part, c.src, c.size) \in Seq(Tasks)
         /\ Len(Program(c.op, c.part, c.src, c.size)) = 1
         /\ LET t == Head(Program(c.op, c.part, c.src, c.size)) IN
              /\ t.kind = KindOf(c.op)
              /\ c.op = "write" => t = Download(c.part, c.src)
              /\ c.op = "read"  => t = Upload(c.part, c.size)
<1>1. Program(c.op, c.part, c.src, c.size) \in Seq(Tasks)
  BY TaskType
<1>2. \E t : Program(c.op, c.part, c.src, c.size) = <<t>>
             /\ t.kind = KindOf(c.op)
             /\ (c.op = "write" => t = Download(c.part, c.src))
             /\ (c.op = "read"  => t = Upload(c.part, c.size))
  BY DEF Program, Strict, KindOf, Upload, Download, Camera, Reset, PowerDown, Task
<1> QED
  BY <1>1, <1>2

\* A command starts either at once with an error, or with its tasks and empty
\* counters.
LEMMA StartEffect ==
  ASSUME TypeOK, NEW c \in Commandline, Start(c)
  PROVE  /\ cmd' = c /\ UNCHANGED <<attached, toDev, toHost>>
         /\ clean' = (toDev = <<>> /\ toHost = <<>>)
         /\ out' = <<>> /\ off' = 0
         /\ \/ todo' = <<>> /\ ret' = "err"
            \/ /\ todo' = Program(c.op, c.part, c.src, c.size)
               /\ phase' = "send" /\ ret' = "none"
               /\ step' = FirstStep(Head(todo').kind)
  BY DEF Start, BeginTask, Running, pipes

\* A run that starts with empty pipes is in lockstep.
LEMMA StartLock ==
  ASSUME TypeOK, StartRun
  PROVE  LockInv'
<1>1. PICK c \in Commandline : Start(c)
  BY DEF StartRun
<1>2. CASE ~(clean' /\ c.op \in Strict) \/ todo' = <<>>
  BY <1>1, <1>2, StartEffect DEF LockInv, Running
<1>3. CASE clean' /\ c.op \in Strict /\ todo' # <<>>
  <2>1. /\ cmd' = c /\ todo' = Program(c.op, c.part, c.src, c.size)
        /\ phase' = "send" /\ toDev' = <<>> /\ toHost' = <<>>
    BY <1>1, <1>3, StartEffect
  <2>2. Len(todo') = 1 /\ Head(todo').kind = KindOf(c.op)
    BY <1>3, <2>1, StrictTask
  <2> QED
    BY <2>1, <2>2 DEF LockInv, Cur
<1> QED
  BY <1>2, <1>3

\* A step of the phone keeps LockInv.
LEMMA DevLock ==
  ASSUME TypeOK, LockInv, DevNext \/ Replug
  PROVE  LockInv'
<1>1. UNCHANGED <<cmd, clean, todo>>
  BY DEF DevNext, Replug, hostVars
<1>2. CASE ~InStep
  BY <1>1, <1>2 DEF LockInv, InStep, Running
<1>3. CASE InStep
  BY <1>3, ServeLock DEF DevNext, Replug, InStep
<1> QED
  BY <1>2, <1>3

\* Every step keeps LockInv.
LEMMA LockNext ==
  ASSUME TypeOK, TypeOK', LockInv, [Next]_vars
  PROVE  LockInv'
<1>1. CASE UNCHANGED vars
  BY <1>1 DEF LockInv, Running, Cur, vars, hostVars, pipes
<1> QED
  BY <1>1, HostLock, StartLock, DevLock DEF Next, HostNext

\* LockInv is stronger than Lockstep.
LEMMA LockImplies == TypeOK /\ LockInv => Lockstep
<1> SUFFICES ASSUME TypeOK, LockInv, InStep
             PROVE  /\ Len(toDev) + Len(toHost) <= 1
                    /\ phase = "send" => toDev = <<>> /\ toHost = <<>>
  BY DEF Lockstep, InStep
<1>1. /\ toDev = <<>> => Len(toDev) = 0
      /\ toHost = <<>> => Len(toHost) = 0
  OBVIOUS
<1>2. /\ toDev # <<>> => Len(toDev) = 1 /\ toHost = <<>>
      /\ toHost # <<>> => Len(toHost) = 1 /\ toDev = <<>>
      /\ phase = "send" => toDev = <<>> /\ toHost = <<>>
  BY InStepPipes
<1>3. \/ Len(toDev) = 0 /\ Len(toHost) = 0
      \/ Len(toDev) = 1 /\ Len(toHost) = 0
      \/ Len(toDev) = 0 /\ Len(toHost) = 1
  BY <1>1, <1>2, Zenon
<1>4. ASSUME NEW a, NEW b, \/ a = 0 /\ b = 0
                           \/ a = 1 /\ b = 0
                           \/ a = 0 /\ b = 1
      PROVE  a + b <= 1
  BY <1>4
<1>5. Len(toDev) + Len(toHost) <= 1
  BY <1>3, <1>4, Zenon
<1> QED
  BY <1>2, <1>5

\* While a read, a write, a camera listing, a reset or a shutdown runs that found the
\* pipes empty, at most one frame is under way, and none when a request is sent: a
\* reply can only belong to the request just made.
THEOREM InLockstep == Spec => []Lockstep
<1>1. Init => LockInv
  BY DEF Init, HostInit, LockInv, Running
<1>2. TypeOK /\ TypeOK' /\ LockInv /\ [Next]_vars => LockInv'
  BY LockNext
<1> QED
  BY <1>1, <1>2, TypeCorrect, LockImplies, PTL DEF Spec

-----------------------------------------------------------------------------
(* A command that succeeded leaves nothing under way *)

\* A command succeeds when its last reply has been taken.
LEMMA HostQuiet ==
  ASSUME TypeOK, TypeOK', LockInv, HostStep
  PROVE  QuietInv'
<1>1. CASE ~InStep
  BY <1>1, HostStepFrame DEF QuietInv, Succeeded, InStep
<1>2. CASE InStep
  <2>1. CASE Transfer \/ Waiting
    <3>1. todo' = todo
      BY <2>1 DEF Transfer, Waiting
    <3> QED
      BY <1>2, <3>1 DEF QuietInv, Succeeded, InStep, Running
  <2>2. CASE ReadError
    BY <1>2, <2>2, ReadErrorTask DEF QuietInv, Succeeded
  <2>3. CASE ReplyTaken \/ DataTaken
    BY <2>3 DEF ReplyTaken, DataTaken, QuietInv
  <2>4. CASE todo' = <<>> /\ ret' = "err"
    BY <2>4 DEF QuietInv, Succeeded
  <2> QED
    BY <1>2, <2>1, <2>2, <2>3, <2>4, InStepHost
<1> QED
  BY <1>1, <1>2

\* No command has succeeded when one has just been started.
LEMMA StartPending ==
  ASSUME TypeOK, StartRun
  PROVE  \A o \in Strict : ~Succeeded(o)'
<1>1. PICK c \in Commandline : Start(c)
  BY DEF StartRun
<1> QED
  BY <1>1, StartEffect DEF Succeeded

\* The phone says nothing unasked.
LEMMA DevQuiet ==
  ASSUME TypeOK, QuietInv, DevNext \/ Replug
  PROVE  QuietInv'
<1>1. UNCHANGED <<cmd, clean, todo, ret>>
  BY DEF DevNext, Replug, hostVars
<1>2. CASE \E o \in Strict : Succeeded(o)
  <2>1. toDev = <<>> /\ toHost = <<>>
    BY <1>2 DEF QuietInv
  <2>2. ~DevServe
    BY <2>1 DEF DevServe, DevSync, DevConnect, DevVerifyError, DevStartData, DevMidstData,
         DevEndData, DevExecData, DevReadStart, DevReadMidst, DevReadEnd, DevLeave, DevFail, Serve
  <2> QED
    BY <2>2 DEF QuietInv, DevNext, Replug, DevReplug
<1>3. CASE \A o \in Strict : ~Succeeded(o)
  BY <1>1, <1>3 DEF QuietInv, Succeeded, Running
<1> QED
  BY <1>2, <1>3

\* Every step keeps QuietInv.
LEMMA QuietNext ==
  ASSUME TypeOK, TypeOK', LockInv, QuietInv, [Next]_vars
  PROVE  QuietInv'
<1>1. CASE UNCHANGED vars
  BY <1>1 DEF QuietInv, Succeeded, Running, vars, hostVars, pipes
<1>2. CASE StartRun
  BY <1>2, StartPending DEF QuietInv
<1> QED
  BY <1>1, <1>2, HostQuiet, DevQuiet DEF Next, HostNext

-----------------------------------------------------------------------------
(* "write" *)

\* The host is executing a "write" in step with the phone.
InWrite == InStep /\ cmd.op = "write"

\* Types and places of a write in step.
LEMMA WriteFacts ==
  ASSUME TypeOK, LockInv, WriteInv, InWrite
  PROVE  /\ Cur.kind = "download" /\ step \in {"START_DATA", "MIDST_DATA", "END_DATA"}
         /\ Cur.part = cmd.part /\ Cur.src = cmd.src /\ Cur.size \in Nat
         /\ cmd.part \in Partitions /\ cmd.part \in Memories /\ cmd.src \in Files
         /\ WLen \in Nat /\ SourceLen = WLen /\ WLen <= Cur.size
         /\ off \in Nat /\ len \in Nat
<1>1. InStep /\ cmd.op = "write" /\ clean /\ Running
  BY DEF InWrite, InStep
<1>2. Cur.kind = "download" /\ Cur \in TaskRecords /\ step \in StepsOf(Cur.kind) /\ cmd \in Commandline
  BY <1>1, InStepTask DEF KindOf
<1>3. Cur.part = cmd.part /\ Cur.src = cmd.src /\ WLen <= Cur.size
  BY <1>1 DEF WriteInv
<1>4. cmd.src \in Files /\ cmd.part \in Partitions /\ FileLen[cmd.src] \in Nat
  BY <1>2 DEF Commandline
<1>5. SourceLen = WLen
  BY <1>3, <1>4 DEF SourceLen, WLen
<1>6. off \in Nat /\ len \in Nat
  BY DEF TypeOK, HostTypeOK
<1> QED
  BY <1>2, <1>3, <1>4, <1>5, <1>6 DEF StepsOf, TaskRecords, Memories, WLen

\* The phone keeps what it has received while it serves nothing.
LEMMA ReceivedStable ==
  ASSUME NEW k, UNCHANGED <<cmd, dev, mem>>
  PROVE  Received(k)' = Received(k) /\ WLen' = WLen
         /\ \A n : Holds(cmd.part, cmd.src, n)' = Holds(cmd.part, cmd.src, n)
  BY DEF Received, Holds, WLen

\* The request that is sent fits what the phone has of the file.
LEMMA WriteTransfer ==
  ASSUME TypeOK, LockInv, WriteInv, InWrite, Transfer, UNCHANGED <<dev, mem>>
  PROVE  WriteInv'
<1>1. clean /\ Running /\ phase = "send" /\ cmd.op = "write" /\ InStep
  BY DEF InWrite, InStep, Transfer
<1>2. toDev = <<>> /\ toHost = <<>>
  BY <1>1, InStepPipes
<1>3. PICK o \in Offsets, n \in Lengths :
         Chosen(o, n) /\ toDev' = Append(toDev, RequestFrame(o, n)) /\ len' = n
  BY DEF Transfer
<1> DEFINE m == RequestFrame(o, n)
<1>4. toDev'[1] = m /\ toHost' = <<>> /\ phase' = "recv"
      /\ UNCHANGED <<cmd, todo, step, off, clean>>
  BY <1>2, <1>3, AppendToEmpty DEF Transfer
<1>5. /\ Cur.size = WLen
      /\ step \in {"MIDST_DATA", "END_DATA"} => Received(off)
      /\ step = "END_DATA" => off = WLen
  BY <1>1 DEF WriteInv
<1>6. m.type = step
  BY WriteFacts DEF RequestFrame, Bare
<1>7. step = "START_DATA" => m.part = cmd.part /\ m.n = WLen
  BY <1>5, WriteFacts DEF RequestFrame, Bare
<1>8. ASSUME step = "MIDST_DATA"
      PROVE  /\ m.n = n /\ off + n <= WLen
             /\ m.data = [i \in 1..n |-> <<cmd.src, off + i>>]
  <2>1. o = off /\ n = Smaller(Smaller(Cur.size - off, Window), SourceLen - off) /\ n \in Nat
    BY <1>3, <1>8 DEF Chosen, Lengths
  <2>2. off + n <= WLen
    BY <2>1, <1>5, WriteFacts DEF Smaller
  <2>3. m.n = n /\ m.data = [i \in 1..n |-> <<cmd.src, off + i>>]
    BY <1>8, <2>1, WriteFacts DEF RequestFrame, Bare
  <2> QED
    BY <2>2, <2>3
<1> HIDE DEF m
<1>9. UNCHANGED <<Cur, WLen>> /\ Received(off)' = Received(off)
  BY <1>4, ReceivedStable DEF Cur, WLen, Received, Holds
<1> QED
  BY <1>1, <1>2, <1>3, <1>4, <1>5, <1>6, <1>7, <1>8, <1>9, WriteFacts DEF WriteInv

\* A read() that fails makes the size one larger; the phone has what it had.
LEMMA WriteReadError ==
  ASSUME TypeOK, LockInv, WriteInv, InWrite, ReadError, UNCHANGED <<dev, mem>>
  PROVE  WriteInv'
<1>1. InStep /\ toDev = <<>> /\ toHost = <<>>
  BY InStepPipes DEF InWrite, ReadError
<1>2. toDev'[1].type = "MALFORMED" /\ step' = "MIDST_DATA" /\ toHost' = <<>>
      /\ phase' = "recv" /\ cmd' = cmd
  BY <1>1, AppendToEmpty DEF ReadError, Bare
<1>3. Cur'.part = cmd.part /\ Cur'.src = cmd.src /\ Cur'.size = Cur.size + 1
  BY <1>1, ReadErrorTask, WriteFacts
<1>4. WLen' <= Cur'.size
  BY <1>2, <1>3, WriteFacts DEF WLen
<1> QED
  BY <1>2, <1>3, <1>4 DEF WriteInv

\* Waiting changes nothing about a write.
LEMMA WriteWaiting ==
  ASSUME TypeOK, LockInv, WriteInv, InWrite, Waiting, UNCHANGED <<dev, mem>>
  PROVE  WriteInv'
<1>1. UNCHANGED <<cmd, clean, todo, step, phase, off, len, toDev>>
      /\ toHost' \in {toHost, <<>>}
  BY DEF Waiting
<1>2. /\ UNCHANGED <<Cur, WLen, Running>> /\ Received(off)' = Received(off)
      /\ Received(0)' = Received(0) /\ Received(off + len)' = Received(off + len)
      /\ Holds(cmd.part, cmd.src, WLen)' = Holds(cmd.part, cmd.src, WLen)
  BY <1>1 DEF Cur, WLen, Received, Holds, Running
<1> QED
  BY <1>1, <1>2 DEF WriteInv

\* An ACK says that the phone took the request, so the next one fits, too, and the last one ends it.
LEMMA WriteReply ==
  ASSUME TypeOK, LockInv, WriteInv, InWrite, ReplyTaken, off' \in Nat, UNCHANGED <<dev, mem>>
  PROVE  WriteInv' /\ CleanWriteIntegrity'
<1>1. /\ InStep /\ clean /\ Running /\ cmd.op = "write" /\ phase = "recv"
      /\ toHost # <<>> /\ toDev' = <<>> /\ toHost' = <<>> /\ cmd' = cmd
  BY DEF InWrite, InStep, ReplyTaken
<1>2. toHost[1].type = "ACK" /\ Advance(off')
  BY WriteFacts DEF ReplyTaken
<1>3. /\ Cur.size = WLen
      /\ step = "START_DATA" => Received(0)
      /\ step = "MIDST_DATA" => Received(off + len)
      /\ step = "END_DATA" => Holds(cmd.part, cmd.src, WLen)
  BY <1>1, <1>2 DEF WriteInv
<1>4. CASE step \in {"START_DATA", "MIDST_DATA"}
  <2>1. \/ off' < Cur.size /\ Exchange("MIDST_DATA")
        \/ off' >= Cur.size /\ Exchange("END_DATA")
    BY <1>1, <1>2, <1>4, InStepAdvance
  <2>2. UNCHANGED todo /\ phase' = "send"
        /\ \/ step' = "MIDST_DATA"
           \/ step' = "END_DATA" /\ off' >= Cur.size
    BY <2>1 DEF Exchange
  <2>3. Received(off')
    BY <1>3, <1>4 DEF ReplyTaken
  <2>4. step' = "END_DATA" => off' = WLen
    BY <1>3, <2>2, <2>3, WriteFacts DEF Received
  <2>5. UNCHANGED <<Cur, WLen, Running>> /\ Received(off)' = Received(off')
    BY <1>1, <2>2 DEF Cur, WLen, Received, Holds, Running
  <2>6. WriteInv'
    BY <1>1, <1>3, <2>2, <2>3, <2>4, <2>5, WriteFacts DEF WriteInv
  <2>7. Running'
    BY <1>1, <2>2 DEF Running
  <2> QED
    BY <2>6, <2>7 DEF CleanWriteIntegrity, Succeeded
<1>5. CASE step = "END_DATA"
  <2>1. todo' = <<>>
    BY <1>1, <1>2, <1>5, InStepAdvance
  <2>2. Holds(cmd.part, cmd.src, WLen)'
    BY <1>1, <1>3, <1>5 DEF Holds, WLen
  <2> QED
    BY <2>1, <2>2 DEF WriteInv, Running, CleanWriteIntegrity, WLen
<1> QED
  BY <1>4, <1>5, WriteFacts

\* The phone answers ACK to a request of the "write" only after it has done what was
\* asked for.
LEMMA WriteServe ==
  ASSUME TypeOK, TypeOK', LockInv, WriteInv, InWrite, DevServe, UNCHANGED hostVars
  PROVE  WriteInv'
<1>1. /\ InStep /\ clean /\ Running /\ cmd.op = "write" /\ phase = "recv"
      /\ toDev # <<>> /\ Request = toDev[1] /\ toDev[1] \in Frames
      /\ toHost = <<>> /\ toDev' = <<>>
  BY ServeOne, InStepPipes DEF InWrite, InStep
<1>2. UNCHANGED <<cmd, clean, todo, step, phase, off, len>>
  BY DEF hostVars
<1>3. \/ Request.type = "MALFORMED" /\ step = "MIDST_DATA"
      \/ /\ Request.type = step
         /\ Cur.size = WLen
         /\ step = "START_DATA" => Request.part = cmd.part /\ Request.n = WLen
         /\ step = "MIDST_DATA" =>
              /\ Received(off)
              /\ Request.n = len /\ off + len <= WLen
              /\ Request.data = [i \in 1..len |-> <<cmd.src, off + i>>]
         /\ step = "END_DATA" => Received(off) /\ off = WLen
  BY <1>1 DEF WriteInv
<1>4. SUFFICES ASSUME toHost' # <<>>, toHost'[1].type = "ACK"
               PROVE  /\ Cur.size = WLen
                      /\ step = "START_DATA" => Received(0)'
                      /\ step = "MIDST_DATA" => Received(off + len)'
                      /\ step = "END_DATA" => Holds(cmd.part, cmd.src, WLen)'
  <2>1. UNCHANGED <<Cur, WLen, Running>>
    BY <1>2 DEF Cur, WLen, Running
  <2> QED
    BY <1>1, <1>2, <1>4, <2>1, WriteFacts DEF WriteInv
<1>5. ~Answer("NAK")
  BY <1>1, <1>4, AppendToEmpty DEF Answer, Bare
<1>6. /\ Request.type = step /\ step \in {"START_DATA", "MIDST_DATA", "END_DATA"}
      /\ DevStartData \/ DevMidstData \/ DevEndData
  BY <1>3, <1>5, WriteFacts
     DEF DevServe, DevSync, DevConnect, DevVerifyError, DevStartData, DevMidstData,
         DevEndData, DevExecData, DevReadStart, DevReadMidst, DevReadEnd, DevLeave, DevFail, Serve
<1>7. CASE step = "START_DATA"
  <2>1. DevStartData
    BY <1>6, <1>7 DEF DevMidstData, DevEndData, Serve
  <2>2. dev' = [dev EXCEPT !.mode = "down", !.target = Request.part,
                           !.size = Request.n, !.fill = 0,
                           !.loaded = @ \ {Request.part}]
    BY <1>5, <2>1 DEF DevStartData
  <2>3. dev \in DevRecords
    BY DEF TypeOK, DevTypeOK
  <2>4. dev'.mode = "down" /\ dev'.target = Request.part /\ dev'.size = Request.n /\ dev'.fill = 0
    BY <2>2, <2>3 DEF DevRecords
  <2>5. Received(0)'
    BY <1>2, <1>3, <1>6, <1>7, <2>4, WriteFacts DEF Received, Holds, WLen
  <2> QED
    BY <1>3, <1>6, <1>7, <2>5
<1>8. CASE step = "MIDST_DATA"
  <2>1. DevMidstData
    BY <1>6, <1>8 DEF DevStartData, DevEndData, Serve
  <2>2. /\ Received(off) /\ Request.n = len /\ off + len <= WLen
        /\ Request.data = [i \in 1..len |-> <<cmd.src, off + i>>]
    BY <1>3, <1>6, <1>8
  <2>3. dev.mode = "down" /\ dev.fill + Request.n <= dev.size
    BY <1>5, <2>1 DEF DevMidstData
  <2>4. /\ dev' = [dev EXCEPT !.fill = @ + Request.n]
        /\ mem' = [mem EXCEPT ![dev.target] =
               [i \in 1..Capacity[dev.target] |->
                  IF i \in (dev.fill + 1)..(dev.fill + Request.n)
                  THEN Request.data[i - dev.fill] ELSE mem[dev.target][i]]]
    BY <2>1, <2>3 DEF DevMidstData
  <2>5. dev \in DevRecords /\ DOMAIN mem = Memories /\ dev.size <= Capacity[dev.target]
        /\ \A t \in Memories : mem[t] \in [1..Capacity[t] -> Units]
    BY <2>3 DEF TypeOK, DevTypeOK
  <2>6. /\ dev'.mode = "down" /\ dev'.target = cmd.part /\ dev'.size = WLen
        /\ dev'.fill = off + len /\ WLen <= Capacity[cmd.part]
    BY <2>2, <2>3, <2>4, <2>5 DEF DevRecords, Received
  <2>7. ASSUME NEW i \in 1..(off + len) PROVE mem'[cmd.part][i] = <<cmd.src, i>>
    <3>1. i \in 1..Capacity[cmd.part] /\ i \in Nat
      BY <2>2, <2>6, <2>7, WriteFacts
    <3>2. mem'[cmd.part][i] = IF i \in (off + 1)..(off + len)
                              THEN Request.data[i - off] ELSE mem[cmd.part][i]
      BY <2>2, <2>4, <2>5, <3>1, WriteFacts DEF Received
    <3>3. CASE i \in (off + 1)..(off + len)
      <4>1. i - off \in 1..len /\ off + (i - off) = i
        BY <3>1, <3>3, WriteFacts
      <4> QED
        BY <2>2, <3>2, <3>3, <4>1
    <3>4. CASE i \notin (off + 1)..(off + len)
      <4>1. i \in 1..off
        BY <2>7, <3>1, <3>4, WriteFacts
      <4> QED
        BY <2>2, <3>2, <3>4, <4>1 DEF Received, Holds
    <3> QED
      BY <3>3, <3>4
  <2>8. Received(off + len)'
    BY <1>2, <2>2, <2>6, <2>7 DEF Received, Holds, WLen
  <2> QED
    BY <1>3, <1>6, <1>8, <2>8
<1>9. CASE step = "END_DATA"
  <2>1. DevEndData
    BY <1>6, <1>9 DEF DevStartData, DevMidstData, Serve
  <2>2. mem' = mem /\ Received(off) /\ off = WLen
    BY <1>3, <1>6, <1>9, <2>1 DEF DevEndData
  <2>3. Holds(cmd.part, cmd.src, WLen)'
    BY <1>2, <2>2 DEF Received, Holds, WLen
  <2> QED
    BY <1>3, <1>6, <1>9, <2>3
<1> QED
  BY <1>6, <1>7, <1>8, <1>9

WInv == LockInv /\ QuietInv /\ WriteInv /\ CleanWriteIntegrity

\* A step of the program keeps what is known of a write.
LEMMA HostWrite ==
  ASSUME TypeOK, TypeOK', WInv, HostNext
  PROVE  WriteInv' /\ CleanWriteIntegrity'
<1>1. /\ LockInv /\ WriteInv /\ HostStep /\ cmd' = cmd /\ clean' = clean /\ Running
      /\ UNCHANGED <<dev, mem>> /\ off' \in Nat
  BY HostStepFrame DEF WInv, HostNext, devVars, TypeOK, HostTypeOK
<1>2. CASE ~InWrite
  BY <1>1, <1>2 DEF InWrite, InStep, Strict, WriteInv, CleanWriteIntegrity, Succeeded
<1>3. CASE InWrite
  <2>1. InStep
    BY <1>3 DEF InWrite
  <2>2. CASE Transfer \/ Waiting \/ ReadError
    <3>1. Running'
      BY <1>1, <2>1, <2>2, ReadErrorTask DEF Transfer, Waiting, Running
    <3> QED
      BY <1>1, <1>3, <2>2, <3>1, WriteTransfer, WriteWaiting, WriteReadError
         DEF CleanWriteIntegrity, Succeeded
  <2>3. CASE ReplyTaken
    BY <1>1, <1>3, <2>3, WriteReply
  <2>4. ~DataTaken
    BY <1>1, <1>3, WriteFacts DEF DataTaken
  <2>5. CASE todo' = <<>> /\ ret' = "err"
    BY <2>5 DEF WriteInv, Running, CleanWriteIntegrity, Succeeded
  <2> QED
    BY <1>1, <2>1, <2>2, <2>3, <2>4, <2>5, InStepHost
<1> QED
  BY <1>2, <1>3

\* A write that starts has sent nothing.
LEMMA StartWrite ==
  ASSUME TypeOK, StartRun
  PROVE  WriteInv' /\ CleanWriteIntegrity'
<1>1. PICK c \in Commandline : Start(c)
  BY DEF StartRun
<1>2. CleanWriteIntegrity'
  BY StartPending DEF CleanWriteIntegrity, Strict
<1>3. CASE ~(clean' /\ c.op = "write") \/ todo' = <<>>
  BY <1>1, <1>2, <1>3, StartEffect DEF WriteInv, Running
<1>4. CASE clean' /\ c.op = "write" /\ todo' # <<>>
  <2>1. /\ cmd' = c /\ todo' = Program(c.op, c.part, c.src, c.size)
        /\ phase' = "send" /\ step' = FirstStep(Head(todo').kind)
    BY <1>1, <1>4, StartEffect
  <2>2. Head(todo') = Download(c.part, c.src)
    BY <1>4, <2>1, StrictTask DEF Strict
  <2>3. step' = "START_DATA"
    BY <2>1, <2>2 DEF FirstStep, Download, Task
  <2>4. Cur'.part = c.part /\ Cur'.src = c.src /\ Cur'.size = FileLen[c.src]
    BY <2>2 DEF Cur, Download, Task
  <2>5. WLen' = FileLen[c.src] /\ FileLen[c.src] \in Nat
    BY <2>1 DEF WLen, Commandline
  <2> QED
    BY <1>2, <2>1, <2>3, <2>4, <2>5 DEF WriteInv
<1> QED
  BY <1>3, <1>4

\* Nothing is left for the phone to serve after a command that succeeded.
LEMMA QuietServe ==
  ASSUME QuietInv, NEW o \in Strict, Succeeded(o)
  PROVE  ~DevServe
<1>1. toDev = <<>>
  BY DEF QuietInv
<1> QED
  BY <1>1 DEF DevServe, DevSync, DevConnect, DevVerifyError, DevStartData, DevMidstData,
         DevEndData, DevExecData, DevReadStart, DevReadMidst, DevReadEnd, DevLeave, DevFail, Serve

\* A step of the phone keeps what is known of a write.
LEMMA DevWrite ==
  ASSUME TypeOK, TypeOK', WInv, DevNext \/ Replug
  PROVE  WriteInv' /\ CleanWriteIntegrity'
<1>1. UNCHANGED hostVars /\ LockInv /\ QuietInv /\ WriteInv /\ CleanWriteIntegrity
  BY DEF DevNext, Replug, WInv
<1>2. UNCHANGED <<cmd, clean, todo, ret>>
  BY <1>1 DEF hostVars
<1>3. CASE InWrite
  <2>1. DevServe /\ Running
    BY <1>3 DEF DevNext, Replug, InWrite, InStep
  <2> QED
    BY <1>1, <1>2, <1>3, <2>1, WriteServe DEF CleanWriteIntegrity, Succeeded, Running
<1>4. CASE Succeeded("write")
  <2>1. Replug
    BY <1>1, <1>4, QuietServe DEF DevNext, Strict
  <2>2. mem' = mem
    BY <2>1 DEF Replug, DevReplug
  <2> QED
    BY <1>1, <1>2, <1>4, <2>2 DEF Succeeded, WriteInv, Running, CleanWriteIntegrity, Holds
<1>5. CASE ~InWrite /\ ~Succeeded("write")
  BY <1>2, <1>5 DEF InWrite, InStep, Strict, WriteInv, CleanWriteIntegrity, Succeeded, Running
<1> QED
  BY <1>3, <1>4, <1>5

\* Every step keeps the inductive invariant of writes.
LEMMA WriteNext ==
  ASSUME TypeOK, TypeOK', WInv, [Next]_vars
  PROVE  WInv'
<1>1. LockInv' /\ QuietInv'
  BY LockNext, QuietNext DEF WInv
<1>2. CASE UNCHANGED vars
  BY <1>1, <1>2 DEF WInv, WriteInv, Running, Cur, WLen, Received, Holds, CleanWriteIntegrity,
         Succeeded, vars, hostVars, pipes, devVars
<1>3. CASE ~(UNCHANGED vars)
  BY <1>1, <1>3, HostWrite, StartWrite, DevWrite DEF Next, WInv
<1> QED
  BY <1>2, <1>3

\* After a "write" that found the pipes empty and reported success, the partition begins
\* with the whole file, whatever errors and delays there were, for any sizes of the
\* file, the partition and the data frames.
THEOREM WriteCorrect == Spec => []CleanWriteIntegrity
<1>1. Init => WInv
  BY DEF Init, HostInit, WInv, LockInv, WriteInv, QuietInv, CleanWriteIntegrity, Running, Succeeded
<1>2. TypeOK /\ TypeOK' /\ WInv /\ [Next]_vars => WInv'
  BY WriteNext
<1>3. WInv => CleanWriteIntegrity
  BY DEF WInv
<1> QED
  BY <1>1, <1>2, <1>3, TypeCorrect, PTL DEF Spec

-----------------------------------------------------------------------------
(* "read" *)

\* Every step keeps StageInv.
LEMMA StageNext ==
  ASSUME TypeOK, StageInv, [Next]_vars
  PROVE  StageInv'
<1>1. dev \in DevRecords
  BY DEF TypeOK, DevTypeOK
<1>2. CASE UNCHANGED dev
  BY <1>2 DEF StageInv
<1>3. CASE DevStartData
  BY <1>1, <1>2, <1>3 DEF DevStartData, DevRecords, StageInv
<1>4. CASE DevMidstData
  BY <1>1, <1>2, <1>4 DEF DevMidstData, DevRecords, StageInv
<1>5. CASE DevEndData \/ DevReadStart \/ DevReadEnd
  BY <1>1, <1>5 DEF DevEndData, DevReadStart, DevReadEnd, DevRecords, StageInv
<1>6. CASE DevExecData
  BY <1>1, <1>6 DEF DevExecData, DevRecords, StageInv
<1>7. CASE DevSync \/ DevLeave \/ DevFail \/ Replug
  BY <1>1, <1>7 DEF DevSync, DevLeave, DevFail, Replug, DevReplug, DevRecords, StageInv
<1>8. \/ UNCHANGED dev
      \/ DevServe \/ Replug
  BY DEF Next, StartRun, HostNext, DevNext, devVars, vars
<1> QED
  BY <1>2, <1>3, <1>4, <1>5, <1>6, <1>7, <1>8
     DEF DevServe, DevConnect, DevVerifyError, DevReadMidst

\* The host is executing a "read" in step with the phone.
InRead == InStep /\ cmd.op = "read"

\* Types and places of a read in step.
LEMMA ReadFacts ==
  ASSUME TypeOK, LockInv, ReadInv, InRead
  PROVE  /\ Cur.kind = "upload" /\ checksum_type = "ip"
         /\ step \in {"READ_FLASH_START", "READ_FLASH_MIDST", "READ_FLASH_END"}
         /\ Cur.part = cmd.part /\ Cur.size = cmd.size /\ cmd.size \in Nat
         /\ cmd.part \in Partitions /\ cmd.part \in Memories /\ Capacity[cmd.part] \in Nat
         /\ off \in Nat /\ len \in Nat
<1>1. InStep /\ cmd.op = "read" /\ clean /\ Running
  BY DEF InRead, InStep
<1>2. Cur.kind = "upload" /\ step \in StepsOf(Cur.kind) /\ cmd \in Commandline
  BY <1>1, InStepTask DEF KindOf
<1>3. Cur.part = cmd.part /\ Cur.size = cmd.size
  BY <1>1 DEF ReadInv
<1>4. off \in Nat /\ len \in Nat
  BY DEF TypeOK, HostTypeOK
<1> QED
  BY <1>2, <1>3, <1>4 DEF StepsOf, Memories, Commandline, checksum_type

\* Two adjacent parts of a memory, one after the other.
LEMMA ConcatParts ==
  ASSUME NEW S, NEW g, NEW m \in Nat, NEW n \in Nat,
         NEW s \in Seq(S), NEW t \in Seq(S),
         s = [i \in 1..m |-> g[i]], t = [i \in 1..n |-> g[m + i]]
  PROVE  s \o t = [i \in 1..(m + n) |-> g[i]]
<1>1. Len(s) = m /\ Len(t) = n
  <2>1. DOMAIN s = 1..m /\ DOMAIN t = 1..n
    OBVIOUS
  <2> QED
    BY <2>1, LenProperties
<1>2. s \o t \in Seq(S) /\ Len(s \o t) = m + n /\ DOMAIN (s \o t) = 1..(m + n)
  BY <1>1, ConcatProperties, LenProperties
<1>3. ASSUME NEW i \in 1..(m + n) PROVE (s \o t)[i] = g[i]
  <2>1. CASE i <= m
    <3>1. (s \o t)[i] = s[i]
      BY <1>1, <2>1, ConcatProperties
    <3>2. s[i] = g[i]
      BY <2>1
    <3> QED
      BY <3>1, <3>2
  <2>2. CASE ~(i <= m)
    <3>1. (s \o t)[i] = t[i - m]
      BY <1>1, <2>2, ConcatProperties
    <3>2. i - m \in 1..n /\ m + (i - m) = i
      BY <2>2
    <3> QED
      BY <3>1, <3>2
  <2> QED
    BY <2>1, <2>2
<1>4. s \o t = [i \in DOMAIN (s \o t) |-> (s \o t)[i]]
  BY <1>2
<1> QED
  BY <1>2, <1>3, <1>4

\* The request that is sent is about the next window.
LEMMA ReadTransfer ==
  ASSUME TypeOK, LockInv, ReadInv, InRead, Transfer, UNCHANGED <<dev, mem>>
  PROVE  ReadInv'
<1>1. clean /\ Running /\ phase = "send" /\ cmd.op = "read" /\ InStep
  BY DEF InRead, InStep, Transfer
<1>2. toDev = <<>> /\ toHost = <<>>
  BY <1>1, InStepPipes
<1>3. PICK o \in Offsets, n \in Lengths :
         Chosen(o, n) /\ toDev' = Append(toDev, RequestFrame(o, n)) /\ len' = n /\ pos' = o
  BY DEF Transfer
<1> DEFINE m == RequestFrame(o, n)
<1>4. toDev'[1] = m /\ toHost' = <<>> /\ phase' = "recv"
      /\ UNCHANGED <<cmd, todo, step, off, out, clean>>
  BY <1>2, <1>3, AppendToEmpty DEF Transfer
<1>5. m.type = step /\ m.ck = "ip"
  BY ReadFacts DEF RequestFrame, Bare
<1>6. step = "READ_FLASH_START" => m.part = cmd.part
  BY ReadFacts DEF RequestFrame, Bare
<1>7. ASSUME step = "READ_FLASH_MIDST"
      PROVE  m.n = n /\ m.off = off /\ o = off /\ off + n <= cmd.size
  <2>1. o = off /\ n = Smaller(Cur.size - off, Window) /\ n \in Nat
    BY <1>3, <1>7, ReadFacts DEF Chosen, Lengths, FileSystem
  <2>2. off <= cmd.size
    BY <1>1, <1>7 DEF ReadInv
  <2>3. off + n <= cmd.size
    BY <2>1, <2>2, ReadFacts DEF Smaller
  <2>4. m.n = n /\ m.off = off
    BY <1>7, <2>1 DEF RequestFrame, Bare
  <2> QED
    BY <2>1, <2>3, <2>4
<1> HIDE DEF m
<1>8. UNCHANGED Cur
  BY <1>4 DEF Cur
<1> QED
  BY <1>1, <1>2, <1>3, <1>4, <1>5, <1>6, <1>7, <1>8 DEF ReadInv

\* Waiting changes nothing about a read.
LEMMA ReadWaiting ==
  ASSUME TypeOK, LockInv, ReadInv, InRead, Waiting, UNCHANGED <<dev, mem>>
  PROVE  ReadInv'
<1>1. UNCHANGED <<cmd, clean, todo, step, phase, off, pos, len, out, toDev>>
      /\ toHost' \in {toHost, <<>>}
  BY DEF Waiting
<1>2. UNCHANGED <<Cur, Running>>
  BY <1>1 DEF Cur, Running
<1> QED
  BY <1>1, <1>2 DEF ReadInv

\* The next exchange of a "read".
LEMMA ReadAdvance ==
  ASSUME TypeOK, LockInv, ReadInv, InRead, off' \in Nat, Advance(off'),
         step \in {"READ_FLASH_START", "READ_FLASH_MIDST"},
         UNCHANGED <<clean, dev, mem>>, toDev' = <<>>, toHost' = <<>>,
         off' <= cmd.size, off' <= Capacity[cmd.part],
         dev.mode = "read" => dev.target = cmd.part,
         out' = [i \in 1..off' |-> mem[cmd.part][i]]
  PROVE  ReadInv' /\ CleanReadIntegrity'
<1>1. InStep /\ Running
  BY DEF InRead, InStep
<1>2. cmd' = cmd /\ \/ Exchange("READ_FLASH_MIDST")
                    \/ off' >= Cur.size /\ Exchange("READ_FLASH_END")
  BY <1>1, InStepAdvance, ReadFacts
<1>3. UNCHANGED todo /\ phase' = "send"
      /\ \/ step' = "READ_FLASH_MIDST"
         \/ step' = "READ_FLASH_END" /\ off' = cmd.size
  BY <1>2, ReadFacts DEF Exchange
<1>4. UNCHANGED Cur /\ Running'
  BY <1>1, <1>3 DEF Cur, Running
<1>5. ReadInv'
  BY <1>2, <1>3, <1>4, ReadFacts DEF ReadInv
<1> QED
  BY <1>4, <1>5 DEF CleanReadIntegrity, Succeeded

\* After the reply to START a transfer that is open is one of the partition; END ends the read.
LEMMA ReadReply ==
  ASSUME TypeOK, LockInv, ReadInv, InRead, ReplyTaken, off' \in Nat, UNCHANGED <<dev, mem>>
  PROVE  ReadInv' /\ CleanReadIntegrity'
<1>1. /\ InStep /\ clean /\ Running /\ cmd.op = "read" /\ phase = "recv"
      /\ toHost # <<>> /\ toDev' = <<>> /\ toHost' = <<>> /\ cmd' = cmd /\ clean' = clean
      /\ Advance(off') /\ step # "READ_FLASH_MIDST"
  BY DEF InRead, InStep, ReplyTaken
<1>2. CASE step = "READ_FLASH_START"
  <2>1. off' = 0 /\ out' = <<>> /\ (dev.mode = "read" => dev.target = cmd.part)
    BY <1>1, <1>2 DEF ReplyTaken, ReadInv
  <2>2. out' = [i \in 1..off' |-> mem[cmd.part][i]] /\ off' <= cmd.size /\ off' <= Capacity[cmd.part]
    BY <2>1, ReadFacts
  <2> QED
    BY <1>1, <1>2, <2>1, <2>2, ReadAdvance
<1>3. CASE step = "READ_FLASH_END"
  <2>1. todo' = <<>>
    BY <1>1, <1>3, InStepAdvance
  <2>2. out' = out /\ out = [i \in 1..off |-> mem[cmd.part][i]] /\ off = cmd.size
    BY <1>1, <1>3 DEF ReplyTaken, ReadInv
  <2> QED
    BY <1>1, <2>1, <2>2 DEF ReadInv, Running, CleanReadIntegrity
<1> QED
  BY <1>1, <1>2, <1>3, ReadFacts

\* A window that is received is the one asked for, and is added to the file.
LEMMA ReadData ==
  ASSUME TypeOK, LockInv, ReadInv, InRead, DataTaken, off' \in Nat, UNCHANGED <<dev, mem>>
  PROVE  ReadInv' /\ CleanReadIntegrity'
<1>1. /\ InStep /\ clean /\ Running /\ cmd.op = "read" /\ phase = "recv"
      /\ step = "READ_FLASH_MIDST" /\ toHost # <<>> /\ toDev' = <<>> /\ toHost' = <<>>
      /\ clean' = clean /\ Advance(off') /\ toHost[1].type = "READ_FLASH"
      /\ off' = off + len /\ out' = out \o toHost[1].data
  BY ReadFacts DEF InRead, InStep, DataTaken, FileSystem
<1>2. /\ out = [i \in 1..off |-> mem[cmd.part][i]] /\ off + len <= cmd.size
      /\ dev.mode = "read" => dev.target = cmd.part
      /\ off + len <= Capacity[cmd.part]
      /\ toHost[1].data = [i \in 1..len |-> mem[cmd.part][off + i]]
  BY <1>1 DEF ReadInv
<1>3. toHost[1] \in Frames
  BY <1>1, InStepPipes
<1>4. out \in Seq(Units) /\ toHost[1].data \in Seq(Units)
  BY <1>3 DEF TypeOK, HostTypeOK, Frames, FrameRecords
<1>5. out' = [i \in 1..off' |-> mem[cmd.part][i]]
  <2> DEFINE g == mem[cmd.part]
             d == toHost[1].data
  <2>1. /\ out \in Seq(Units) /\ d \in Seq(Units) /\ off \in Nat /\ len \in Nat
        /\ out = [i \in 1..off |-> g[i]] /\ d = [i \in 1..len |-> g[off + i]]
    BY <1>2, <1>4, ReadFacts
  <2> HIDE DEF g, d
  <2>2. out \o d = [i \in 1..(off + len) |-> g[i]]
    BY <2>1, ConcatParts
  <2> QED
    BY <1>1, <2>2 DEF g, d
<1> QED
  BY <1>1, <1>2, <1>5, ReadAdvance

\* While a "read" runs, the phone changes no memory, and the partition it has open
\* is the one the "read" asked for.
LEMMA ReadServe ==
  ASSUME TypeOK, LockInv, StageInv, ReadInv, InRead, DevServe, UNCHANGED hostVars
  PROVE  ReadInv'
<1>1. /\ InStep /\ clean /\ Running /\ cmd.op = "read" /\ phase = "recv"
      /\ toDev # <<>> /\ Request = toDev[1] /\ toDev[1] \in Frames
      /\ toHost = <<>> /\ toDev' = <<>>
  BY ServeOne, InStepPipes DEF InRead, InStep
<1>2. UNCHANGED <<cmd, clean, todo, step, phase, off, pos, len, out>>
  BY DEF hostVars
<1>3. UNCHANGED <<Cur, Running>>
  BY <1>2 DEF Cur, Running
<1>4. /\ Request.type = step /\ Request.ck = "ip"
      /\ step = "READ_FLASH_START" => Request.part = cmd.part
      /\ step = "READ_FLASH_MIDST" => Request.off = off /\ Request.n = len
      /\ step # "READ_FLASH_START" => (dev.mode = "read" => dev.target = cmd.part)
      /\ step # "READ_FLASH_START" => off <= cmd.size /\ off <= Capacity[cmd.part]
                                      /\ out = [i \in 1..off |-> mem[cmd.part][i]]
  BY <1>1 DEF ReadInv
<1>5. \/ DevReadStart /\ step = "READ_FLASH_START"
      \/ DevReadMidst /\ step = "READ_FLASH_MIDST"
      \/ DevReadEnd /\ step = "READ_FLASH_END"
      \/ DevVerifyError \/ DevFail
  BY <1>4, ReadFacts
     DEF DevServe, DevSync, DevConnect, DevStartData, DevMidstData,
         DevEndData, DevExecData, DevReadStart, DevReadMidst, DevReadEnd, DevLeave, Serve
<1>6. mem' = mem
  BY <1>5 DEF DevReadStart, DevReadMidst, DevReadEnd, DevVerifyError, DevFail
<1>7. dev \in DevRecords
  BY DEF TypeOK, DevTypeOK
<1>8. dev'.mode = "read" => dev'.target = cmd.part
  <2>1. CASE DevReadStart /\ step = "READ_FLASH_START"
    BY <1>4, <1>7, <2>1 DEF DevReadStart, DevRecords
  <2>2. CASE step # "READ_FLASH_START"
    <3>1. dev' = dev \/ dev'.mode = "idle"
      BY <1>4, <1>5, <1>7, <2>2 DEF DevReadMidst, DevReadEnd, DevVerifyError, DevFail, DevRecords
    <3> QED
      BY <1>4, <2>2, <3>1
  <2>3. CASE step = "READ_FLASH_START" /\ DevVerifyError
    <3>1. dev' = dev /\ DevChecksum # "ip"
      BY <1>4, <2>3 DEF DevVerifyError
    <3>2. dev.mode # "read"
      BY <3>1 DEF DevChecksum, StageInv
    <3> QED
      BY <3>1, <3>2
  <2>4. CASE step = "READ_FLASH_START" /\ DevFail
    BY <1>4, <1>7, <2>4 DEF DevFail, DevRecords
  <2> QED
    BY <1>5, <2>1, <2>2, <2>3, <2>4
<1>9. ASSUME step = "READ_FLASH_MIDST", toHost'[1].type = "READ_FLASH"
      PROVE  /\ toHost'[1].n = len /\ off + len <= Capacity[cmd.part]
             /\ toHost'[1].data = [i \in 1..len |-> mem[cmd.part][off + i]]
  <2>1. ~Answer("NAK")
    BY <1>1, <1>9, AppendToEmpty DEF Answer, Bare
  <2>2. DevReadMidst
    BY <1>5, <1>9, <2>1 DEF DevVerifyError, DevFail
  <2>3. PICK m \in Frames :
              /\ dev.mode = "read" /\ Request.off + Request.n <= Capacity[dev.target]
              /\ toHost' = Append(toHost, m)
              /\ m.type = "READ_FLASH" /\ m.n = Request.n
              /\ m.data = [i \in 1..Request.n |-> mem[dev.target][Request.off + i]]
    BY <2>1, <2>2, ReadMidstAnswer
  <2>4. toHost'[1] = m
    BY <1>1, <2>3, AppendToEmpty
  <2>5. dev.target = cmd.part /\ Request.off = off /\ Request.n = len
    BY <1>4, <1>9, <2>3
  <2> QED
    BY <2>3, <2>4, <2>5
<1>10. /\ step = "READ_FLASH_END" => off = cmd.size
       /\ step = "READ_FLASH_MIDST" => off + len <= cmd.size /\ pos = off
       /\ Cur.part = cmd.part /\ Cur.size = cmd.size
  BY <1>1 DEF ReadInv
<1> QED
  BY <1>1, <1>2, <1>3, <1>4, <1>6, <1>8, <1>9, <1>10 DEF ReadInv

RInv == LockInv /\ QuietInv /\ StageInv /\ ReadInv /\ CleanReadIntegrity

\* A step of the program keeps what is known of a read.
LEMMA HostRead ==
  ASSUME TypeOK, TypeOK', RInv, HostNext
  PROVE  ReadInv' /\ CleanReadIntegrity'
<1>1. /\ LockInv /\ ReadInv /\ HostStep /\ cmd' = cmd /\ clean' = clean /\ Running
      /\ UNCHANGED <<dev, mem>> /\ off' \in Nat
  BY HostStepFrame DEF RInv, HostNext, devVars, TypeOK, HostTypeOK
<1>2. CASE ~InRead
  BY <1>1, <1>2 DEF InRead, InStep, Strict, ReadInv, CleanReadIntegrity, Succeeded
<1>3. CASE InRead
  <2>1. InStep
    BY <1>3 DEF InRead
  <2>2. CASE Transfer \/ Waiting
    <3>1. Running'
      BY <1>1, <2>2 DEF Transfer, Waiting, Running
    <3> QED
      BY <1>1, <1>3, <2>2, <3>1, ReadTransfer, ReadWaiting DEF CleanReadIntegrity, Succeeded
  <2>3. CASE ReplyTaken \/ DataTaken
    BY <1>1, <1>3, <2>3, ReadReply, ReadData
  <2>4. ~ReadError
    BY <1>1, <1>3, ReadFacts DEF ReadError
  <2>5. CASE todo' = <<>> /\ ret' = "err"
    BY <2>5 DEF ReadInv, Running, CleanReadIntegrity, Succeeded
  <2> QED
    BY <1>1, <2>1, <2>2, <2>3, <2>4, <2>5, InStepHost
<1> QED
  BY <1>2, <1>3

\* A read that starts has saved nothing.
LEMMA StartRead ==
  ASSUME TypeOK, StartRun
  PROVE  ReadInv' /\ CleanReadIntegrity'
<1>1. PICK c \in Commandline : Start(c)
  BY DEF StartRun
<1>2. CleanReadIntegrity'
  BY StartPending DEF CleanReadIntegrity, Strict
<1>3. CASE ~(clean' /\ c.op = "read") \/ todo' = <<>>
  BY <1>1, <1>2, <1>3, StartEffect DEF ReadInv, Running
<1>4. CASE clean' /\ c.op = "read" /\ todo' # <<>>
  <2>1. /\ cmd' = c /\ todo' = Program(c.op, c.part, c.src, c.size)
        /\ phase' = "send" /\ step' = FirstStep(Head(todo').kind)
    BY <1>1, <1>4, StartEffect
  <2>2. Head(todo') = Upload(c.part, c.size)
    BY <1>4, <2>1, StrictTask DEF Strict
  <2>3. step' = "READ_FLASH_START" /\ Cur'.part = c.part /\ Cur'.size = c.size
    BY <2>1, <2>2 DEF FirstStep, Cur, Upload, Task
  <2> QED
    BY <1>2, <2>1, <2>3 DEF ReadInv
<1> QED
  BY <1>3, <1>4

\* A step of the phone keeps what is known of a read.
LEMMA DevRead ==
  ASSUME TypeOK, RInv, DevNext \/ Replug
  PROVE  ReadInv' /\ CleanReadIntegrity'
<1>1. UNCHANGED hostVars /\ LockInv /\ QuietInv /\ StageInv /\ ReadInv /\ CleanReadIntegrity
  BY DEF DevNext, Replug, RInv
<1>2. UNCHANGED <<cmd, clean, todo, ret, out>>
  BY <1>1 DEF hostVars
<1>3. CASE InRead
  <2>1. DevServe /\ Running
    BY <1>3 DEF DevNext, Replug, InRead, InStep
  <2> QED
    BY <1>1, <1>2, <1>3, <2>1, ReadServe DEF CleanReadIntegrity, Succeeded, Running
<1>4. CASE Succeeded("read")
  <2>1. Replug
    BY <1>1, <1>4, QuietServe DEF DevNext, Strict
  <2>2. mem' = mem
    BY <2>1 DEF Replug, DevReplug
  <2> QED
    BY <1>1, <1>2, <1>4, <2>2 DEF Succeeded, ReadInv, Running, CleanReadIntegrity
<1>5. CASE ~InRead /\ ~Succeeded("read")
  BY <1>2, <1>5 DEF InRead, InStep, Strict, ReadInv, CleanReadIntegrity, Succeeded, Running
<1> QED
  BY <1>3, <1>4, <1>5

\* Every step keeps the inductive invariant of reads.
LEMMA ReadNext ==
  ASSUME TypeOK, TypeOK', RInv, [Next]_vars
  PROVE  RInv'
<1>1. LockInv' /\ QuietInv' /\ StageInv'
  BY LockNext, QuietNext, StageNext DEF RInv
<1>2. CASE UNCHANGED vars
  BY <1>1, <1>2 DEF RInv, ReadInv, Running, Cur, CleanReadIntegrity,
         Succeeded, vars, hostVars, pipes, devVars
<1>3. CASE ~(UNCHANGED vars)
  BY <1>1, <1>3, HostRead, StartRead, DevRead DEF Next, RInv
<1> QED
  BY <1>2, <1>3

\* After a "read" that found the pipes empty and reported success, the local file is what
\* the partition holds, for any sizes, errors and delays, although the program does not
\* look at the type of the reply that opens the partition.
THEOREM ReadCorrect == Spec => []CleanReadIntegrity
<1>1. Init => RInv
  BY DEF Init, HostInit, DevInit, RInv, LockInv, StageInv, ReadInv, QuietInv,
         CleanReadIntegrity, Running, Succeeded
<1>2. TypeOK /\ TypeOK' /\ RInv /\ [Next]_vars => RInv'
  BY ReadNext
<1>3. RInv => CleanReadIntegrity
  BY DEF RInv
<1> QED
  BY <1>1, <1>2, <1>3, TypeCorrect, PTL DEF Spec

=============================================================================
