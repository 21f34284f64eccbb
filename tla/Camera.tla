-------------------------------- MODULE Camera --------------------------------
(***************************************************************************)
(* sprd_read_camera (src/main.c) over FatFs: every file of a directory     *)
(* that matches *.jpg is copied to a local file of the same name. A second *)
(* user of FatFs, a reader, opens one file and reads and seeks in it as it *)
(* likes. A call of FatFs is a step; any sector read of it may fail, and so may   *)
(* what is done to the local files.                                        *)
(***************************************************************************)
EXTENDS FatFs

CONSTANTS
  Volumes,          \* contents of the partition: see Chain and DirEntries; errs of its reads fail
  Users,            \* {"camera", "reader"} or one of them
  Path,             \* the directory
  win_size,         \* bytes the camera reads at a time
  MaxSize,          \* bytes of the largest file
  Sizes, MaxOps,    \* what the reader asks for, and how often
  MaxReads          \* sector reads of a call before one fails

VARIABLES
  v, user,
  x,       \* the objects of FatFs, see there
  pc, name, ret,
  saved,   \* local files, by name
  ops, errs,
  at, got  \* history: position and result of the reader's last read

vars == <<v, user, x, pc, name, ret, saved, ops, errs, at, got>>

Plenty == 1000   \* sector reads, more than any call makes

NoX == [f |-> NoFs, d |-> NoDir, p |-> NoFile, res |-> "OK"]

Init ==
  /\ v \in Volumes /\ user \in Users
  /\ x = NoX                         \* f_mount(&FatFs, "0:", 0)
  /\ pc = "first" /\ name = <<>> /\ ret = "none" /\ saved = <<>>
  /\ ops = 0 /\ errs = v.errs /\ at = 0 /\ got = <<>>

\* How many sector reads of a call succeed; fewer than it needs when an error is due.
Fuses == {Plenty} \cup IF errs > 0 THEN 0..MaxReads ELSE {}

Fused(n) == [x EXCEPT !.f.fuse = n, !.f.reads = {}]

Called(n, y) ==
  /\ x' = [y EXCEPT !.f.fuse = 0]
  /\ errs' = IF n = Plenty THEN errs ELSE errs - 1

Return(r) == pc' = "done" /\ ret' = r

\* The end of f_findfirst and f_findnext: the loop of sprd_read_camera goes on or ends.
Found(n, r) ==
  /\ Called(n, r.x)
  /\ name' = r.name
  /\ IF r.x.res # "OK" THEN Return("err")
     ELSE IF r.name = <<>> THEN Return("ok")
     ELSE pc' = "found" /\ UNCHANGED ret
  /\ UNCHANGED <<v, user, saved, ops, at, got>>

FindFirst ==
  /\ pc = "first" /\ user = "camera"
  /\ \E n \in Fuses, start \in BOOLEAN :
       (start \/ errs > 0) /\ \E r \in {f_findfirst(v, Fused(n), Path, start)} : Found(n, r)

FindNext == pc = "next" /\ \E n \in Fuses : \E r \in {f_findnext(v, Fused(n))} : Found(n, r)

\* The local file is created before the file is opened.
OpenFile ==
  /\ pc = "found"
  /\ saved' = [c \in DOMAIN saved \cup {name} |-> IF c = name THEN <<>> ELSE saved[c]]
  /\ \E n \in Fuses : \E y \in {f_open(v, Fused(n), Append(Path, name), TRUE)} :
       /\ Called(n, y)
       /\ IF y.res # "OK" THEN Return("err") ELSE pc' = "copy" /\ UNCHANGED ret
  /\ UNCHANGED <<v, user, name, ops, at, got>>

CopyTurn ==
  /\ pc = "copy"
  /\ \E n \in Fuses : \E r \in {f_read(v, Fused(n), win_size)} :
       /\ Called(n, r.x)
       /\ IF r.x.res # "OK" THEN Return("err") /\ UNCHANGED saved
          ELSE /\ saved' = [saved EXCEPT ![name] = @ \o r.got]
               /\ pc' = IF r.got = <<>> THEN "next" ELSE "copy"
               /\ UNCHANGED ret
  /\ UNCHANGED <<v, user, name, ops, at, got>>

\* The local directory or file cannot be made, or write() comes short: the camera gives up.
LocalError ==
  /\ user = "camera" /\ pc \in {"first", "found", "copy"} /\ errs > 0
  /\ errs' = errs - 1 /\ Return("err")
  /\ UNCHANGED <<v, user, x, name, saved, ops, at, got>>

-----------------------------------------------------------------------------
(* The reader *)

ReaderOpens ==
  /\ pc = "first" /\ user = "reader"
  /\ \E n \in Fuses, c \in v.files :
       \E y \in {f_open(v, Fused(n), Append(Path, <<c>>), TRUE)} :
         /\ Called(n, y) /\ name' = <<c>>
         /\ IF y.res # "OK" THEN Return("err") ELSE pc' = "reader" /\ UNCHANGED ret
  /\ UNCHANGED <<v, user, saved, ops, at, got>>

Reader == pc = "reader" /\ ops < MaxOps /\ ops' = ops + 1 /\ UNCHANGED <<v, user, pc, name, ret, saved>>

ReaderReads ==
  /\ Reader
  /\ \E n \in Fuses, btr \in Sizes : \E r \in {f_read(v, Fused(n), btr)} : Called(n, r.x) /\ got' = r.got
  /\ at' = x.p.fptr

ReaderSeeks ==
  /\ Reader
  /\ \E n \in Fuses, to \in Sizes : Called(n, f_lseek(v, Fused(n), to))
  /\ got' = <<>> /\ UNCHANGED at

Next ==
  \/ FindFirst \/ FindNext \/ OpenFile \/ CopyTurn \/ LocalError
  \/ ReaderOpens \/ ReaderReads \/ ReaderSeeks

Spec == Init /\ [][Next]_vars

-----------------------------------------------------------------------------
(* What the volume holds, read off its FAT and directories *)

Mounted == x.f.fs_type # 0

\* The chain from cluster c, cut before a cluster comes twice or a number is none of a cluster.
RECURSIVE ChainFrom(_, _)
ChainFrom(c, before) ==
  IF c \notin 2..(x.f.n_fatent - 1) \ before THEN <<>>
  ELSE <<c>> \o ChainFrom(v.fat[c], before \cup {c})

Chain(c) == ChainFrom(c, {})

\* The chain ends as it should.
Sound(c) == LET q == Chain(c) IN q # <<>> /\ v.fat[q[Len(q)]] >= x.f.n_fatent

\* ... and is long enough for size bytes.
Whole(c, size) == Sound(c) /\ size <= Len(Chain(c)) * x.f.csize * SS

Place(c) == (c - 2) * x.f.csize + x.f.database
Sectors2(q) == [i \in 1..(Len(q) * x.f.csize) |->
                  Place(q[(i - 1) \div x.f.csize + 1]) + ((i - 1) % x.f.csize)]

\* The bytes of a file that starts at cluster c.
Contents(c, size) ==
  LET s == Sectors2(Chain(c)) IN [i \in 1..size |-> <<s[(i - 1) \div SS + 1], (i - 1) % SS>>]

\* The entries of the directory at cluster c, up to the end mark.
DirEntries(c) ==
  LET s == Sectors2(Chain(c))
      all == [i \in 1..(Len(s) * PerSector) |-> v.dir[s[(i - 1) \div PerSector + 1]][((i - 1) % PerSector) + 1]]
      ends == {i \in DOMAIN all : all[i].t = "end"}
  IN IF ends = {} THEN all ELSE SubSeq(all, 1, (CHOOSE i \in ends : \A j \in ends : i <= j) - 1)

\* The long name of entry i: the pieces before it, n down to 1, with its checksum.
LfnBefore(es, i, n) ==
  /\ n < i
  /\ \A k \in 1..n : LET e == es[i - k] IN e.t = "lfn" /\ e.ord = k /\ (e.last <=> k = n)
                                            /\ e.sum = Sums[es[i].name]

HasLfn(es, i) == \E n \in 1..MAX_PARTS : LfnBefore(es, i, n)

LongName(es, i) ==
  LET n == CHOOSE k \in 1..MAX_PARTS : LfnBefore(es, i, k)
      stop == {k \in 1..n : es[i - k].part \notin FullParts}
      len == IF stop = {} THEN n ELSE CHOOSE k \in stop : \A j \in stop : k <= j
  IN [k \in 1..len |-> es[i - k].part]

Files(es) == {i \in DOMAIN es : es[i].t = "sfn"}

NamesAt(es, i) == {<<es[i].name>>} \cup IF HasLfn(es, i) THEN {LongName(es, i)} ELSE {}

Shown(es, i) ==
  IF HasLfn(es, i) /\ \A k \in DOMAIN LongName(es, i) : LongName(es, i)[k] \notin AlienParts
  THEN LongName(es, i) ELSE <<es[i].name>>

\* No two entries share a name, and every file of the directory has its chain.
InOrder(es) ==
  /\ \A i, j \in Files(es) : i # j => NamesAt(es, i) \cap NamesAt(es, j) = {}
  /\ \A i \in Files(es) : es[i].attr = "file" /\ es[i].size > 0 => Whole(es[i].clst, es[i].size)

-----------------------------------------------------------------------------
(* Properties *)

\* sprd_read_camera: when it reports success for a volume that is in order, exactly the files
\* that match have been saved, each under its name and with its contents, whatever deleted or
\* orphaned entries lie between them and wherever sectors and clusters end.
CameraSavesAll ==
  (user = "camera" /\ pc = "done" /\ ret = "ok" /\ Mounted) =>
    LET es == DirEntries(v.camera)
        hits == {i \in Files(es) : Matches(Shown(es, i))}
    IN Sound(v.camera) /\ InOrder(es) =>
         /\ DOMAIN saved = {Shown(es, i) : i \in hits}
         /\ \A i \in hits : saved[Shown(es, i)] = Contents(es[i].clst, es[i].size)

\* f_open, dir_find: the file that was opened bears the name that was asked for, also in a
\* directory that is not in order, and although lfnbuf still holds pieces of other names.
OpensNamed ==
  (pc \in {"copy", "reader"} /\ Sound(v.camera)) =>
    LET es == DirEntries(v.camera)
    IN \E i \in Files(es) : /\ name \in NamesAt(es, i)
                            /\ es[i].clst = x.p.sclust /\ es[i].size = x.p.objsize

\* f_read and f_lseek: whatever was read and sought before, a read returns the bytes of the file
\* at the position, as many as were asked for and there are, or fails.
ReadsFile ==
  (pc = "reader" /\ got # <<>> /\ Whole(x.p.sclust, x.p.objsize)) =>
    got = SubSeq(Contents(x.p.sclust, x.p.objsize), at + 1, at + Len(got))

\* find_volume: of a volume that was accepted no sector outside is ever read, and the FAT, the
\* root directory and the clusters do not overlap.
InsideVolume ==
  Mounted =>
    /\ WellPlaced(x.f, v.boot[v.start], v.start)
    /\ x.f.reads \subseteq 0..(v.start + v.boot[v.start].tsect - 1)

\* How much is left to do: of the directory, of the file, and of the turn.
Left ==
  LET dir == IF x.d.sect = 0 THEN 0 ELSE MAX_DIR - x.d.dptr
  IN CASE pc = "first" -> <<2, 0, 0>>
       [] pc = "done"  -> <<0, 0, 0>>
       [] OTHER -> <<1, dir, CASE pc = "found" -> MaxSize + 2
                               [] pc = "copy"  -> 1 + x.p.objsize - x.p.fptr
                               [] OTHER        -> 0>>

Less(a, b) ==
  \/ a[1] < b[1]
  \/ a[1] = b[1] /\ (a[2] < b[2] \/ (a[2] = b[2] /\ a[3] < b[3]))

\* The directory has reached its largest size: dir_next reports the end but leaves dp->sect, and
\* f_readdir ignores the report, so f_findnext returns the last entry again and again.
AtLimit == x.d.dptr + SZDIRE >= MAX_DIR

\* f_findnext, dir_next, f_read: every step of the camera brings it closer to its end, be it in a
\* directory or file whose chain runs in a circle; so its loops end unless the directory is as
\* large as it can be.
CameraAdvances == [][user = "camera" => Less(Left', Left) \/ AtLimit]_vars

\* The type invariant; the offset in a directory stays below MAX_DIR, the file pointer in the file.
TypeOK ==
  /\ pc \in {"first", "found", "copy", "next", "reader", "done"} /\ ret \in {"none", "ok", "err"}
  /\ x.d.dptr \in 0..(MAX_DIR - 1) /\ x.p.fptr \in 0..x.p.objsize
=============================================================================
