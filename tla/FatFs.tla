-------------------------------- MODULE FatFs --------------------------------
(***************************************************************************)
(* FatFs (src/ff12b/src/ff.c) as the program builds it: one volume, read   *)
(* only, long names in a static buffer. The functions are operators from a *)
(* record x = [f, d, p, res] to the next: the file system object, a        *)
(* directory object, a file object and the result. v is the volume.        *)
(*                                                                         *)
(* A name is a sequence of the 13-character pieces that an LFN entry       *)
(* holds, the terminator being part of the last unless that is full. f.fuse*)
(* is the number of sector reads that succeed before one fails.            *)
(***************************************************************************)
EXTENDS FatGeometry, FiniteSets

CONSTANTS
  MAX_DIR,                \* bytes of the longest directory
  MAX_PARTS,              \* pieces of the longest name
  FullParts,              \* pieces without terminator
  AlienParts,             \* pieces that the code page cannot express
  ShortNames,             \* names in 8.3 form, each a piece
  Sums,                   \* sum_sfn of each
  Jpg                     \* pieces that end in ".jpg"

Bad == -1      \* 0xFFFFFFFF
Nul == "nul"

ASSUME FatFsAssumption ==
  /\ {MAX_DIR, MAX_PARTS} \subseteq Nat \ {0} /\ MAX_DIR % SS = 0
  /\ ShortNames \cap FullParts = {} /\ Sums \in [ShortNames -> Nat]

\* FATFS: fs_type 0 is a volume that is not mounted.
NoFs == [fs_type |-> 0, csize |-> 0, n_fatent |-> 0, fatbase |-> 0, database |-> 0, dirbase |-> 0,
         n_rootdir |-> 0, winsect |-> Bad, lfnbuf |-> [i \in 1..(MAX_PARTS + 1) |-> Nul],
         fuse |-> 0, val |-> 0, reads |-> {}]

\* DIR; dp->dir is the entry at dptr in the window.
NoDir == [sclust |-> 0, clust |-> 0, sect |-> 0, dptr |-> 0, blk_ofs |-> Bad, attr |-> "file",
          fn |-> Nul]

\* FIL
NoFile == [sclust |-> 0, objsize |-> 0, err |-> "OK", sect |-> 0, fptr |-> 0, clust |-> 0]

Result(x, r) == [x EXCEPT !.res = r]

\* What is done when the call that led to x succeeded.
IfOk(x, F(_)) == IF x.res = "OK" THEN F(x) ELSE x

Min2(a, b) == IF a < b THEN a ELSE b

-----------------------------------------------------------------------------
(* Sectors and the FAT *)

\* disk_read of n sectors from s on.
disk_read(x, s, n) ==
  IF x.f.fuse = 0 THEN Result(x, "DISK_ERR")
  ELSE [x EXCEPT !.f.fuse = @ - 1, !.f.reads = @ \cup (s..(s + n - 1)), !.res = "OK"]

move_window(x, s) ==
  LET Loaded(y) == [y EXCEPT !.f.winsect = IF y.res = "OK" THEN s ELSE Bad]
  IN IF s = x.f.winsect THEN Result(x, "OK") ELSE Loaded(disk_read(x, s, 1))

\* get_fat leaves its result in f.val.
get_fat(v, x, c) ==
  LET s == FatSectors(x.f, c)
      Second(y) == IF Len(s) = 2 THEN move_window(y, s[2]) ELSE y
      Value(y) == [y EXCEPT !.f.val = IF y.res = "OK" THEN v.fat[c] ELSE Bad]
  IN IF c \notin 2..(x.f.n_fatent - 1) THEN [x EXCEPT !.f.val = 1]
     ELSE Value(IfOk(move_window(x, s[1]), Second))

-----------------------------------------------------------------------------
(* Directories *)

\* The directory entry that dp->dir points to, in the window.
Entry(v, x) ==
  IF x.f.winsect \in DOMAIN v.dir THEN v.dir[x.f.winsect][(x.d.dptr % SS) \div SZDIRE + 1]
  ELSE [t |-> "end"]

\* dir_sdi, which is always given the offset 0 here.
dir_sdi(x) ==
  LET c == IF x.d.sclust = 0 /\ x.f.fs_type = 32 THEN x.f.dirbase ELSE x.d.sclust
      s == IF c = 0 THEN x.f.dirbase ELSE clust2sect(x.f, c)
      y == [x EXCEPT !.d.dptr = 0]
  IN IF c = 0 /\ x.f.n_rootdir = 0 THEN Result(y, "INT_ERR")
     ELSE [y EXCEPT !.d.clust = c, !.d.sect = s, !.res = IF s = 0 THEN "INT_ERR" ELSE "OK"]

\* Mutant: the end of the table is not remembered.
NextClusterOn(v, x, ofs) ==
  LET To(y, c) == IF c \in {0, 1} THEN Result(y, "INT_ERR")
                  ELSE IF c = Bad THEN Result(y, "DISK_ERR")
                  ELSE IF c >= x.f.n_fatent THEN Result(y, "NO_FILE")
                  ELSE [y EXCEPT !.d.clust = c, !.d.sect = clust2sect(x.f, c), !.d.dptr = ofs, !.res = "OK"]
      Follow(y) == To(y, y.f.val)
  IN Follow(get_fat(v, x, x.d.clust))

\* dir_next at the end of a cluster.
NextCluster(v, x, ofs) ==
  LET To(y, c) == IF c \in {0, 1} THEN Result(y, "INT_ERR")
                  ELSE IF c = Bad THEN Result(y, "DISK_ERR")
                  ELSE IF c >= x.f.n_fatent THEN [y EXCEPT !.d.sect = 0, !.res = "NO_FILE"]
                  ELSE [y EXCEPT !.d.clust = c, !.d.sect = clust2sect(x.f, c), !.d.dptr = ofs, !.res = "OK"]
      Follow(y) == To(y, y.f.val)
  IN Follow(get_fat(v, x, x.d.clust))

\* dir_next without stretching the table.
dir_next(v, x) ==
  LET ofs == x.d.dptr + SZDIRE
      y == [x EXCEPT !.d.sect = @ + 1]
  IN IF x.d.sect = 0 \/ ofs >= MAX_DIR THEN Result(x, "NO_FILE")
     ELSE IF ofs % SS # 0 THEN [x EXCEPT !.d.dptr = ofs, !.res = "OK"]
     ELSE IF x.d.clust = 0
          THEN IF ofs \div SZDIRE >= x.f.n_rootdir THEN [x EXCEPT !.d.sect = 0, !.res = "NO_FILE"]
               ELSE [y EXCEPT !.d.dptr = ofs, !.res = "OK"]
     ELSE IF (ofs \div SS) % x.f.csize # 0 THEN [y EXCEPT !.d.dptr = ofs, !.res = "OK"]
     ELSE NextCluster(v, y, ofs)

-----------------------------------------------------------------------------
(* Long names *)

NoLfn == [ord |-> 255, sum |-> 255]   \* the state of an LFN sequence

\* cmp_lfn: the piece is that of the name in lfnbuf, and the name ends with the last piece.
cmp_lfn(f, e) ==
  /\ e.ord \in 1..MAX_PARTS /\ e.part = f.lfnbuf[e.ord]
  /\ e.last /\ e.part \in FullParts => f.lfnbuf[e.ord + 1] = Nul

\* pick_lfn
pick_lfn(f, e) ==
  [f EXCEPT !.lfnbuf = [i \in DOMAIN @ |->
     IF i = e.ord THEN e.part
     ELSE IF i = e.ord + 1 /\ e.last /\ e.part \in FullParts THEN Nul ELSE @[i]]]

\* Mutant: an entry that does not fit is passed over, and the sequence goes on.
AfterPassed(l, e, fits) ==
  LET n == IF e.last THEN [ord |-> e.ord, sum |-> e.sum] ELSE l
  IN IF e.ord = n.ord /\ e.sum = n.sum /\ fits THEN [n EXCEPT !.ord = @ - 1] ELSE n

\* The LFN sequence after the entry e, which fits or does not.
After(l, e, fits) ==
  LET n == IF e.last THEN [ord |-> e.ord, sum |-> e.sum] ELSE l
  IN IF e.ord = n.ord /\ e.sum = n.sum /\ fits THEN [n EXCEPT !.ord = @ - 1] ELSE [n EXCEPT !.ord = 255]

\* What lfnbuf holds up to the terminator.
LfnName(f) ==
  LET End(i) == f.lfnbuf[i] = Nul \/ f.lfnbuf[i] \notin FullParts
      n == CHOOSE i \in DOMAIN f.lfnbuf : End(i) /\ \A j \in 1..(i - 1) : ~End(j)
  IN SubSeq(f.lfnbuf, 1, IF f.lfnbuf[n] = Nul THEN n - 1 ELSE n)

\* dir_read: the next file or directory; l is the LFN sequence so far.
RECURSIVE DirRead(_, _, _)
DirRead(v, x, l) ==
  LET Go(y, k) ==
        LET Next(z) == IF z.res = "OK" THEN DirRead(v, z, k) ELSE [z EXCEPT !.d.sect = 0]
        IN Next(dir_next(v, y))
      Piece(y, e, k) ==
        LET z == IF e.last THEN [y EXCEPT !.d.blk_ofs = y.d.dptr] ELSE y
        IN Go(IF k.ord # 255 THEN [z EXCEPT !.f = pick_lfn(@, e)] ELSE z, k)
      Examine(y, e) ==
        CASE e.t = "end" -> [y EXCEPT !.d.sect = 0, !.res = "NO_FILE"]
          [] e.t \in {"del", "dot", "vol"} -> Go(y, [l EXCEPT !.ord = 255])
          [] e.t = "lfn" -> Piece(y, e, After(l, e, e.ord \in 1..MAX_PARTS))
          [] OTHER -> [y EXCEPT !.d.attr = e.attr,
                                !.d.blk_ofs = IF l.ord # 0 \/ l.sum # Sums[e.name] THEN Bad ELSE @]
      Loaded(y) == IF y.res = "OK" THEN Examine(y, Entry(v, y)) ELSE [y EXCEPT !.d.sect = 0]
  IN IF x.d.sect = 0 THEN Result(x, "NO_FILE") ELSE Loaded(move_window(x, x.d.sect))

dir_read(v, x) == DirRead(v, x, NoLfn)

RECURSIVE DirFind(_, _, _)

\* Mutant: a long name is taken for the next short one's, whatever its checksum.
DirFindNoSum(v, x, l) ==
  LET Go(y, k) == IfOk(dir_next(v, y), LAMBDA z : DirFind(v, z, k))
      Examine(y, e) ==
        CASE e.t = "end" -> Result(y, "NO_FILE")
          [] e.t \in {"del", "vol"} -> Go(y, [l EXCEPT !.ord = 255])
          [] e.t = "lfn" -> Go(y, After(l, e, cmp_lfn(y.f, e)))
          [] OTHER -> IF l.ord = 0 \/ y.d.fn = e.name THEN [y EXCEPT !.d.attr = e.attr]
                      ELSE Go(y, [l EXCEPT !.ord = 255])
  IN IfOk(move_window(x, x.d.sect), LAMBDA y : Examine(y, Entry(v, y)))

\* dir_find: the entry that bears the name in lfnbuf and d.fn.
DirFind(v, x, l) ==
  LET Go(y, k) == IfOk(dir_next(v, y), LAMBDA z : DirFind(v, z, k))
      Skip(y) == Go([y EXCEPT !.d.blk_ofs = Bad], [l EXCEPT !.ord = 255])
      Examine(y, e) ==
        CASE e.t = "end" -> Result(y, "NO_FILE")
          [] e.t \in {"del", "vol"} -> Skip(y)
          [] e.t = "lfn" ->
               Go(IF e.last THEN [y EXCEPT !.d.blk_ofs = y.d.dptr] ELSE y, After(l, e, cmp_lfn(y.f, e)))
          [] OTHER -> IF (l.ord = 0 /\ l.sum = Sums[e.name]) \/ y.d.fn = e.name
                      THEN [y EXCEPT !.d.attr = e.attr]
                      ELSE Skip(y)
  IN IfOk(move_window(x, x.d.sect), LAMBDA y : Examine(y, Entry(v, y)))

dir_find(v, x) == IfOk(dir_sdi(x), LAMBDA y : DirFind(v, [y EXCEPT !.d.blk_ofs = Bad], NoLfn))

\* create_name: the name goes to lfnbuf, over whatever was there, and its 8.3 form to d.fn,
\* which no entry has when something of the name is lost in it (NS_LOSS).
create_name(x, name) ==
  LET n == Len(name)
  IN [x EXCEPT !.f.lfnbuf = [i \in DOMAIN @ |->
                   IF i <= n THEN name[i] ELSE IF i = n + 1 /\ name[n] \in FullParts THEN Nul ELSE @[i]],
               !.d.fn = IF n = 1 /\ name[1] \in ShortNames THEN name[1] ELSE Nul]

\* follow_path for a path of one name or more.
RECURSIVE FollowFrom(_, _, _)
FollowFrom(v, x, path) ==
  LET last == Len(path) = 1
      Found(y) ==
        IF y.res # "OK" THEN Result(y, IF y.res = "NO_FILE" /\ ~last THEN "NO_PATH" ELSE y.res)
        ELSE IF last THEN y
        ELSE IF y.d.attr # "dir" THEN Result(y, "NO_PATH")
        ELSE FollowFrom(v, [y EXCEPT !.d.sclust = Entry(v, y).clst], Tail(path))
  IN Found(dir_find(v, create_name(x, Head(path))))

follow_path(v, x, path) == FollowFrom(v, [x EXCEPT !.d = NoDir], path)

-----------------------------------------------------------------------------
(* The volume *)

\* A sector that may be a boot sector: "fat", "mbr" (a boot record, but not of FAT) or "none".
check_fs(v, x, s) ==
  LET Examine(y) ==
        [y EXCEPT !.f.val = IF y.res # "OK" THEN 4
                            ELSE CASE v.boot[s].kind = "fat" -> 0 [] v.boot[s].kind = "mbr" -> 2 [] OTHER -> 3]
  IN Examine(move_window([x EXCEPT !.f.winsect = Bad], s))

\* The loop of find_volume over the partitions, from i on; s is the sector that was tried.
RECURSIVE TryPartitions(_, _, _)
TryPartitions(v, x, i) ==
  LET s == v.boot[0].br[i]
      Tried(y) == IF y.f.val >= 2 /\ i < Len(v.boot[0].br) THEN TryPartitions(v, y, i + 1)
                  ELSE [x |-> y, sect |-> s]
  IN Tried(IF s # 0 THEN check_fs(v, x, s) ELSE [x EXCEPT !.f.val = 3])

\* find_volume: a volume that is mounted stays so; start says whether disk_initialize succeeds.
find_volume(v, x, start) ==
  LET Mount(y, g) == [y EXCEPT !.f = g, !.res = IF g.fs_type = 0 THEN "NO_FILESYSTEM" ELSE "OK"]
      Found(y, s) == IF y.f.val = 4 THEN Result(y, "DISK_ERR")
                     ELSE IF y.f.val >= 2 THEN Result(y, "NO_FILESYSTEM")
                     ELSE Mount(y, Geometry(y.f, v.boot[s], s))
      Chosen(z) == Found(z.x, z.sect)
      Search(y) == Chosen(IF y.f.val = 2 THEN TryPartitions(v, y, 1) ELSE [x |-> y, sect |-> 0])
  IN IF x.f.fs_type # 0 THEN Result(x, "OK")
     ELSE IF ~start THEN Result([x EXCEPT !.f.fs_type = 0], "NOT_READY")
     ELSE Search(check_fs(v, [x EXCEPT !.f.fs_type = 0], 0))

-----------------------------------------------------------------------------
(* The functions of the interface *)

f_opendir(v, x, path, start) ==
  LET Found(y) == IF y.res = "NO_FILE" THEN Result(y, "NO_PATH")
                  ELSE IF y.res # "OK" THEN y
                  ELSE IF y.d.attr # "dir" THEN Result(y, "NO_PATH")
                  ELSE dir_sdi([y EXCEPT !.d.sclust = Entry(v, y).clst])
  IN IfOk(find_volume(v, x, start), LAMBDA y : Found(follow_path(v, y, path)))

\* get_fileinfo: the long name if there is one and it can be expressed.
get_fileinfo(v, x) ==
  LET long == LfnName(x.f)
      e == Entry(v, x)
  IN IF x.d.sect = 0 THEN <<>>
     ELSE IF x.d.blk_ofs # Bad /\ \A i \in DOMAIN long : long[i] \notin AlienParts THEN long
     ELSE <<e.name>>

\* f_readdir: the name is in x.name, <<>> at the end.
f_readdir(v, x) ==
  LET Ended(y, name) == [x |-> Result(y, IF y.res = "NO_FILE" THEN "OK" ELSE y.res), name |-> name]
      Read(y) == IF y.res \in {"OK", "NO_FILE"} THEN Ended(dir_next(v, y), get_fileinfo(v, y))
                 ELSE [x |-> y, name |-> <<>>]
  IN Read(dir_read(v, x))

\* pattern_matching with "*.jpg".
Matches(name) == name[Len(name)] \in Jpg

RECURSIVE f_findnext(_, _)
f_findnext(v, x) ==
  LET Test(r) == IF r.x.res # "OK" \/ r.name = <<>> \/ Matches(r.name) THEN r ELSE f_findnext(v, r.x)
  IN Test(f_readdir(v, x))

f_findfirst(v, x, path, start) ==
  LET Find(y) == IF y.res = "OK" THEN f_findnext(v, y) ELSE [x |-> y, name |-> <<>>]
  IN Find(f_opendir(v, x, path, start))

\* f_open; the directory object is its own.
f_open(v, x, path, start) ==
  LET Open(y, e) ==
        IF y.res # "OK" THEN [y EXCEPT !.d = x.d]
        ELSE IF y.d.attr = "dir" THEN [y EXCEPT !.d = x.d, !.res = "NO_FILE"]
        ELSE [y EXCEPT !.d = x.d, !.p = [NoFile EXCEPT !.sclust = e.clst, !.objsize = e.size]]
      Found(y) == Open(y, Entry(v, y))
  IN IfOk(find_volume(v, x, start), LAMBDA y : Found(follow_path(v, y, path)))

Fail(x, r) == [x EXCEPT !.p.err = r, !.res = r]   \* ABORT

\* One turn of the loop of f_read at a sector boundary: the sector of fp->fptr, 0 after an error.
ReadCluster(v, x) ==
  LET To(y, c) == IF c \in {0, 1} THEN Fail(y, "INT_ERR")
                  ELSE IF c = Bad THEN Fail(y, "DISK_ERR")
                  ELSE IF clust2sect(y.f, c) = 0 THEN Fail([y EXCEPT !.p.clust = c], "INT_ERR")
                  ELSE Result([y EXCEPT !.p.clust = c], "OK")
      Follow(y) == To(y, y.f.val)
  IN Follow(IF (x.p.fptr \div SS) % x.f.csize # 0 THEN [x EXCEPT !.f.val = x.p.clust]
            ELSE IF x.p.fptr = 0 THEN [x EXCEPT !.f.val = x.p.sclust]
            ELSE get_fat(v, x, x.p.clust))

Bytes(s, from, n) == [i \in 1..n |-> <<s + (from + i - 1) \div SS, (from + i - 1) % SS>>]

\* Mutant: a direct read is not clipped at the end of the cluster.
Sectors_whole(x, csect, btr) == btr \div SS

\* How many whole sectors are read directly.
Sectors(x, csect, btr) == Min2(btr \div SS, x.f.csize - csect)

\* f_read of btr bytes; got collects them.
RECURSIVE ReadLoop(_, _, _, _)
ReadLoop(v, x, btr, got) ==
  LET csect == (x.p.fptr \div SS) % x.f.csize
      rcnt == Min2(SS - (x.p.fptr % SS), btr)
      Out(y) == [x |-> Fail(y, y.res), got |-> got]
      On(y, n, bytes) == ReadLoop(v, [y EXCEPT !.p.fptr = @ + n], btr - n, got \o bytes)
      Direct(y, sect, n) == IF y.res = "OK" THEN On(y, n * SS, Bytes(sect, 0, n * SS)) ELSE Out(y)
      Part(y, sect) == IF y.res = "OK" THEN On([y EXCEPT !.p.sect = sect], rcnt, Bytes(sect, x.p.fptr % SS, rcnt))
                       ELSE Out(y)
      AtSector(y, sect) ==
        IF btr >= SS THEN Direct(disk_read(y, sect, Sectors(y, csect, btr)), sect, Sectors(y, csect, btr))
        ELSE Part(IF y.p.sect = sect THEN y ELSE disk_read(y, sect, 1), sect)
      AtCluster(y) == IF y.res = "OK" THEN AtSector(y, clust2sect(y.f, y.p.clust) + csect) ELSE Out(y)
  IN IF btr = 0 THEN [x |-> Result(x, "OK"), got |-> got]
     ELSE IF x.p.fptr % SS = 0 THEN AtCluster(ReadCluster(v, x))
     ELSE Part(Result(x, "OK"), x.p.sect)

f_read(v, x, btr) ==
  IF x.p.err # "OK" THEN [x |-> Result(x, x.p.err), got |-> <<>>]
  ELSE ReadLoop(v, x, Min2(btr, x.p.objsize - x.p.fptr), <<>>)

\* The cluster loop of f_lseek.
RECURSIVE SeekLoop(_, _, _, _)
SeekLoop(v, x, c, ofs) ==
  LET bcs == x.f.csize * SS
      To(y, n) == IF n = Bad THEN Fail(y, "DISK_ERR")
                  ELSE IF n \notin 2..(x.f.n_fatent - 1) THEN Fail(y, "INT_ERR")
                  ELSE SeekLoop(v, [y EXCEPT !.p.clust = n], n, ofs - bcs)
      Follow(y) == To(y, y.f.val)
      Loaded(y, nsect) == IF y.res = "OK" THEN [y EXCEPT !.p.sect = nsect] ELSE Fail(y, "DISK_ERR")
      Load(y, nsect) == Loaded(IF nsect # y.p.sect THEN disk_read(y, nsect, 1) ELSE Result(y, "OK"), nsect)
      Here(y, s) == IF ofs % SS = 0 THEN Result(y, "OK")
                    ELSE IF s = 0 THEN Fail(y, "INT_ERR")
                    ELSE Load(y, s + ofs \div SS)
  IN IF ofs > bcs THEN Follow(get_fat(v, [x EXCEPT !.p.fptr = @ + bcs], c))
     ELSE Here([x EXCEPT !.p.fptr = @ + ofs], clust2sect(x.f, c))

\* f_lseek goes on from the current cluster.
SameClusterOn(x, ofs, bcs) == x.p.fptr > 0 /\ (ofs - 1) \div bcs >= (x.p.fptr - 1) \div bcs

\* Mutant: a position after the end is taken as it is.
f_lseek_past(v, x, to) ==
  LET bcs == x.f.csize * SS
      base == ((x.p.fptr - 1) \div bcs) * bcs
      y == [x EXCEPT !.p.fptr = 0]
  IN IF x.p.err # "OK" THEN Result(x, x.p.err)
     ELSE IF to = 0 THEN Result(y, "OK")
     ELSE IF SameClusterOn(x, to, bcs) THEN SeekLoop(v, [y EXCEPT !.p.fptr = base], x.p.clust, to - base)
     ELSE IF x.p.sclust = 0 THEN Result([y EXCEPT !.p.clust = 0], "OK")
     ELSE SeekLoop(v, [y EXCEPT !.p.clust = x.p.sclust], x.p.sclust, to)

f_lseek(v, x, to) ==
  LET ofs == Min2(to, x.p.objsize)
      bcs == x.f.csize * SS
      base == ((x.p.fptr - 1) \div bcs) * bcs
      y == [x EXCEPT !.p.fptr = 0]
  IN IF x.p.err # "OK" THEN Result(x, x.p.err)
     ELSE IF ofs = 0 THEN Result(y, "OK")
     ELSE IF SameClusterOn(x, ofs, bcs) THEN SeekLoop(v, [y EXCEPT !.p.fptr = base], x.p.clust, ofs - base)
     ELSE IF x.p.sclust = 0 THEN Result([y EXCEPT !.p.clust = 0], "OK")
     ELSE SeekLoop(v, [y EXCEPT !.p.clust = x.p.sclust], x.p.sclust, ofs)
=============================================================================
