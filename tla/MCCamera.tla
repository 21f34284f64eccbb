------------------------------ MODULE MCCamera ------------------------------
(* Small volumes for Camera: six to eight clusters of one or two sectors, two directory
   entries to a sector. FAT12, FAT16 or FAT32 follows from the number of clusters. *)
EXTENDS Camera

Eoc == 99

\* Pieces of names: "long" is full, "alien" cannot be expressed in the code page.
MCShortNames == {"A.jpg", "B.jpg", "CAMERA", "."}
MCSums == [n \in MCShortNames |-> IF n = "B.jpg" THEN 2 ELSE 1]
MCPath == <<<<"CAMERA">>>>

Lfn(k, last, sum, part) == [t |-> "lfn", ord |-> k, last |-> last, sum |-> sum, part |-> part]
Sfn(n, attr, c, size) == [t |-> "sfn", name |-> n, attr |-> attr, clst |-> c, size |-> size]
End == [t |-> "end"]
Deleted == [t |-> "del"]
Label == [t |-> "vol"]

Boot(n, csize) ==
  LET fat32 == n > MAX_FAT16
      fatsz == ((n + 2) * 4) \div SS + 1
      nroot == IF fat32 THEN 0 ELSE 2
  IN [kind |-> "fat", fatsz |-> fatsz, nfats |-> 1, csize |-> csize, nroot |-> nroot,
      nrsv |-> 1, rootclus |-> 2, tsect |-> 1 + fatsz + nroot \div 2 + n * csize]

NoBoot == [kind |-> "none"]

\* A volume of n clusters with the camera's directory at cluster 3, as an image or in a partition.
Volume(n, csize, start, fat, es) ==
  LET b == Boot(n, csize)
      data == start + 1 + b.fatsz + b.nroot \div 2
      Sector(c, i) == data + (c - 2) * csize + i
      root == IF b.nroot = 0 THEN Sector(2, 0) ELSE data - 1
      dirs == <<3, 5>>
      Slot(s) == CHOOSE k \in 0..(2 * csize) :
                   k < 2 * csize => s = Sector(dirs[k \div csize + 1], k % csize)
      Get(i) == IF i <= Len(es) THEN es[i] ELSE End
      Dir(s) == IF s = root THEN <<Label, Sfn("CAMERA", "dir", 3, 0)>>
                ELSE IF Slot(s) < 2 * csize THEN <<Get(2 * Slot(s) + 1), Get(2 * Slot(s) + 2)>>
                ELSE <<End, End>>
      mbr == [kind |-> "mbr", br |-> <<0, 1, start>>]
  IN [errs |-> 0, fat |-> fat, camera |-> 3, start |-> start, files |-> {"A.jpg", "B.jpg"},
      boot |-> [s \in 0..start |-> IF s = start THEN b ELSE IF s = 0 THEN mbr ELSE NoBoot],
      dir |-> [s \in 0..(data + n * csize - 1) |-> Dir(s)]]

\* The directory in clusters 3 and 5, a file in 4 and 6, one in 7.
Fat(n) == [c \in 2..(n + 1) |-> CASE c = 3 -> 5 [] c = 4 -> 6 [] OTHER -> Eoc]

A == Sfn("A.jpg", "file", 4, 20)
AShort == Sfn("A.jpg", "file", 4, 12)
B == Sfn("B.jpg", "file", 7, 8)

\* The entries of two files with long names, and what is left of others.
Entries ==
  {Deleted, A, B, Lfn(2, TRUE, 1, "x.jpg"), Lfn(1, FALSE, 1, "long"),
   Lfn(1, TRUE, 2, "y.jpg"), Lfn(1, TRUE, 1, "alien.jpg")}

Lists == UNION {[1..k -> Entries] : k \in 0..4}

\* Every directory of up to four entries.
Directories == {Volume(6, 2, 0, Fat(6), es) : es \in Lists}

TwoFiles(a) == <<Lfn(2, TRUE, 1, "x.jpg"), Lfn(1, FALSE, 1, "long"), a, B>>

\* Every kind of FAT, cluster size and place of the volume; one sector read fails.
Layouts ==
  {[Volume(n, csize, start, Fat(n), TwoFiles(IF csize = 1 THEN AShort ELSE A)) EXCEPT !.errs = 1] :
     n \in {6, 7, 8}, csize \in {1, 2}, start \in {0, 2}}

\* Directories and files with chains that are short, broken or run in a circle.
Broken ==
  {Volume(6, csize, 0, [Fat(6) EXCEPT ![c] = d], TwoFiles(A)) :
     csize \in {1, 2}, c \in {3, 4, 5, 6}, d \in {0, 1, 3, 4, 5, Eoc}}

\* Boot sectors of any content, sound or not.
Headers ==
  {[Volume(6, 1, 0, [c \in 2..20 |-> Eoc], <<>>) EXCEPT !.boot[0] =
      [kind |-> "fat", fatsz |-> fatsz, nfats |-> nfats, csize |-> csize, nroot |-> nroot,
       nrsv |-> nrsv, rootclus |-> rootclus, tsect |-> tsect]] :
     fatsz \in 0..4, nfats \in 0..2, csize \in 0..3, nroot \in {0, 2, 3, 4}, nrsv \in {0, 1},
     rootclus \in {2, 9}, tsect \in 0..15}

MCVolumes == Directories \cup Layouts \cup Broken \cup Headers
=============================================================================
