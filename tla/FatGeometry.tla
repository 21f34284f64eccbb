----------------------------- MODULE FatGeometry -----------------------------
(***************************************************************************)
(* Where the parts of a FAT volume lie: what find_volume of FatFs          *)
(* (src/ff12b/src/ff.c) computes from a boot sector, in words of 32 bits,  *)
(* and where clust2sect and get_fat look for a cluster and its FAT entry.  *)
(***************************************************************************)
EXTENDS Integers, Sequences

CONSTANTS
  SS, SZDIRE,             \* bytes of a sector and of a directory entry
  MAX_FAT12, MAX_FAT16,   \* clusters of the largest FAT12 and FAT16 volumes
  Word                    \* the number of values of a DWORD

ASSUME GeometryAssumption ==
  /\ SS \in Nat \ {0} /\ SZDIRE \in Nat \ {0} /\ Word \in Nat \ {0}
  /\ MAX_FAT12 \in Nat /\ MAX_FAT16 \in Nat /\ MAX_FAT12 < MAX_FAT16
  /\ SS % 4 = 0 /\ SS % SZDIRE = 0

\* 32-bit arithmetic.
DWORD(n) == n % Word

clust2sect(f, c) ==
  IF c - 2 \in 0..(f.n_fatent - 3) THEN DWORD((c - 2) * f.csize + f.database) ELSE 0

\* The sectors that hold the FAT entry of cluster c; an entry of FAT12 may straddle two.
FatSectors(f, c) ==
  CASE f.fs_type = 12 -> <<f.fatbase + (c + c \div 2) \div SS, f.fatbase + (c + c \div 2 + 1) \div SS>>
    [] f.fs_type = 16 -> <<f.fatbase + c \div (SS \div 2)>>
    [] OTHER          -> <<f.fatbase + c \div (SS \div 4)>>

\* Directory entries of a sector.
PerSector == SS \div SZDIRE

\* szbfat, the bytes that a FAT of n entries needs.
szbfat(fmt, n) ==
  DWORD(CASE fmt = 32 -> n * 4 [] fmt = 16 -> n * 2 [] OTHER -> (n * 3) \div 2 + (n % 2))

\* Mutant: the root directory is forgotten.
GeometryNoRoot(f, b, s) ==
  LET fasize == b.fatsz * b.nfats
      nclst == (b.tsect - b.nrsv - fasize) \div b.csize
      n == nclst + 2
  IN IF b.nfats \notin {1, 2} \/ b.csize \notin {1, 2, 4} \/ b.nrsv = 0 \/ nclst < 1
     THEN [f EXCEPT !.fs_type = 0]
     ELSE [f EXCEPT !.csize = b.csize, !.n_rootdir = b.nroot, !.n_fatent = n,
                    !.fatbase = s + b.nrsv,
                    !.database = s + b.nrsv + fasize + b.nroot \div PerSector,
                    !.dirbase = s + b.nrsv + fasize,
                    !.fs_type = IF b.fatsz >= (n * 4 + SS - 1) \div SS THEN 16 ELSE 0]

\* The geometry that find_volume computes from the boot sector b at sector s.
Geometry(f, b, s) ==
  LET fasize == DWORD(b.fatsz * b.nfats)
      sysect == DWORD(b.nrsv + fasize + b.nroot \div PerSector)
      nclst == (b.tsect - sysect) \div b.csize
      fmt == IF nclst <= MAX_FAT12 THEN 12 ELSE IF nclst <= MAX_FAT16 THEN 16 ELSE 32
      n == DWORD(nclst + 2)
      ok == /\ b.nfats \in {1, 2}
            /\ b.csize \in {2 ^ i : i \in 0..7}
            /\ b.nroot % PerSector = 0
            /\ b.nrsv # 0
            /\ b.tsect >= sysect /\ nclst # 0
            /\ (fmt = 32) <=> (b.nroot = 0)
            /\ b.fatsz >= DWORD(szbfat(fmt, n) + SS - 1) \div SS
  IN IF b.nfats = 0 \/ b.csize = 0 THEN [f EXCEPT !.fs_type = 0]
     ELSE [f EXCEPT !.csize = b.csize, !.n_rootdir = b.nroot, !.n_fatent = n,
                    !.fatbase = DWORD(s + b.nrsv), !.database = DWORD(s + sysect),
                    !.dirbase = IF fmt = 32 THEN b.rootclus ELSE DWORD(DWORD(s + b.nrsv) + fasize),
                    !.fs_type = IF ok THEN fmt ELSE 0]

\* The volume of boot sector b at sector s, as f describes it, is in order: every cluster lies in
\* the data area and inside the volume, every FAT entry in the first FAT, and the FATs, the root
\* directory and the data area follow each other.
WellPlaced(f, b, s) ==
  /\ \A c \in 2..(f.n_fatent - 1) :
       /\ clust2sect(f, c) >= f.database
       /\ clust2sect(f, c) + f.csize <= s + b.tsect
       /\ \A i \in DOMAIN FatSectors(f, c) :
            FatSectors(f, c)[i] \in f.fatbase..(f.fatbase + b.fatsz - 1)
  /\ f.fatbase > s
  /\ f.fatbase + b.fatsz * b.nfats <= f.database
  /\ f.fs_type # 32 => /\ f.dirbase = f.fatbase + b.fatsz * b.nfats
                       /\ f.dirbase + (f.n_rootdir * SZDIRE) \div SS = f.database

=============================================================================
