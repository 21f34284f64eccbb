-------------------------- MODULE FatGeometryProofs --------------------------
(***************************************************************************)
(* For every boot sector whose sizes fit in 32 bits: when find_volume      *)
(* accepts it, no cluster and no FAT entry that FatFs can ask for lies     *)
(* outside its part of the volume.                                         *)
(***************************************************************************)
EXTENDS FatGeometry, TLAPS

\* What the boot sector says can be counted in 32-bit words: the areas before the clusters, the
\* sectors up to the end of the volume, and the bytes of the FAT. It is true of every volume within
\* the limits of the format (fewer than 2^28 clusters) that ends before sector 2^32.
Countable(b, s) ==
  /\ b.fatsz \in Nat /\ b.nfats \in Nat /\ b.csize \in Nat /\ b.nroot \in Nat
  /\ b.nrsv \in Nat /\ b.tsect \in Nat /\ b.rootclus \in Nat /\ s \in Nat
  /\ b.nrsv + b.fatsz * b.nfats + b.nroot \div PerSector < Word
  /\ s + b.tsect <= Word
  /\ (b.tsect \div b.csize + 2) * 4 + SS <= Word

\* The fields of a FATFS that find_volume sets.
Fields == {"fs_type", "csize", "n_rootdir", "n_fatent", "fatbase", "database", "dirbase"}

-----------------------------------------------------------------------------
(* Division *)

\* A value that fits in a word is not changed by the reduction to a word.
LEMMA NoWrap ==
  ASSUME NEW n \in Nat, n < Word
  PROVE  DWORD(n) = n
BY GeometryAssumption DEF DWORD

\* What \div and % compute.
LEMMA DivMod ==
  ASSUME NEW a \in Nat, NEW k \in Nat \ {0}
  PROVE  /\ a \div k \in Nat /\ a % k \in 0..(k - 1)
         /\ a = k * (a \div k) + (a % k)
BY Z3

\* A product grows with its factor.
LEMMA MulLeq ==
  ASSUME NEW a \in Nat, NEW b \in Nat, NEW k \in Nat, a <= b
  PROVE  k * a \in Nat /\ k * b \in Nat /\ k * a <= k * b
<1>1. PICK d \in Nat : b = a + d
  <2> WITNESS b - a \in Nat
  <2> QED OBVIOUS
<1>2. k * b = k * a + k * d
  BY <1>1
<1>3. k * a \in Nat /\ k * d \in Nat /\ k * b \in Nat
  OBVIOUS
<1> QED BY <1>2, <1>3

\* A quotient is below a bound when the number is below the multiple.
LEMMA DivLess ==
  ASSUME NEW a \in Nat, NEW k \in Nat \ {0}, NEW q \in Nat, a < k * q
  PROVE  a \div k \in 0..(q - 1)
<1>1. a \div k \in Nat /\ a % k \in 0..(k - 1) /\ a = k * (a \div k) + (a % k)
  BY DivMod
<1>2. ASSUME q <= a \div k PROVE FALSE
  <2>1. k * q \in Nat /\ k * (a \div k) \in Nat /\ k * q <= k * (a \div k)
    BY <1>1, <1>2, MulLeq
  <2> QED BY <1>1, <2>1
<1> QED BY <1>1, <1>2

\* A number that is divided without rest.
LEMMA DivExact ==
  ASSUME NEW q \in Nat, NEW k \in Nat \ {0}
  PROVE  (k * q) \div k = q
<1> DEFINE a == k * q
<1>1. a \in Nat
  OBVIOUS
<1>2. a \div k \in Nat /\ a % k \in 0..(k - 1) /\ a = k * (a \div k) + (a % k)
  BY <1>1, DivMod
<1>3. ASSUME q + 1 <= a \div k PROVE FALSE
  <2>1. k * (q + 1) <= k * (a \div k) /\ k * (a \div k) \in Nat
    BY <1>2, <1>3, MulLeq
  <2>2. k * (q + 1) = a + k
    OBVIOUS
  <2> QED BY <1>1, <1>2, <2>1, <2>2
<1>4. ASSUME a \div k + 1 <= q PROVE FALSE
  <2>1. k * (a \div k + 1) <= k * q
    BY <1>2, <1>4, MulLeq
  <2>2. k * (a \div k + 1) = k * (a \div k) + k
    BY <1>2
  <2>3. k * (a \div k) \in Nat
    BY <1>2
  <2> QED BY <1>1, <1>2, <2>1, <2>2, <2>3
<1> QED BY <1>2, <1>3, <1>4

\* A number rounded up to a multiple of k is no less than it.
LEMMA RoundUp ==
  ASSUME NEW a \in Nat, NEW k \in Nat \ {0}, NEW q \in Nat, q >= (a + k - 1) \div k
  PROVE  a <= k * q
<1> DEFINE t == a + k - 1
<1>1. t \in Nat
  OBVIOUS
<1>2. t \div k \in Nat /\ t % k \in 0..(k - 1) /\ t = k * (t \div k) + (t % k)
  BY <1>1, DivMod
<1>3. k * (t \div k) \in Nat /\ k * q \in Nat /\ k * (t \div k) <= k * q
  BY <1>2, MulLeq
<1>4. a <= k * (t \div k)
  BY <1>1, <1>2, <1>3
<1> QED BY <1>3, <1>4

-----------------------------------------------------------------------------
(* Places *)

\* A sector is two halves, or four quarters, none of them empty.
LEMMA Sector ==
  /\ SS \div 2 \in Nat \ {0} /\ SS = 2 * (SS \div 2)
  /\ SS \div 4 \in Nat \ {0} /\ SS = 4 * (SS \div 4)
BY GeometryAssumption

\* A FAT that is as long as find_volume demands holds the entry of every cluster (get_fat).
LEMMA FatHolds ==
  ASSUME NEW fmt \in {12, 16, 32}, NEW n \in Nat, NEW q \in Nat, n * 4 + SS <= Word,
         q >= DWORD(szbfat(fmt, n) + SS - 1) \div SS,
         NEW f, f.fs_type = fmt, NEW fatbase \in Nat, f.fatbase = fatbase, NEW c \in 2..(n - 1)
  PROVE  \A i \in DOMAIN FatSectors(f, c) : FatSectors(f, c)[i] \in fatbase..(fatbase + q - 1)
<1> USE GeometryAssumption
<1> DEFINE need == CASE fmt = 32 -> n * 4 [] fmt = 16 -> n * 2 [] OTHER -> (n * 3) \div 2 + (n % 2)
<1>1. need \in Nat /\ need <= n * 4
  OBVIOUS
<1>2. need <= SS * q
  <2> HIDE DEF need
  <2>1. DWORD(need) = need /\ DWORD(need + SS - 1) = need + SS - 1
    BY <1>1, NoWrap
  <2>2. szbfat(fmt, n) = need
    BY <2>1 DEF szbfat, need
  <2>3. q >= (need + SS - 1) \div SS
    BY <2>1, <2>2
  <2> QED BY <1>1, <2>3, RoundUp
<1>3. SS * q \in Nat
  OBVIOUS
<1>4. CASE fmt = 32
  <2> DEFINE k == SS \div 4
  <2>1. k \in Nat \ {0} /\ SS = 4 * k
    BY Sector
  <2> HIDE DEF k
  <2>2. SS * q = 4 * (k * q) /\ k * q \in Nat
    BY <2>1
  <2>3. n * 4 <= SS * q
    BY <1>2, <1>4
  <2>4. c \in Nat /\ c < k * q
    BY <2>2, <2>3
  <2>5. c \div k \in 0..(q - 1)
    BY <2>1, <2>4, DivLess
  <2>6. FatSectors(f, c) = <<fatbase + c \div k>>
    BY <1>4 DEF FatSectors, k
  <2> QED BY <2>5, <2>6
<1>5. CASE fmt = 16
  <2> DEFINE k == SS \div 2
  <2>1. k \in Nat \ {0} /\ SS = 2 * k
    BY Sector
  <2> HIDE DEF k
  <2>2. SS * q = 2 * (k * q) /\ k * q \in Nat
    BY <2>1
  <2>3. n * 2 <= SS * q
    BY <1>2, <1>5
  <2>4. c \in Nat /\ c < k * q
    BY <2>2, <2>3
  <2>5. c \div k \in 0..(q - 1)
    BY <2>1, <2>4, DivLess
  <2>6. FatSectors(f, c) = <<fatbase + c \div k>>
    BY <1>5 DEF FatSectors, k
  <2> QED BY <2>5, <2>6
<1>6. CASE fmt = 12
  <2> DEFINE a == c + c \div 2
  <2>1. need = (n * 3) \div 2 + (n % 2)
    BY <1>6
  <2>2. a \in Nat /\ a + 1 < need
    BY <2>1
  <2> HIDE DEF a, need
  <2>3. a < SS * q /\ a + 1 < SS * q /\ a + 1 \in Nat
    BY <1>1, <1>2, <1>3, <2>2
  <2>4. a \div SS \in 0..(q - 1) /\ (a + 1) \div SS \in 0..(q - 1)
    BY <2>2, <2>3, DivLess
  <2> DEFINE u == fatbase + a \div SS
             w == fatbase + (a + 1) \div SS
  <2>5. FatSectors(f, c) = <<u, w>>
    BY <1>6 DEF FatSectors, a
  <2>6. u \in fatbase..(fatbase + q - 1) /\ w \in fatbase..(fatbase + q - 1)
    BY <2>4
  <2> HIDE DEF u, w
  <2> QED BY <2>5, <2>6
<1> QED BY <1>4, <1>5, <1>6

\* A root directory of whole sectors is as long in sectors as in entries and in bytes.
LEMMA RootSectors ==
  ASSUME NEW r \in Nat, r % PerSector = 0
  PROVE  r \div PerSector \in Nat /\ (r * SZDIRE) \div SS = r \div PerSector
<1> DEFINE p == PerSector
           q == r \div p
<1> USE GeometryAssumption
<1>1. SS = SZDIRE * p /\ p \in Nat
  BY DivMod DEF PerSector
<1>2. p # 0
  BY <1>1
<1> HIDE DEF p
<1>3. q \in Nat /\ r = p * q
  BY <1>1, <1>2, DivMod DEF p
<1> HIDE DEF q
<1>4. r * SZDIRE = SS * q
  BY <1>1, <1>3
<1>5. (SS * q) \div SS = q
  BY <1>3, DivExact
<1> QED BY <1>3, <1>4, <1>5 DEF p, q

\* clust2sect finds every cluster of n between the start of the data area and the end of the volume.
LEMMA ClusterInside ==
  ASSUME NEW nclst \in Nat, NEW csize \in Nat \ {0}, NEW database \in Nat, NEW f,
         f.n_fatent = nclst + 2, f.csize = csize, f.database = database,
         database + csize * nclst <= Word, NEW c \in 2..(nclst + 1)
  PROVE  /\ clust2sect(f, c) \in Nat /\ clust2sect(f, c) >= database
         /\ clust2sect(f, c) + csize <= database + csize * nclst
<1> DEFINE k == c - 2
<1>1. k \in Nat /\ k + 1 <= nclst
  OBVIOUS
<1>2. csize * (k + 1) <= csize * nclst /\ csize * nclst \in Nat
  BY <1>1, MulLeq
<1>3. csize * (k + 1) = csize * k + csize /\ csize * k = k * csize /\ k * csize \in Nat
  BY <1>1
<1>4. k \in 0..(f.n_fatent - 3)
  BY <1>1
<1>5. clust2sect(f, c) = DWORD(k * csize + database)
  BY <1>4 DEF clust2sect
<1> HIDE DEF k
<1>6. k * csize + database \in Nat /\ k * csize + database < Word
  BY <1>2, <1>3, GeometryAssumption
<1>7. clust2sect(f, c) = k * csize + database
  BY <1>5, <1>6, NoWrap
<1> QED BY <1>2, <1>3, <1>7

\* find_volume: a volume that it accepts is well placed. Every cluster number that clust2sect takes
\* and every FAT entry that get_fat reads lies in its area and inside the volume.
THEOREM AcceptedIsWellPlaced ==
  ASSUME NEW D, Fields \subseteq D, NEW V, NEW f \in [D -> V], NEW b, NEW s, Countable(b, s),
         Geometry(f, b, s).fs_type # 0
  PROVE  WellPlaced(Geometry(f, b, s), b, s)
<1> USE GeometryAssumption
<1> DEFINE g == Geometry(f, b, s)
           fasize == b.fatsz * b.nfats
           root == b.nroot \div PerSector
           sysect == b.nrsv + fasize + root
           nclst == (b.tsect - sysect) \div b.csize
           fmt == IF nclst <= MAX_FAT12 THEN 12 ELSE IF nclst <= MAX_FAT16 THEN 16 ELSE 32
           n == nclst + 2
\* Nothing is reduced to a word, as far as the areas before the clusters go.
<1>1. /\ fasize \in Nat /\ b.nrsv \in Nat /\ b.fatsz \in Nat /\ b.nfats \in Nat /\ b.nroot \in Nat
      /\ b.csize \in Nat /\ b.tsect \in Nat /\ s \in Nat /\ s + b.tsect <= Word
      /\ (b.tsect \div b.csize + 2) * 4 + SS <= Word
      /\ b.nrsv + fasize + root < Word
  BY DEF Countable
<1>2. PerSector \in Nat \ {0}
  <2>1. SS = SZDIRE * PerSector /\ PerSector \in Nat
    BY DivMod DEF PerSector
  <2> QED BY <2>1
<1>3. root \in Nat
  BY <1>1, <1>2, DivMod
<1> HIDE DEF fasize, root
<1>4. sysect \in Nat /\ DWORD(fasize) = fasize /\ DWORD(sysect) = sysect
  BY <1>1, <1>3, NoWrap
\* What find_volume has checked.
<1> HIDE DEF sysect
<1> DEFINE fat == DWORD(n)
           ok == /\ b.nfats \in {1, 2}
                 /\ b.csize \in {2 ^ i : i \in 0..7}
                 /\ b.nroot % PerSector = 0
                 /\ b.nrsv # 0
                 /\ b.tsect >= sysect /\ nclst # 0
                 /\ (fmt = 32) <=> (b.nroot = 0)
                 /\ b.fatsz >= DWORD(szbfat(fmt, fat) + SS - 1) \div SS
<1> HIDE DEF nclst, fmt, ok
<1>5. g = IF b.nfats = 0 \/ b.csize = 0 THEN [f EXCEPT !.fs_type = 0]
          ELSE [f EXCEPT !.csize = b.csize, !.n_rootdir = b.nroot, !.n_fatent = fat,
                    !.fatbase = DWORD(s + b.nrsv), !.database = DWORD(s + sysect),
                    !.dirbase = IF fmt = 32 THEN b.rootclus ELSE DWORD(DWORD(s + b.nrsv) + fasize),
                    !.fs_type = IF ok THEN fmt ELSE 0]
  BY <1>4 DEF Geometry, fasize, root, sysect, nclst, fmt, ok
<1> HIDE DEF g, fat
<1>6. g.fs_type # 0
  BY DEF g
<1>7. b.csize \in Nat \ {0} /\ b.nfats # 0
  BY <1>1, <1>5, <1>6 DEF Fields
<1>8. /\ g.csize = b.csize /\ g.n_rootdir = b.nroot /\ g.n_fatent = fat
      /\ g.fatbase = DWORD(s + b.nrsv) /\ g.database = DWORD(s + sysect)
      /\ g.dirbase = IF fmt = 32 THEN b.rootclus ELSE DWORD(DWORD(s + b.nrsv) + fasize)
      /\ g.fs_type = IF ok THEN fmt ELSE 0
  BY <1>5, <1>7 DEF Fields
<1>9. ok /\ g.fs_type = fmt
  BY <1>6, <1>8
<1>10. /\ b.nroot % PerSector = 0 /\ b.nrsv # 0 /\ b.tsect >= sysect /\ nclst # 0
       /\ b.fatsz >= DWORD(szbfat(fmt, fat) + SS - 1) \div SS
  BY <1>9 DEF ok
\* The clusters end where the volume does, or before.
<1>11. nclst \in Nat /\ b.csize * nclst \in Nat /\ sysect + b.csize * nclst <= b.tsect
  <2> DEFINE a == b.tsect - sysect
  <2>1. a \in Nat
    BY <1>1, <1>4, <1>10
  <2>2. a \div b.csize \in Nat /\ a % b.csize \in 0..(b.csize - 1)
        /\ a = b.csize * (a \div b.csize) + (a % b.csize)
    BY <1>7, <2>1, DivMod
  <2>3. b.csize * (a \div b.csize) \in Nat
    BY <1>7, <2>2
  <2> QED BY <1>1, <1>4, <2>2, <2>3 DEF nclst
<1>12. nclst <= b.tsect \div b.csize
  <2> DEFINE m == b.tsect \div b.csize
  <2>1. m \in Nat /\ b.tsect % b.csize \in 0..(b.csize - 1) /\ b.tsect = b.csize * m + (b.tsect % b.csize)
    BY <1>1, <1>7, DivMod
  <2> HIDE DEF m
  <2>2. ASSUME m + 1 <= nclst PROVE FALSE
    <3>1. b.csize * (m + 1) <= b.csize * nclst
      BY <1>7, <1>11, <2>1, <2>2, MulLeq
    <3>2. b.csize * (m + 1) = b.csize * m + b.csize /\ b.csize * m \in Nat
      BY <1>7, <2>1
    <3> QED BY <1>4, <1>7, <1>11, <2>1, <3>1, <3>2
  <2> QED BY <1>11, <2>1, <2>2 DEF m
<1>13. n \in Nat /\ n * 4 + SS <= Word /\ fat = n
  <2>1. b.tsect \div b.csize \in Nat
    BY <1>1, <1>7, DivMod
  <2>2. n \in Nat /\ n * 4 + SS <= Word
    BY <1>1, <1>11, <1>12, <2>1
  <2>3. n < Word
    BY <2>2
  <2> QED BY <2>2, <2>3, NoWrap DEF fat
\* Nor is anything reduced further on.
<1>14. 1 <= b.csize * nclst
  BY <1>7, <1>10, <1>11, MulLeq
<1>15. s + sysect < Word /\ s + b.nrsv + fasize < Word /\ s + b.nrsv < Word
  BY <1>1, <1>3, <1>4, <1>11, <1>14 DEF sysect
<1>16. g.fatbase = s + b.nrsv /\ g.database = s + sysect
       /\ (fmt # 32 => g.dirbase = s + b.nrsv + fasize)
  BY <1>1, <1>4, <1>8, <1>15, NoWrap
<1>17. sysect = b.nrsv + fasize + root
  BY DEF sysect
<1>18. fmt \in {12, 16, 32}
  BY DEF fmt
<1>19. ASSUME NEW c \in 2..(g.n_fatent - 1)
       PROVE  /\ clust2sect(g, c) >= g.database
              /\ clust2sect(g, c) + g.csize <= s + b.tsect
              /\ \A i \in DOMAIN FatSectors(g, c) :
                   FatSectors(g, c)[i] \in g.fatbase..(g.fatbase + b.fatsz - 1)
  <2>1. c \in 2..(nclst + 1) /\ g.n_fatent = nclst + 2
    BY <1>8, <1>11, <1>13, <1>19
  <2>2. g.database \in Nat /\ g.database + b.csize * nclst <= s + b.tsect
    BY <1>1, <1>4, <1>11, <1>16
  <2>3. g.database + b.csize * nclst <= Word
    BY <1>1, <1>11, <2>2
  <2>4. /\ clust2sect(g, c) \in Nat /\ clust2sect(g, c) >= g.database
        /\ clust2sect(g, c) + b.csize <= g.database + b.csize * nclst
    BY <1>7, <1>8, <1>11, <2>1, <2>2, <2>3, ClusterInside
  <2>5. clust2sect(g, c) + g.csize <= s + b.tsect
    BY <1>1, <1>7, <1>8, <1>11, <2>2, <2>4
  <2>6. c \in 2..(n - 1) /\ g.fatbase \in Nat
    BY <1>1, <1>11, <1>16, <2>1
  <2>7. b.fatsz >= DWORD(szbfat(fmt, n) + SS - 1) \div SS
    BY <1>10, <1>13
  <2> HIDE DEF n
  <2>8. \A i \in DOMAIN FatSectors(g, c) :
           FatSectors(g, c)[i] \in g.fatbase..(g.fatbase + b.fatsz - 1)
    BY <1>1, <1>9, <1>13, <1>18, <2>6, <2>7, FatHolds
  <2> QED BY <2>4, <2>5, <2>8
<1>20. g.fatbase > s /\ g.fatbase + fasize <= g.database
  BY <1>1, <1>3, <1>10, <1>16, <1>17
<1>21. g.fs_type # 32 => /\ g.dirbase = g.fatbase + fasize
                         /\ g.dirbase + (g.n_rootdir * SZDIRE) \div SS = g.database
  <2>1. (b.nroot * SZDIRE) \div SS = root
    BY <1>1, <1>10, RootSectors DEF root
  <2> QED BY <1>1, <1>3, <1>8, <1>9, <1>16, <1>17, <2>1
<1>22. WellPlaced(g, b, s)
  BY <1>19, <1>20, <1>21 DEF WellPlaced, fasize
<1> QED BY <1>22 DEF g

=============================================================================
