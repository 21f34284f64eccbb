--------------------------- MODULE SprdFrameProofs ---------------------------
(***************************************************************************)
(* What the operators of SprdFrame compute for bytes of any number: a      *)
(* checksum fits in two bytes, a frame passes its own verification,        *)
(* unescaping undoes escaping, also piece by piece, and the CRC that       *)
(* the table gives is the remainder of the division by the polynomial:     *)
(* words are a group under the exclusive or, the division respects it, so  *)
(* the table can be checked by doubling, from entry j to 2j and 2j + 1.    *)
(***************************************************************************)
EXTENDS CrcDivision, SequenceTheorems, WellFoundedInduction, TLAPS

Byte == 0..255

-----------------------------------------------------------------------------
(* Induction and recursion over 0..n, in a form without operator parameters *)

\* A set of natural numbers that is not empty has a least element.
LEMMA LeastElement ==
  ASSUME NEW T, T \subseteq Nat, T # {}
  PROVE  \E x \in T : \A y \in T : x <= y
<1> DEFINE R == OpToRel(<, Nat)
<1>1. IsWellFoundedOn(R, Nat)
  BY NatLessThanWellFounded, Zenon
<1>2. \E x \in T : \A y \in T : ~ (<<y, x>> \in R)
  <2> HIDE DEF R
  <2> QED BY <1>1, WFMin
<1>3. \A x, y \in T : <<y, x>> \in R <=> y < x
  BY DEF OpToRel
<1>4. \A x, y \in T : ~ (y < x) => x <= y
  OBVIOUS
<1> HIDE DEF R
<1> QED BY <1>2, <1>3, <1>4

\* Induction over a set of natural numbers: 0 is in it, and with i - 1 so is i.
LEMMA Induction ==
  ASSUME NEW n \in Nat, NEW G, 0 \in G, \A i \in 1..n : i - 1 \in G => i \in G
  PROVE  \A i \in 0..n : i \in G
<1> DEFINE T == {i \in 0..n : i \notin G}
<1> SUFFICES ASSUME T # {} PROVE FALSE
  OBVIOUS
<1>1. T \subseteq Nat
  OBVIOUS
<1>2. PICK x \in T : \A y \in T : x <= y
  <2> HIDE DEF T
  <2> QED BY <1>1, LeastElement
<1>3. x \in 1..n /\ x - 1 \in 0..n /\ x \notin G
  BY <1>2
<1>4. x - 1 \in G
  <2> SUFFICES ASSUME x - 1 \in T PROVE FALSE
    BY <1>3
  <2> QED BY <1>2, <1>3
<1> QED BY <1>3, <1>4

\* How one value of a function over 0..n is made of the one before it.
Steps(n, V) == [1..n -> [V -> V]]

\* f begins with c and goes on as step says.
Follows(f, n, V, c, step) ==
  f \in [0..n -> V] /\ f[0] = c /\ \A i \in 1..n : f[i] = step[i][f[i - 1]]

\* There is such a function.
LEMMA Recursion ==
  ASSUME NEW n \in Nat, NEW V, NEW c \in V, NEW step \in Steps(n, V)
  PROVE  \E f : Follows(f, n, V, c, step)
<1> DEFINE G == {m \in 0..n : \E f : Follows(f, m, V, c, step)}
<1>1. 0 \in G
  <2>1. Follows([i \in 0..0 |-> c], 0, V, c, step)
    BY DEF Follows
  <2> QED BY <2>1
<1>2. ASSUME NEW m \in 1..n, m - 1 \in G PROVE m \in G
  <2>1. PICK f : Follows(f, m - 1, V, c, step)
    BY <1>2
  <2>a. /\ f \in [0..(m - 1) -> V] /\ f[0] = c
        /\ \A i \in 1..(m - 1) : f[i] = step[i][f[i - 1]]
    BY <2>1 DEF Follows
  <2> DEFINE h == [i \in 0..m |-> IF i = m THEN step[m][f[m - 1]] ELSE f[i]]
  <2>2. step[m][f[m - 1]] \in V
    <3>1. f[m - 1] \in V
      BY <2>a
    <3>2. step[m] \in [V -> V]
      BY DEF Steps
    <3> QED BY <3>1, <3>2
  <2>3. h \in [0..m -> V]
    BY <2>a, <2>2
  <2>4. h[0] = c
    BY <2>a
  <2>5. ASSUME NEW i \in 1..m PROVE h[i] = step[i][h[i - 1]]
    <3>1. h[i - 1] = f[i - 1] /\ i - 1 \in 0..(m - 1)
      OBVIOUS
    <3>2. CASE i = m
      BY <3>1, <3>2
    <3>3. CASE i # m
      <4>1. h[i] = f[i] /\ i \in 1..(m - 1)
        BY <3>3
      <4> QED BY <3>1, <4>1, <2>a
    <3> QED BY <3>2, <3>3
  <2> HIDE DEF h
  <2>6. Follows(h, m, V, c, step)
    BY <2>3, <2>4, <2>5 DEF Follows
  <2> QED BY <2>6
<1> HIDE DEF G
<1>3. n \in G
  <2>1. \A i \in 0..n : i \in G
    BY <1>1, <1>2, Induction
  <2> QED BY <2>1
<1> QED BY <1>3 DEF G

\* The same without the type of g.
Unfolds(g, n, V, c, step) ==
  /\ g = [i \in 0..n |-> g[i]] /\ g[0] = c
  /\ \A i \in 1..n : g[i - 1] \in V => g[i] = step[i][g[i - 1]]

\* The type follows.
LEMMA UnfoldsFollows ==
  ASSUME NEW n \in Nat, NEW V, NEW c \in V, NEW step \in Steps(n, V), NEW g,
         Unfolds(g, n, V, c, step)
  PROVE  Follows(g, n, V, c, step)
<1>0. /\ g = [i \in 0..n |-> g[i]] /\ g[0] = c
      /\ \A i \in 1..n : g[i - 1] \in V => g[i] = step[i][g[i - 1]]
  BY DEF Unfolds
<1> DEFINE G == {i \in 0..n : g[i] \in V}
<1>1. 0 \in G
  BY <1>0
<1>2. ASSUME NEW i \in 1..n, i - 1 \in G PROVE i \in G
  <2>1. g[i] = step[i][g[i - 1]] /\ g[i - 1] \in V
    BY <1>2, <1>0
  <2>2. step[i] \in [V -> V]
    BY DEF Steps
  <2> QED BY <2>1, <2>2
<1> HIDE DEF G
<1>3. \A i \in 0..n : i \in G
  BY <1>1, <1>2, Induction
<1>4. \A i \in 0..n : g[i] \in V
  BY <1>3 DEF G
<1>5. \A i \in 1..n : i - 1 \in 0..n
  OBVIOUS
<1> QED BY <1>0, <1>4, <1>5 DEF Follows

-----------------------------------------------------------------------------
(* Checksums *)

\* A byte is a natural number.
LEMMA ByteNat == \A b \in Byte : b \in Nat /\ b < 256
BY DEF Byte

\* A sequence of bytes, by its elements.
LEMMA BytesOf ==
  ASSUME NEW s \in Seq(Byte)
  PROVE  /\ Len(s) \in Nat
         /\ \A i \in 1..Len(s) : s[i] \in Byte /\ s[i] \in Nat /\ s[i] < 256
<1>1. Len(s) \in Nat /\ \A i \in 1..Len(s) : s[i] \in Byte
  OBVIOUS
<1> QED BY <1>1, ByteNat

\* What byte i adds to the sum.
Worth(buffer, i) == buffer[i] * (IF i % 2 = 1 THEN 1 ELSE 256)

\* f[i] is the sum of the first i bytes.
Sums(f, buffer) ==
  /\ f \in [0..Len(buffer) -> Nat] /\ f[0] = 0
  /\ \A i \in 1..Len(buffer) : f[i] = f[i - 1] + Worth(buffer, i)

\* WordSum adds up byte by byte.
LEMMA WordSumIs ==
  ASSUME NEW buffer \in Seq(Byte)
  PROVE  \E f : Sums(f, buffer) /\ WordSum(buffer) = f[Len(buffer)]
<1> DEFINE n == Len(buffer)
<1>0. n \in Nat
  BY BytesOf
<1> USE <1>0
<1>1. \A i \in 1..n : Worth(buffer, i) \in Nat
  BY BytesOf DEF Worth
<1> DEFINE step == [i \in 1..n |-> [v \in Nat |-> v + Worth(buffer, i)]]
<1>2. step \in Steps(n, Nat)
  BY <1>1 DEF Steps
<1>3. \A i \in 1..n, v \in Nat : step[i][v] = v + Worth(buffer, i)
  OBVIOUS
<1> DEFINE Eq(g) == [i \in 0..n |-> IF i = 0 THEN 0 ELSE
             g[i - 1] + buffer[i] * (IF i % 2 = 1 THEN 1 ELSE 256)]
           upto == CHOOSE g : g = Eq(g)
<1> HIDE DEF step, n
<1>4. PICK f : Follows(f, n, Nat, 0, step)
  BY <1>2, Recursion
<1>5. f = Eq(f)
  <2>1. f \in [0..n -> Nat] /\ f[0] = 0
    BY <1>4 DEF Follows
  <2>2. ASSUME NEW i \in 1..n PROVE f[i] = f[i - 1] + Worth(buffer, i)
    <3>1. f[i] = step[i][f[i - 1]] /\ f[i - 1] \in Nat
      BY <1>4, <2>1 DEF Follows
    <3> QED BY <1>3, <3>1
  <2>3. ASSUME NEW i \in 0..n PROVE f[i] = Eq(f)[i]
    <3>1. CASE i = 0
      BY <2>1, <3>1
    <3>2. CASE i # 0
      <4>1. i \in 1..n
        BY <3>2
      <4> QED BY <2>2, <3>2, <4>1 DEF Worth
    <3> QED BY <3>1, <3>2
  <2>4. Eq(f) = [i \in 0..n |-> Eq(f)[i]]
    OBVIOUS
  <2> HIDE DEF Eq
  <2> QED BY <2>1, <2>3, <2>4
<1>6. upto = Eq(upto)
  <2> HIDE DEF Eq
  <2> QED BY <1>5
<1>7. WordSum(buffer) = upto[n]
  BY DEF WordSum, n
<1> HIDE DEF upto
<1>8. Unfolds(upto, n, Nat, 0, step)
  <2>1. upto[0] = 0 /\ upto = [i \in 0..n |-> upto[i]]
    BY <1>6
  <2>2. ASSUME NEW i \in 1..n, upto[i - 1] \in Nat PROVE upto[i] = step[i][upto[i - 1]]
    <3>1. upto[i] = upto[i - 1] + Worth(buffer, i)
      BY <1>6 DEF Worth
    <3> HIDE DEF Eq
    <3> QED BY <3>1, <1>3, <2>2
  <2> HIDE DEF Eq
  <2> QED BY <2>1, <2>2 DEF Unfolds
<1>9. Follows(upto, n, Nat, 0, step)
  BY <1>2, <1>8, UnfoldsFollows
<1>10. Sums(upto, buffer)
  <2>1. /\ upto \in [0..n -> Nat] /\ upto[0] = 0
        /\ \A i \in 1..n : upto[i] = step[i][upto[i - 1]]
    BY <1>9 DEF Follows
  <2>2. ASSUME NEW i \in 1..n PROVE upto[i] = upto[i - 1] + Worth(buffer, i)
    <3>1. upto[i - 1] \in Nat
      BY <2>1
    <3> QED BY <3>1, <2>1, <1>3
  <2> QED BY <2>1, <2>2 DEF Sums, n
<1> QED BY <1>7, <1>10 DEF n

\* A word is a natural number below 2^16.
LEMMA WordIs == \A w : w \in Word <=> w \in Nat /\ w < 65536
BY DEF Word

\* Every entry of the table is a word.
LEMMA TableWords == \A i \in 1..256 : crc16_table[i] \in Word
BY SMT DEF crc16_table, Word

\* A differing bit counts as itself or not at all.
LEMMA DifferIs ==
  \A a, b \in Nat, bit \in Nat : bit > 0 => Differ(a, b, bit) \in Nat /\ Differ(a, b, bit) <= bit
<1> SUFFICES ASSUME NEW a \in Nat, NEW b \in Nat, NEW bit \in Nat, bit > 0
             PROVE  Differ(a, b, bit) \in Nat /\ Differ(a, b, bit) <= bit
  OBVIOUS
<1>1. a \div bit \in Nat /\ b \div bit \in Nat
  BY Z3
<1>2. (a \div bit + b \div bit) % 2 \in {0, 1}
  BY <1>1
<1> QED BY <1>2 DEF Differ

\* The exclusive or of two numbers is a word.
LEMMA XorWord == \A a, b \in Nat : Xor[a][b] \in Word
<1> SUFFICES ASSUME NEW a \in Nat, NEW b \in Nat PROVE Xor[a][b] \in Word
  OBVIOUS
<1> DEFINE d(bit) == Differ(a, b, bit)
<1>1. Xor[a][b] = d(1) + d(2) + d(4) + d(8) + d(16) + d(32) + d(64) + d(128) + d(256) +
                  d(512) + d(1024) + d(2048) + d(4096) + d(8192) + d(16384) + d(32768)
  BY DEF Xor
<1>2. \A bit \in Nat : bit > 0 => d(bit) \in Nat /\ d(bit) <= bit
  BY DifferIs
<1> HIDE DEF d
<1>3. /\ d(1) \in Nat /\ d(1) <= 1 /\ d(2) \in Nat /\ d(2) <= 2
      /\ d(4) \in Nat /\ d(4) <= 4 /\ d(8) \in Nat /\ d(8) <= 8
      /\ d(16) \in Nat /\ d(16) <= 16 /\ d(32) \in Nat /\ d(32) <= 32
      /\ d(64) \in Nat /\ d(64) <= 64 /\ d(128) \in Nat /\ d(128) <= 128
  BY <1>2
<1>4. /\ d(256) \in Nat /\ d(256) <= 256 /\ d(512) \in Nat /\ d(512) <= 512
      /\ d(1024) \in Nat /\ d(1024) <= 1024 /\ d(2048) \in Nat /\ d(2048) <= 2048
      /\ d(4096) \in Nat /\ d(4096) <= 4096 /\ d(8192) \in Nat /\ d(8192) <= 8192
      /\ d(16384) \in Nat /\ d(16384) <= 16384 /\ d(32768) \in Nat /\ d(32768) <= 32768
  BY <1>2
<1> QED BY <1>1, <1>3, <1>4 DEF Word

\* The checksum of one byte more is a word.
LEMMA CrcByteWord ==
  ASSUME NEW c \in Word, NEW b \in Byte
  PROVE  crc16_byte(c, b) \in Word
<1>1. c \div 256 \in Nat /\ (c * 256) % 2^16 \in Nat /\ b \in Nat
  BY DEF Word, Byte
<1>2. Xor[c \div 256][b] \in Nat
  <2>1. Xor[c \div 256][b] \in Word
    BY <1>1, XorWord
  <2> QED BY <2>1 DEF Word
<1>3. (Xor[c \div 256][b] % 256) + 1 \in 1..256
  BY <1>2
<1>4. crc16_table[(Xor[c \div 256][b] % 256) + 1] \in Nat
  <2>1. crc16_table[(Xor[c \div 256][b] % 256) + 1] \in Word
    BY <1>3, TableWords
  <2> QED BY <2>1 DEF Word
<1> QED BY <1>1, <1>4, XorWord DEF crc16_byte

\* f[i] is the CRC of the first i bytes.
Crcs(f, buffer) ==
  /\ f \in [0..Len(buffer) -> Word] /\ f[0] = 0
  /\ \A i \in 1..Len(buffer) : f[i] = crc16_byte(f[i - 1], buffer[i])

\* crc16 goes on byte by byte.
LEMMA CrcIs ==
  ASSUME NEW buffer \in Seq(Byte)
  PROVE  \E f : Crcs(f, buffer) /\ crc16(0, buffer) = f[Len(buffer)]
<1> DEFINE n == Len(buffer)
<1>0. n \in Nat
  BY BytesOf
<1> USE <1>0
<1>1. \A i \in 1..n, c \in Word : crc16_byte(c, buffer[i]) \in Word
  BY BytesOf, CrcByteWord
<1>a. 0 \in Word
  BY DEF Word
<1> DEFINE step == [i \in 1..n |-> [c \in Word |-> crc16_byte(c, buffer[i])]]
<1>2. step \in Steps(n, Word)
  BY <1>1 DEF Steps
<1>3. \A i \in 1..n, c \in Word : step[i][c] = crc16_byte(c, buffer[i])
  OBVIOUS
<1> DEFINE Eq(g) == [i \in 0..n |-> IF i = 0 THEN 0 ELSE crc16_byte(g[i - 1], buffer[i])]
           upto == CHOOSE g : g = Eq(g)
<1> HIDE DEF step, n
<1>4. PICK f : Follows(f, n, Word, 0, step)
  BY <1>a, <1>2, Recursion
<1>5. f = Eq(f)
  BY <1>3, <1>4 DEF Follows
<1>6. upto = Eq(upto)
  <2> HIDE DEF Eq
  <2> QED BY <1>5
<1>7. crc16(0, buffer) = upto[n]
  BY DEF crc16, n
<1> HIDE DEF upto
<1>8. Unfolds(upto, n, Word, 0, step)
  BY <1>6, <1>3 DEF Unfolds
<1>9. Follows(upto, n, Word, 0, step)
  BY <1>a, <1>2, <1>8, UnfoldsFollows
<1>10. Crcs(upto, buffer)
  <2>1. /\ upto \in [0..n -> Word] /\ upto[0] = 0
        /\ \A i \in 1..n : upto[i] = step[i][upto[i - 1]]
    BY <1>9 DEF Follows
  <2>2. ASSUME NEW i \in 1..n PROVE upto[i] = crc16_byte(upto[i - 1], buffer[i])
    <3>1. upto[i - 1] \in Word
      BY <2>1
    <3> QED BY <3>1, <2>1, <1>3
  <2> QED BY <2>1, <2>2 DEF Crcs, n
<1> QED BY <1>7, <1>10 DEF n

\* ipcheck folds any sum to a word.
LEMMA IpWord ==
  ASSUME NEW buffer \in Seq(Byte)
  PROVE  ipcheck(buffer) \in Word
<1>1. WordSum(buffer) \in Nat
  <2>1. PICK f : Sums(f, buffer) /\ WordSum(buffer) = f[Len(buffer)]
    BY WordSumIs
  <2>2. Len(buffer) \in Nat
    BY BytesOf
  <2> QED BY <2>1, <2>2 DEF Sums
<1> DEFINE sum == WordSum(buffer)
           once == (sum \div 2^16) + (sum % 2^16)
           cksum == (2^16 - 1) - ((once + once \div 2^16) % 2^16)
<1>2. ipcheck(buffer) = (cksum \div 256) + (cksum % 256) * 256
  BY DEF ipcheck
<1> HIDE DEF sum
<1>3. once \in Nat
  <2>1. sum \in Nat
    BY <1>1 DEF sum
  <2> QED BY <2>1
<1> HIDE DEF once
<1>4. cksum \in 0..(2^16 - 1)
  BY <1>3
<1> HIDE DEF cksum
<1>5. /\ cksum \div 256 \in Nat /\ cksum \div 256 < 256
      /\ cksum % 256 \in Nat /\ cksum % 256 < 256
  BY <1>4
<1> DEFINE h == cksum \div 256
           l == cksum % 256
<1>6. h \in Nat /\ h < 256 /\ l \in Nat /\ l < 256
  BY <1>5
<1>7. ipcheck(buffer) = h + l * 256
  BY <1>2
<1> HIDE DEF h, l
<1>8. h + l * 256 \in Nat /\ h + l * 256 < 65536
  BY <1>6
<1> DEFINE r == h + l * 256
<1>9. r \in Nat /\ r < 65536
  BY <1>8
<1> HIDE DEF r
<1>10. r \in Word
  BY <1>9, WordIs
<1> QED BY <1>7, <1>10 DEF r

\* Either checksum fits in two bytes.
LEMMA ChecksumWord ==
  ASSUME NEW type, NEW buffer \in Seq(Byte)
  PROVE  checksum(type, buffer) \in Word
<1>1. crc16(0, buffer) \in Word
  <2>1. PICK f : Crcs(f, buffer) /\ crc16(0, buffer) = f[Len(buffer)]
    BY CrcIs
  <2>2. Len(buffer) \in Nat
    BY BytesOf
  <2> QED BY <2>1, <2>2 DEF Crcs
<1> QED BY <1>1, IpWord DEF checksum

-----------------------------------------------------------------------------
(* Frames *)

\* The two bytes of a word.
LEMMA TwoBytes ==
  ASSUME NEW w \in Word
  PROVE  High(w) \in Byte /\ Low(w) \in Byte /\ High(w) * 256 + Low(w) = w
BY DEF High, Low, Word, Byte

\* A number gives two bytes, of which it can be made again when it is a word.
LEMMA HighLowByte ==
  ASSUME NEW w \in Nat
  PROVE  High(w) \in Byte /\ Low(w) \in Byte
BY DEF High, Low, Byte

\* A frame byte by byte: what is between its start and end bytes, and the checksum.
LEMMA FrameIs ==
  ASSUME NEW type, NEW cmd \in Byte, NEW data \in Seq(Byte)
  PROVE  LET f == Frame(type, cmd, data)
             n == Len(data)
         IN /\ f \in Seq(Byte) /\ Len(f) = n + 8
            /\ f[1] = \h7e /\ f[n + 8] = \h7e
            /\ f[2] = 0 /\ f[3] = cmd /\ f[4] = High(n) /\ f[5] = Low(n)
            /\ SubSeq(f, 6, n + 5) = data
            /\ sprd_verify_frame(type, f)
<1> DEFINE n == Len(data)
           head == <<0, cmd, High(n), Low(n)>>
           body == head \o data
           ck == checksum(type, body)
           tail == <<High(ck), Low(ck), \h7e>>
           front == <<\h7e>> \o body
           f == front \o tail
<1>1. n \in Nat
  BY BytesOf
<1>2. head \in Seq(Byte) /\ Len(head) = 4
  <2>1. 0 \in Byte
    BY DEF Byte
  <2> QED BY <1>1, <2>1, HighLowByte
<1>3. /\ body \in Seq(Byte) /\ Len(body) = n + 4
      /\ \A i \in 1..(n + 4) : body[i] = IF i <= 4 THEN head[i] ELSE data[i - 4]
  <2> HIDE DEF head
  <2>1. /\ body \in Seq(Byte) /\ Len(body) = Len(head) + Len(data)
        /\ \A i \in 1..(Len(head) + Len(data)) :
             body[i] = IF i <= Len(head) THEN head[i] ELSE data[i - Len(head)]
    BY <1>2, ConcatProperties
  <2> HIDE DEF body
  <2> QED BY <1>1, <1>2, <2>1
<1>4. ck \in Word
  <2> HIDE DEF body
  <2> QED BY <1>3, ChecksumWord
<1>5. tail \in Seq(Byte) /\ Len(tail) = 3
  <2> HIDE DEF ck
  <2>1. High(ck) \in Byte /\ Low(ck) \in Byte
    BY <1>4, TwoBytes
  <2>2. \h7e \in Byte
    BY DEF Byte
  <2> QED BY <2>1, <2>2
<1>6. Frame(type, cmd, data) = f
  BY DEF Frame, front, SPRD_START_BYTE, SPRD_END_BYTE
<1>7. /\ front \in Seq(Byte) /\ Len(front) = n + 5
      /\ \A i \in 1..(n + 5) : front[i] = IF i = 1 THEN \h7e ELSE body[i - 1]
  <2> HIDE DEF body
  <2>1. <<\h7e>> \in Seq(Byte) /\ Len(<<\h7e>>) = 1
    BY DEF Byte
  <2> QED BY <1>1, <1>3, <2>1, ConcatProperties
<1> HIDE DEF front
<1>8. /\ f \in Seq(Byte) /\ Len(f) = n + 8
      /\ \A i \in 1..(n + 8) :
           f[i] = IF i <= n + 5 THEN front[i] ELSE tail[i - (n + 5)]
  <2> HIDE DEF tail
  <2>1. /\ f \in Seq(Byte) /\ Len(f) = Len(front) + Len(tail)
        /\ \A i \in 1..(Len(front) + Len(tail)) :
             f[i] = IF i <= Len(front) THEN front[i] ELSE tail[i - Len(front)]
    BY <1>5, <1>7, ConcatProperties, ZenonT(40)
  <2> HIDE DEF f
  <2>2. Len(front) + Len(tail) = n + 8
    BY <1>1, <1>5, <1>7
  <2>3. \A i \in 1..(n + 8) : f[i] = IF i <= Len(front) THEN front[i] ELSE tail[i - Len(front)]
    BY ONLY <2>1, <2>2
  <2>4. Len(front) = n + 5
    BY <1>7
  <2> QED BY ONLY <2>1, <2>2, <2>3, <2>4
<1> HIDE DEF f
<1>9. f[1] = \h7e /\ f[2] = 0 /\ f[3] = cmd /\ f[4] = High(n) /\ f[5] = Low(n)
  <2>1. f[1] = \h7e /\ f[2] = body[1] /\ f[3] = body[2] /\ f[4] = body[3] /\ f[5] = body[4]
    <3> HIDE DEF body
    <3> QED BY <1>1, <1>7, <1>8
  <2>2. body[1] = head[1] /\ body[2] = head[2] /\ body[3] = head[3] /\ body[4] = head[4]
    <3> HIDE DEF body
    <3> QED BY <1>1, <1>3
  <2> HIDE DEF body
  <2> QED BY <2>1, <2>2
<1>10. f[n + 6] = High(ck) /\ f[n + 7] = Low(ck) /\ f[n + 8] = \h7e
  <2>1. f[n + 6] = tail[1] /\ f[n + 7] = tail[2] /\ f[n + 8] = tail[3]
    <3> HIDE DEF tail
    <3>1. n + 6 \in 1..(n + 8) /\ n + 7 \in 1..(n + 8) /\ n + 8 \in 1..(n + 8)
      BY <1>1
    <3>2. (n + 6) - (n + 5) = 1 /\ (n + 7) - (n + 5) = 2 /\ (n + 8) - (n + 5) = 3
      BY <1>1
    <3>3. ~(n + 6 <= n + 5) /\ ~(n + 7 <= n + 5) /\ ~(n + 8 <= n + 5)
      BY <1>1
    <3> HIDE DEF n
    <3> QED BY <1>8, <3>1, <3>2, <3>3
  <2> HIDE DEF ck
  <2> QED BY <2>1
<1>11. \A i \in 1..(n + 4) : f[i + 1] = body[i]
  <2> HIDE DEF body
  <2> QED BY <1>1, <1>7, <1>8
<1>12. SubSeq(f, 2, n + 5) = body
  <2> HIDE DEF body
  <2>1. \A i \in 2..(n + 5) : f[i] \in Byte
    BY <1>1, <1>8, BytesOf
  <2>2. /\ SubSeq(f, 2, n + 5) \in Seq(Byte) /\ Len(SubSeq(f, 2, n + 5)) = n + 4
        /\ \A i \in 1..(n + 4) : SubSeq(f, 2, n + 5)[i] = f[2 + i - 1]
    BY <1>1, <2>1, SubSeqProperties
  <2>3. \A i \in 1..(n + 4) : SubSeq(f, 2, n + 5)[i] = body[i]
    BY <1>1, <2>2, <1>11
  <2> QED BY <1>3, <2>2, <2>3, SeqEqual
<1>13. SubSeq(f, 6, n + 5) = data
  <2>0. \A i \in 1..n : f[i + 5] = data[i]
    <3>1. \A i \in 1..n : f[i + 5] = body[i + 4]
      <4> HIDE DEF body
      <4> QED BY <1>1, <1>11
    <3>2. \A i \in 1..n : body[i + 4] = data[i]
      <4> HIDE DEF body, head
      <4> QED BY <1>1, <1>3
    <3> HIDE DEF body
    <3> QED BY <3>1, <3>2
  <2>1. \A i \in 6..(n + 5) : f[i] \in Byte
    BY <1>1, <1>8, BytesOf
  <2>2. /\ SubSeq(f, 6, n + 5) \in Seq(Byte) /\ Len(SubSeq(f, 6, n + 5)) = n
        /\ \A i \in 1..n : SubSeq(f, 6, n + 5)[i] = f[6 + i - 1]
    BY <1>1, <2>1, SubSeqProperties
  <2>3. \A i \in 1..n : SubSeq(f, 6, n + 5)[i] = data[i]
    BY <1>1, <2>0, <2>2
  <2> QED BY <2>2, <2>3, SeqEqual
<1>14. sprd_verify_frame(type, f)
  <2>1. checksum(type, SubSeq(f, 2, Len(f) - 3)) = ck
    <3>1. Len(f) - 3 = n + 5
      BY <1>1, <1>8
    <3> HIDE DEF body, n
    <3> QED BY <3>1, <1>12
  <2>2. f[Len(f) - 2] * 256 + f[Len(f) - 1] = ck
    <3>1. Len(f) - 2 = n + 6 /\ Len(f) - 1 = n + 7
      BY <1>1, <1>8
    <3> HIDE DEF ck, n
    <3> QED BY <3>1, <1>10, <1>4, TwoBytes
  <2> HIDE DEF ck
  <2> QED BY <2>1, <2>2, <1>1, <1>8, <1>9, <1>10
          DEF sprd_verify_frame, SPRD_START_BYTE, SPRD_END_BYTE
<1> HIDE DEF n
<1> QED BY <1>6, <1>8, <1>9, <1>10, <1>13, <1>14 DEF n

-----------------------------------------------------------------------------
(* Escaping *)

\* t goes on where s ends.
Extends(s, t) == Len(s) <= Len(t) /\ \A p \in 1..Len(s) : t[p] = s[p]

\* A sequence is extended by what is appended to it.
LEMMA ConcatExtends ==
  ASSUME NEW s \in Seq(Byte), NEW t \in Seq(Byte)
  PROVE  Extends(s, s \o t)
<1>1. /\ Len(s \o t) = Len(s) + Len(t)
      /\ \A i \in 1..(Len(s) + Len(t)) : (s \o t)[i] = IF i <= Len(s) THEN s[i] ELSE t[i - Len(s)]
  BY ConcatProperties
<1>2. Len(s) \in Nat /\ Len(t) \in Nat
  BY BytesOf
<1> DEFINE u == s \o t
<1> HIDE DEF u
<1>3. /\ Len(u) = Len(s) + Len(t)
      /\ \A i \in 1..(Len(s) + Len(t)) : u[i] = IF i <= Len(s) THEN s[i] ELSE t[i - Len(s)]
  BY <1>1 DEF u
<1>4. Extends(s, u)
  BY <1>2, <1>3 DEF Extends
<1> QED BY <1>4 DEF u

\* Extending twice is extending.
LEMMA ExtendsTransitive ==
  ASSUME NEW s \in Seq(Byte), NEW t \in Seq(Byte), NEW u \in Seq(Byte),
         Extends(s, t), Extends(t, u)
  PROVE  Extends(s, u)
<1>1. Len(s) \in Nat /\ Len(t) \in Nat /\ Len(u) \in Nat
  BY BytesOf
<1> QED BY <1>1 DEF Extends

\* Byte i is sent as it is.
SentPlain(src, i, token) ==
  /\ Len(token) = 1 /\ token[1] = src[i] /\ src[i] # \h7d
  /\ src[i] = \h7e => i = 1 \/ i = Len(src)

\* Byte i is sent as an escape.
SentEscaped(src, i, token) ==
  /\ Len(token) = 2 /\ token[1] = \h7d /\ token[2] # \h7d /\ token[2] # \h7e
  /\ Unescaped(token[2]) = <<src[i]>>

\* Every byte is sent in one of the two ways.
LEMMA EscapedIs ==
  ASSUME NEW src \in Seq(Byte), NEW i \in 1..Len(src)
  PROVE  /\ Escaped(src, i) \in Seq(Byte)
         /\ SentPlain(src, i, Escaped(src, i)) \/ SentEscaped(src, i, Escaped(src, i))
<1>0. src[i] \in Byte /\ \h7d \in Byte /\ \h5e \in Byte /\ \h5d \in Byte
  BY BytesOf DEF Byte
<1>1. CASE src[i] = \h7e /\ i \notin {1, Len(src)}
  <2>1. Escaped(src, i) = <<\h7d, \h5e>>
    BY <1>1 DEF Escaped
  <2>2. Unescaped(\h5e) = <<\h7e>>
    BY DEF Unescaped
  <2>3. SentEscaped(src, i, <<\h7d, \h5e>>)
    BY <1>1, <2>2 DEF SentEscaped
  <2> QED BY <1>0, <2>1, <2>3
<1>2. CASE src[i] = \h7d
  <2>1. Escaped(src, i) = <<\h7d, \h5d>>
    BY <1>2 DEF Escaped
  <2>2. Unescaped(\h5d) = <<\h7d>>
    BY DEF Unescaped
  <2>3. SentEscaped(src, i, <<\h7d, \h5d>>)
    BY <1>2, <2>2 DEF SentEscaped
  <2> QED BY <1>0, <2>1, <2>3
<1>3. CASE ~(src[i] = \h7e /\ i \notin {1, Len(src)}) /\ src[i] # \h7d
  <2>1. Escaped(src, i) = <<src[i]>>
    BY <1>3 DEF Escaped
  <2>2. SentPlain(src, i, <<src[i]>>)
    BY <1>3 DEF SentPlain
  <2> QED BY <1>0, <2>1, <2>2
<1> QED BY <1>1, <1>2, <1>3

\* f[i] is what is sent for the first i bytes.
Escapes(f, src) ==
  /\ f \in [0..Len(src) -> Seq(Byte)] /\ f[0] = <<>>
  /\ \A i \in 1..Len(src) : f[i] = f[i - 1] \o Escaped(src, i)

\* Escape goes on byte by byte.
LEMMA EscapeIs ==
  ASSUME NEW src \in Seq(Byte)
  PROVE  \E f : Escapes(f, src) /\ Escape(src) = f[Len(src)]
<1> DEFINE n == Len(src)
           V == Seq(Byte)
           c == <<>>
<1>0. n \in Nat /\ c \in V
  BY BytesOf
<1> USE <1>0
<1> DEFINE On(s, i) == s \o Escaped(src, i)
<1>1. \A i \in 1..n, s \in V : On(s, i) \in V
  BY EscapedIs, ConcatProperties
<1> HIDE DEF V, On
<1> DEFINE step == [i \in 1..n |-> [s \in V |-> On(s, i)]]
<1>2. step \in Steps(n, V)
  BY <1>1 DEF Steps
<1>3. \A i \in 1..n, s \in V : step[i][s] = On(s, i)
  OBVIOUS
<1> DEFINE Eq(g) == [i \in 0..n |-> IF i = 0 THEN <<>> ELSE On(g[i - 1], i)]
           upto == CHOOSE g : g = Eq(g)
<1> HIDE DEF step, n
<1>4. PICK f : Follows(f, n, V, c, step)
  <2> HIDE DEF c
  <2> QED BY <1>2, Recursion
<1>5. f = Eq(f)
  <2>1. /\ f \in [0..n -> V] /\ f[0] = <<>>
        /\ \A i \in 1..n : f[i] = step[i][f[i - 1]]
    BY <1>4 DEF Follows
  <2>2. \A i \in 1..n : f[i - 1] \in V
    BY <2>1
  <2>3. \A i \in 1..n : f[i] = On(f[i - 1], i)
    BY <2>1, <2>2, <1>3
  <2> QED BY <2>1, <2>3
<1>6. upto = Eq(upto)
  <2> HIDE DEF Eq
  <2> QED BY <1>5
<1>7. Escape(src) = upto[n]
  BY DEF Escape, n, On
<1> HIDE DEF upto
<1>8. Unfolds(upto, n, V, c, step)
  <2>1. upto[0] = c /\ upto = [i \in 0..n |-> upto[i]]
    BY <1>6
  <2>2. \A i \in 1..n : upto[i] = On(upto[i - 1], i)
    BY <1>6
  <2> HIDE DEF Eq, c
  <2>3. \A i \in 1..n : upto[i - 1] \in V => upto[i] = step[i][upto[i - 1]]
    BY <2>2, <1>3
  <2> QED BY <2>1, <2>3 DEF Unfolds
<1>9. Follows(upto, n, V, c, step)
  <2> HIDE DEF c
  <2> QED BY <1>2, <1>8, UnfoldsFollows
<1>10. Escapes(upto, src)
  <2>1. /\ upto \in [0..n -> V] /\ upto[0] = c
        /\ \A i \in 1..n : upto[i] = step[i][upto[i - 1]]
    BY <1>9 DEF Follows
  <2>2. ASSUME NEW i \in 1..n PROVE upto[i] = On(upto[i - 1], i)
    <3>1. upto[i - 1] \in V
      BY <2>1
    <3> QED BY <3>1, <2>1, <1>3
  <2> QED BY <2>1, <2>2 DEF Escapes, n, V, On
<1> QED BY <1>7, <1>10 DEF n

\* How byte i of src stands in w, where it ends at off[i].
MarkedPlain(src, w, off, i) ==
  /\ off[i] = off[i - 1] + 1 /\ w[off[i]] = src[i] /\ src[i] # \h7d
  /\ src[i] = \h7e => i = 1 \/ i = Len(src)

MarkedEscaped(src, w, off, i) ==
  /\ off[i] = off[i - 1] + 2 /\ w[off[i] - 1] = \h7d
  /\ w[off[i]] # \h7d /\ w[off[i]] # \h7e /\ Unescaped(w[off[i]]) = <<src[i]>>

\* w is src escaped, and off says where its bytes end.
Marks(src, w, off) ==
  /\ w \in Seq(Byte)
  /\ off \in [0..Len(src) -> Nat] /\ off[0] = 0 /\ off[Len(src)] = Len(w)
  /\ \A i \in 1..Len(src) : MarkedPlain(src, w, off, i) \/ MarkedEscaped(src, w, off, i)

\* What Escape returns can be marked like this.
LEMMA EscapeMarks ==
  ASSUME NEW src \in Seq(Byte)
  PROVE  \E off : Marks(src, Escape(src), off)
<1> DEFINE n == Len(src)
<1>0. n \in Nat
  BY BytesOf
<1> USE <1>0
<1> HIDE DEF n
<1>1. PICK f : Escapes(f, src) /\ Escape(src) = f[n]
  BY EscapeIs DEF n
<1> DEFINE V == Seq(Byte)
           t(i) == Escaped(src, i)
<1>2. /\ f \in [0..n -> V] /\ f[0] = <<>>
      /\ \A i \in 1..n : f[i] = f[i - 1] \o t(i)
  BY <1>1 DEF Escapes, n
<1>3. \A i \in 1..n : t(i) \in V /\ (SentPlain(src, i, t(i)) \/ SentEscaped(src, i, t(i)))
  BY EscapedIs DEF n
<1>4. \A s \in V : Len(s) \in Nat
  BY BytesOf
<1>5. \A s, u \in V : Extends(s, s \o u)
  BY ConcatExtends
<1>6. \A s, u, v \in V : Extends(s, u) /\ Extends(u, v) => Extends(s, v)
  BY ExtendsTransitive
<1>7. \A s \in V : Extends(s, s)
  BY <1>4 DEF Extends
<1>8. \A s, u \in V : Len(s \o u) = Len(s) + Len(u)
  BY ConcatProperties
<1>9. \A s, u \in V : \A p \in 1..Len(u) : (s \o u)[Len(s) + p] = u[p]
  <2> SUFFICES ASSUME NEW s \in V, NEW u \in V, NEW p \in 1..Len(u)
               PROVE  (s \o u)[Len(s) + p] = u[p]
    OBVIOUS
  <2>1. \A i \in 1..(Len(s) + Len(u)) : (s \o u)[i] = IF i <= Len(s) THEN s[i] ELSE u[i - Len(s)]
    BY ConcatProperties
  <2>2. Len(s) \in Nat /\ Len(u) \in Nat
    BY <1>4
  <2> DEFINE l == Len(s)
             m == Len(u)
  <2>3. l \in Nat /\ m \in Nat /\ p \in 1..m
    BY <2>2
  <2>4. \A i \in 1..(l + m) : (s \o u)[i] = IF i <= l THEN s[i] ELSE u[i - l]
    BY <2>1
  <2> HIDE DEF l, m
  <2>5. l + p \in 1..(l + m) /\ ~(l + p <= l) /\ (l + p) - l = p
    BY <2>3
  <2>6. (s \o u)[l + p] = u[p]
    BY <2>4, <2>5
  <2> QED BY <2>6 DEF l
<1> HIDE DEF V, t
<1>10. \A i \in 1..n : f[i - 1] \in V /\ f[i] \in V /\ t(i) \in V
  BY <1>2, <1>3
\* What is sent first is not changed by what is sent later.
<1>11. \A i \in 0..n : Extends(f[i], f[n])
  <2> DEFINE G == {k \in 0..n : \A i \in 0..k : Extends(f[i], f[k])}
  <2>1. 0 \in G
    BY <1>2, <1>7
  <2>2. ASSUME NEW k \in 1..n, k - 1 \in G PROVE k \in G
    <3>1. Extends(f[k - 1], f[k])
      BY <1>2, <1>5, <1>10
    <3>2. ASSUME NEW i \in 0..k PROVE Extends(f[i], f[k])
      <4>1. CASE i = k
        BY <4>1, <1>7, <1>10
      <4>2. CASE i # k
        <5>1. Extends(f[i], f[k - 1]) /\ f[i] \in V
          BY <2>2, <4>2, <1>2
        <5> QED BY <5>1, <3>1, <1>6, <1>10
      <4> QED BY <4>1, <4>2
    <3> QED BY <3>2
  <2> HIDE DEF G
  <2>3. \A k \in 0..n : k \in G
    BY <2>1, <2>2, Induction
  <2>4. n \in G
    BY <2>3
  <2> QED BY <2>4 DEF G
<1> DEFINE w == f[n]
           off == [i \in 0..n |-> Len(f[i])]
<1>12. w \in V
  BY <1>2
<1>13. off \in [0..n -> Nat] /\ off[0] = 0 /\ off[n] = Len(w)
  BY <1>2, <1>4
<1>14. \A i \in 1..n : off[i] = Len(f[i]) /\ off[i - 1] = Len(f[i - 1])
  OBVIOUS
<1> HIDE DEF off, w
<1>15. ASSUME NEW i \in 1..n
       PROVE  MarkedPlain(src, w, off, i) \/ MarkedEscaped(src, w, off, i)
  <2>1. off[i] = off[i - 1] + Len(t(i)) /\ off[i - 1] \in Nat
    <3>1. Len(f[i]) = Len(f[i - 1]) + Len(t(i))
      BY <1>2, <1>8, <1>10
    <3> QED BY <3>1, <1>13, <1>14
  <2>2. ASSUME NEW p \in 1..Len(t(i)) PROVE w[off[i - 1] + p] = t(i)[p]
    <3>1. f[i][off[i - 1] + p] = t(i)[p]
      BY <1>2, <1>9, <1>10, <1>14
    <3>2. off[i - 1] + p \in 1..Len(f[i]) /\ Len(t(i)) \in Nat
      BY <1>4, <1>10, <1>14, <2>1
    <3>3. Extends(f[i], w)
      BY <1>11 DEF w
    <3>4. w[off[i - 1] + p] = f[i][off[i - 1] + p]
      BY <3>2, <3>3 DEF Extends
    <3> QED BY <3>1, <3>4
  <2> DEFINE a == off[i - 1]
             b == t(i)
  <2>3. a \in Nat /\ off[i] = a + Len(b) /\ \A p \in 1..Len(b) : w[a + p] = b[p]
    BY <2>1, <2>2
  <2>4. SentPlain(src, i, b) \/ SentEscaped(src, i, b)
    BY <1>3
  <2> HIDE DEF a, b
  <2>5. CASE SentPlain(src, i, b)
    <3>1. /\ off[i] = a + 1 /\ w[a + 1] = b[1] /\ b[1] = src[i] /\ src[i] # \h7d
          /\ src[i] = \h7e => i = 1 \/ i = Len(src)
      BY <2>3, <2>5 DEF SentPlain
    <3>2. MarkedPlain(src, w, off, i)
      BY <3>1 DEF MarkedPlain, a
    <3> QED BY <3>2
  <2>6. CASE SentEscaped(src, i, b)
    <3>1. /\ off[i] = a + 2 /\ w[a + 1] = \h7d /\ w[a + 2] = b[2]
          /\ b[2] # \h7d /\ b[2] # \h7e /\ Unescaped(b[2]) = <<src[i]>>
      BY <2>3, <2>6 DEF SentEscaped
    <3>2. off[i] - 1 = a + 1
      BY <3>1, <2>3
    <3>3. /\ off[i] = off[i - 1] + 2 /\ w[off[i] - 1] = \h7d
          /\ w[off[i]] # \h7d /\ w[off[i]] # \h7e /\ Unescaped(w[off[i]]) = <<src[i]>>
      BY <3>1, <3>2 DEF a
    <3>4. MarkedEscaped(src, w, off, i)
      BY <3>3 DEF MarkedEscaped
    <3> QED BY <3>4
  <2> QED BY <2>4, <2>5, <2>6
<1>16. Marks(src, w, off)
  BY <1>12, <1>13, <1>15 DEF Marks, n, V
<1> QED BY <1>1, <1>16 DEF w

\* A later byte of src ends later in w.
LEMMA MarksGrow ==
  ASSUME NEW src \in Seq(Byte), NEW w, NEW off, Marks(src, w, off)
  PROVE  \A k \in 0..Len(src) : \A i \in 0..k : i < k => off[i] < off[k]
<1> DEFINE n == Len(src)
           G == {k \in 0..n : \A i \in 0..k : i < k => off[i] < off[k]}
<1>0. n \in Nat
  BY BytesOf
<1> HIDE DEF n
<1>1. off \in [0..n -> Nat] /\ \A i \in 1..n : off[i - 1] < off[i]
  <2>1. /\ off \in [0..n -> Nat]
        /\ \A i \in 1..n : off[i] = off[i - 1] + 1 \/ off[i] = off[i - 1] + 2
    BY DEF Marks, MarkedPlain, MarkedEscaped, n
  <2> QED BY <1>0, <2>1
<1>2. 0 \in G
  BY <1>0
<1>3. ASSUME NEW k \in 1..n, k - 1 \in G PROVE k \in G
  <2> SUFFICES ASSUME NEW i \in 0..k, i < k PROVE off[i] < off[k]
    BY <1>0
  <2>1. off[k - 1] < off[k] /\ off[k - 1] \in Nat /\ off[k] \in Nat /\ off[i] \in Nat
    BY <1>0, <1>1
  <2>2. i = k - 1 \/ (i \in 0..(k - 1) /\ i < k - 1)
    BY <1>0
  <2>3. i < k - 1 => off[i] < off[k - 1]
    BY <1>3, <2>2
  <2> QED BY <2>1, <2>2, <2>3
<1> HIDE DEF G
<1>4. \A k \in 0..n : k \in G
  BY <1>0, <1>2, <1>3, Induction
<1> QED BY <1>4 DEF G, n

\* A byte of w that is not 0x7d ends a byte of src.
LEMMA MarksEnd ==
  ASSUME NEW src \in Seq(Byte), NEW w, NEW off, Marks(src, w, off),
         NEW p \in 1..Len(w), w[p] # \h7d
  PROVE  \E k \in 1..Len(src) : off[k] = p
<1> DEFINE n == Len(src)
           G == {k \in 0..n : p <= off[k] => \E j \in 1..n : off[j] = p}
<1>0. n \in Nat
  BY BytesOf
<1> HIDE DEF n
<1>1. /\ off \in [0..n -> Nat] /\ off[0] = 0 /\ off[n] = Len(w)
      /\ \A i \in 1..n : \/ off[i] = off[i - 1] + 1
                         \/ off[i] = off[i - 1] + 2 /\ w[off[i] - 1] = \h7d
  BY DEF Marks, MarkedPlain, MarkedEscaped, n
<1>p. p \in Nat /\ p > 0 /\ p <= Len(w)
  <2>1. Len(w) \in Nat
    BY BytesOf DEF Marks
  <2> QED BY <2>1
<1>2. 0 \in G
  BY <1>0, <1>1, <1>p
<1>3. ASSUME NEW k \in 1..n, k - 1 \in G PROVE k \in G
  <2> SUFFICES ASSUME p <= off[k] PROVE \E j \in 1..n : off[j] = p
    BY <1>0
  <2>1. off[k - 1] \in Nat /\ off[k] \in Nat
    BY <1>0, <1>1
  <2>2. CASE p <= off[k - 1]
    BY <1>3, <2>2
  <2>3. CASE p = off[k]
    BY <2>3
  <2>4. CASE off[k - 1] < p /\ p < off[k]
    <3>1. off[k] = off[k - 1] + 1 \/ (off[k] = off[k - 1] + 2 /\ w[off[k] - 1] = \h7d)
      BY <1>1
    <3>2. off[k] = off[k - 1] + 2 /\ w[off[k] - 1] = \h7d
      BY <3>1, <2>1, <2>4, <1>p
    <3>3. p = off[k] - 1
      BY <3>2, <2>1, <2>4, <1>p
    <3> QED BY <3>2, <3>3
  <2> QED BY <2>1, <2>2, <2>3, <2>4, <1>p
<1> HIDE DEF G
<1>4. \A k \in 0..n : k \in G
  BY <1>0, <1>2, <1>3, Induction
<1>5. n \in G
  BY <1>0, <1>4
<1> QED BY <1>1, <1>5, <1>p DEF G, n

\* The last byte sent is not 0x7d: what is received is never left in an escape.
LEMMA MarksLast ==
  ASSUME NEW src \in Seq(Byte), NEW w, NEW off, Marks(src, w, off),
         src # <<>>, src[Len(src)] # \h7d
  PROVE  Len(w) \in Nat /\ Len(w) > 0 /\ w[Len(w)] # \h7d
<1> DEFINE n == Len(src)
<1>0. n \in Nat /\ n > 0
  <2>1. Len(src) \in Nat \ {0}
    BY EmptySeq
  <2> QED BY <2>1
<1> HIDE DEF n
<1>1. /\ off \in [0..n -> Nat] /\ off[n] = Len(w) /\ n \in 1..n
      /\ off[n] = off[n - 1] + 1 \/ off[n] = off[n - 1] + 2
      /\ w[off[n]] = src[n] \/ w[off[n]] # \h7d
  BY <1>0 DEF Marks, MarkedPlain, MarkedEscaped, n
<1>2. off[n] \in Nat /\ off[n - 1] \in Nat
  BY <1>0, <1>1
<1>3. src[n] # \h7d
  BY DEF n
<1> QED BY <1>1, <1>2, <1>3

\* Between the first and the last byte sent there is no 0x7e.
LEMMA MarksInner ==
  ASSUME NEW src \in Seq(Byte), NEW w, NEW off, Marks(src, w, off),
         NEW p \in 2..(Len(w) - 1)
  PROVE  w[p] # \h7e
<1> SUFFICES ASSUME w[p] = \h7e PROVE FALSE
  OBVIOUS
<1> DEFINE n == Len(src)
           m == Len(w)
<1>0. n \in Nat /\ m \in Nat /\ p \in 1..m /\ p # 1 /\ p # m
  <2>1. Len(w) \in Nat /\ Len(src) \in Nat
    BY BytesOf DEF Marks
  <2> QED BY <2>1
<1>1. PICK k \in 1..n : off[k] = p
  BY <1>0, MarksEnd
<1> HIDE DEF n, m
<1>2. /\ MarkedPlain(src, w, off, k) \/ MarkedEscaped(src, w, off, k)
      /\ off[0] = 0 /\ off[n] = m
  BY DEF Marks, n, m
<1>3. MarkedPlain(src, w, off, k)
  BY <1>1, <1>2 DEF MarkedEscaped
<1>4. off[k] = off[k - 1] + 1 /\ (k = 1 \/ k = n)
  BY <1>1, <1>3 DEF MarkedPlain, n
<1>5. CASE k = 1
  BY <1>0, <1>1, <1>2, <1>4, <1>5
<1>6. CASE k = n
  BY <1>0, <1>1, <1>2, <1>6
<1> QED BY <1>4, <1>5, <1>6

\* The state of the loop that unescapes.
Unescaping == [out : Seq(Byte), esc : BOOLEAN]

\* One byte more leaves such a state.
LEMMA UnescapeByteIs ==
  ASSUME NEW was \in Unescaping, NEW b \in Byte
  PROVE  UnescapeByte(was, b) \in Unescaping
<1>1. was.out \in Seq(Byte) /\ was.esc \in BOOLEAN
  BY DEF Unescaping
<1>2. Unescaped(b) \in Seq(Byte)
  <2>1. \h7e \in Byte /\ \h7d \in Byte
    BY DEF Byte
  <2>2. Unescaped(b) = <<\h7e>> \/ Unescaped(b) = <<\h7d>> \/ Unescaped(b) = <<>>
    BY DEF Unescaped
  <2>3. <<\h7e>> \in Seq(Byte)
    BY <2>1
  <2>4. <<\h7d>> \in Seq(Byte)
    BY <2>1
  <2>5. <<>> \in Seq(Byte)
    OBVIOUS
  <2> QED BY <2>2, <2>3, <2>4, <2>5, ZenonT(40)
<1>3. <<b>> \in Seq(Byte)
  OBVIOUS
<1>4. was.out \o Unescaped(b) \in Seq(Byte) /\ was.out \o <<b>> \in Seq(Byte)
  BY <1>1, <1>2, <1>3, ConcatProperties
<1> DEFINE x == was.out \o Unescaped(b)
           y == was.out \o <<b>>
<1>5. \/ UnescapeByte(was, b) = [out |-> x, esc |-> FALSE]
      \/ UnescapeByte(was, b) = [out |-> was.out, esc |-> TRUE]
      \/ UnescapeByte(was, b) = [out |-> y, esc |-> FALSE]
  BY <1>1 DEF UnescapeByte
<1>6. x \in Seq(Byte) /\ y \in Seq(Byte)
  BY <1>4
<1> HIDE DEF x, y
<1>7. /\ [out |-> x, esc |-> FALSE] \in Unescaping
      /\ [out |-> was.out, esc |-> TRUE] \in Unescaping
      /\ [out |-> y, esc |-> FALSE] \in Unescaping
  BY <1>1, <1>6 DEF Unescaping
<1> QED BY <1>5, <1>7

\* f[i] is the state after the first i bytes.
Unescapes(f, src) ==
  /\ f \in [0..Len(src) -> Unescaping] /\ f[0] = [out |-> <<>>, esc |-> FALSE]
  /\ \A i \in 1..Len(src) : f[i] = UnescapeByte(f[i - 1], src[i])

\* Unescape goes on byte by byte.
LEMMA UnescapeIs ==
  ASSUME NEW src \in Seq(Byte), NEW beyond
  PROVE  \E f : /\ Unescapes(f, src)
                /\ Unescape(src, beyond) =
                     f[Len(src)].out \o (IF f[Len(src)].esc THEN Unescaped(beyond) ELSE <<>>)
<1> DEFINE n == Len(src)
           V == Unescaping
           c == [out |-> <<>>, esc |-> FALSE]
<1>0. n \in Nat /\ c \in V
  <2>1. <<>> \in Seq(Byte)
    OBVIOUS
  <2> QED BY <2>1, BytesOf DEF Unescaping
<1> USE <1>0
<1> DEFINE On(s, i) == UnescapeByte(s, src[i])
<1>1. \A i \in 1..n, s \in V : On(s, i) \in V
  BY BytesOf, UnescapeByteIs
<1> HIDE DEF V, On
<1> DEFINE step == [i \in 1..n |-> [s \in V |-> On(s, i)]]
<1> HIDE DEF c
<1>2. step \in Steps(n, V)
  BY <1>1 DEF Steps
<1>3. \A i \in 1..n, s \in V : step[i][s] = On(s, i)
  OBVIOUS
<1> DEFINE Eq(g) == [i \in 0..n |-> IF i = 0 THEN c ELSE On(g[i - 1], i)]
           upto == CHOOSE g : g = Eq(g)
<1> HIDE DEF step, n
<1>4. PICK f : Follows(f, n, V, c, step)
  BY <1>2, Recursion
<1>5. f = Eq(f)
  <2>1. /\ f \in [0..n -> V] /\ f[0] = c
        /\ \A i \in 1..n : f[i] = step[i][f[i - 1]]
    BY <1>4 DEF Follows
  <2>2. \A i \in 1..n : f[i - 1] \in V
    BY <2>1
  <2>3. \A i \in 1..n : f[i] = On(f[i - 1], i)
    BY <2>1, <2>2, <1>3
  <2> QED BY <2>1, <2>3
<1>6. upto = Eq(upto)
  <2> HIDE DEF Eq
  <2> QED BY <1>5
<1>7. Unescape(src, beyond) =
        upto[n].out \o (IF upto[n].esc THEN Unescaped(beyond) ELSE <<>>)
  BY DEF Unescape, n, On, c
<1> HIDE DEF upto
<1>8. Unfolds(upto, n, V, c, step)
  <2>1. upto[0] = c /\ upto = [i \in 0..n |-> upto[i]]
    BY <1>6
  <2>2. \A i \in 1..n : upto[i] = On(upto[i - 1], i)
    BY <1>6
  <2> HIDE DEF Eq
  <2>3. \A i \in 1..n : upto[i - 1] \in V => upto[i] = step[i][upto[i - 1]]
    BY <2>2, <1>3
  <2> QED BY <2>1, <2>3 DEF Unfolds
<1>9. Follows(upto, n, V, c, step)
  BY <1>2, <1>8, UnfoldsFollows
<1>10. Unescapes(upto, src)
  <2>1. /\ upto \in [0..n -> V] /\ upto[0] = c
        /\ \A i \in 1..n : upto[i] = step[i][upto[i - 1]]
    BY <1>9 DEF Follows
  <2>2. ASSUME NEW i \in 1..n PROVE upto[i] = On(upto[i - 1], i)
    <3>1. upto[i - 1] \in V
      BY <2>1
    <3> QED BY <3>1, <2>1, <1>3
  <2> QED BY <2>1, <2>2 DEF Unescapes, n, V, On, c
<1> QED BY <1>7, <1>10 DEF n

\* What a plain byte and what an escape does to the state.
LEMMA UnescapePlain ==
  ASSUME NEW was, was.esc = FALSE, NEW b, b # \h7d
  PROVE  UnescapeByte(was, b) = [out |-> was.out \o <<b>>, esc |-> FALSE]
BY DEF UnescapeByte

LEMMA UnescapePair ==
  ASSUME NEW was, was.esc = FALSE, NEW b
  PROVE  UnescapeByte(UnescapeByte(was, \h7d), b) = [out |-> was.out \o Unescaped(b), esc |-> FALSE]
<1>1. UnescapeByte(was, \h7d) = [out |-> was.out, esc |-> TRUE]
  BY DEF UnescapeByte
<1> QED BY <1>1 DEF UnescapeByte

\* Where the bytes from p + 1 to q stand in a piece that begins after a and ends at z.
LEMMA Positions ==
  \A a, z, p, q \in Nat : a <= p /\ q <= z =>
    /\ q = p + 1 => /\ (p - a) + 1 \in 1..(z - a) /\ ((p - a) + 1) - 1 = p - a
                    /\ a + ((p - a) + 1) = q /\ q - a = (p - a) + 1
    /\ q = p + 2 => /\ (p - a) + 1 \in 1..(z - a) /\ (p - a) + 2 \in 1..(z - a)
                    /\ ((p - a) + 1) - 1 = p - a /\ ((p - a) + 2) - 1 = (p - a) + 1
                    /\ a + ((p - a) + 1) = q - 1 /\ a + ((p - a) + 2) = q
                    /\ q - a = (p - a) + 2
OBVIOUS

\* Bytes j + 1 to k of src are what unescaping the piece of w that holds them gives.
PiecesUnescape(src, w, off, beyond) ==
  \A j \in 0..Len(src) : \A k \in j..Len(src) :
    Unescape(SubSeq(w, off[j] + 1, off[k]), beyond) = SubSeq(src, j + 1, k)

\* A piece that is cut where bytes end is unescaped to exactly those bytes.
LEMMA UnescapePiece ==
  ASSUME NEW src \in Seq(Byte), NEW w, NEW off, Marks(src, w, off), NEW beyond
  PROVE  PiecesUnescape(src, w, off, beyond)
<1> SUFFICES ASSUME NEW j \in 0..Len(src), NEW k \in j..Len(src)
             PROVE  Unescape(SubSeq(w, off[j] + 1, off[k]), beyond) = SubSeq(src, j + 1, k)
  BY DEF PiecesUnescape
<1> DEFINE n == Len(src)
           piece == SubSeq(w, off[j] + 1, off[k])
<1>0. n \in Nat /\ j \in 0..n /\ k \in j..n /\ j \in Nat /\ k \in Nat
  BY BytesOf
<1> HIDE DEF n
<1>1. /\ w \in Seq(Byte) /\ off \in [0..n -> Nat] /\ off[0] = 0 /\ off[n] = Len(w)
      /\ \A i \in 1..n : MarkedPlain(src, w, off, i) \/ MarkedEscaped(src, w, off, i)
  BY DEF Marks, n
<1>2. \A i \in 0..n : \A h \in 0..i : off[h] \in Nat /\ off[i] \in Nat /\ off[h] <= off[i]
  <2>1. \A i \in 0..n : \A h \in 0..i : h < i => off[h] < off[i]
    BY MarksGrow DEF n
  <2> SUFFICES ASSUME NEW i \in 0..n, NEW h \in 0..i
               PROVE  off[h] \in Nat /\ off[i] \in Nat /\ off[h] <= off[i]
    OBVIOUS
  <2>2. h \in 0..n /\ off[h] \in Nat /\ off[i] \in Nat
    BY <1>0, <1>1
  <2>3. h < i => off[h] < off[i]
    BY <2>1
  <2>4. h = i \/ h < i
    BY <1>0
  <2> QED BY <2>2, <2>3, <2>4
<1> DEFINE a == off[j]
           z == off[k]
<1>3. a \in Nat /\ z \in Nat /\ a <= z /\ z <= Len(w) /\ Len(w) \in Nat
  <2>1. off[k] <= off[n] /\ off[n] \in Nat /\ off[j] <= off[k] /\ off[j] \in Nat /\ off[k] \in Nat
    BY <1>0, <1>2
  <2> QED BY <2>1, <1>1
<1>4. /\ piece \in Seq(Byte) /\ Len(piece) = z - a
      /\ \A p \in 1..(z - a) : piece[p] = w[a + p]
  <2> HIDE DEF a, z
  <2> DEFINE s == SubSeq(w, a + 1, z)
  <2>1. \A i \in (a + 1)..z : w[i] \in Byte
    BY <1>1, <1>3, BytesOf
  <2>2. /\ s \in Seq(Byte)
        /\ Len(s) = IF a + 1 <= z THEN z - (a + 1) + 1 ELSE 0
        /\ \A p \in 1..(z - (a + 1) + 1) : s[p] = w[(a + 1) + p - 1]
    BY <1>3, <2>1, SubSeqProperties
  <2> HIDE DEF s
  <2>3. Len(s) = z - a /\ \A p \in 1..(z - a) : s[p] = w[a + p]
    BY <1>3, <2>2
  <2> QED BY <2>2, <2>3 DEF s, a, z
<1> HIDE DEF piece
<1>5. PICK f : /\ Unescapes(f, piece)
               /\ Unescape(piece, beyond) =
                    f[Len(piece)].out \o (IF f[Len(piece)].esc THEN Unescaped(beyond) ELSE <<>>)
  BY <1>4, UnescapeIs
<1>6. /\ f[0] = [out |-> <<>>, esc |-> FALSE]
      /\ \A p \in 1..(z - a) : f[p] = UnescapeByte(f[p - 1], w[a + p])
  BY <1>4, <1>5 DEF Unescapes
<1> DEFINE Done(i) == f[off[i] - a] = [out |-> SubSeq(src, j + 1, i), esc |-> FALSE]
           G == {i \in 0..k : i < j \/ Done(i)}
<1>7. ASSUME NEW i \in (j + 1)..k, Done(i - 1) PROVE Done(i)
  <2> DEFINE u == off[i - 1] - a
             old == SubSeq(src, j + 1, i - 1)
  <2>0. i \in 1..n /\ i - 1 \in j..k /\ i \in j..k /\ i - 1 \in 0..n
    BY <1>0
  <2>1. /\ off[i - 1] \in Nat /\ off[i] \in Nat /\ a <= off[i - 1] /\ off[i] <= z
    BY <1>0, <1>2, <2>0
  <2>2. u \in Nat /\ a + u = off[i - 1]
    BY <1>3, <2>1
  <2>3. f[u] = [out |-> old, esc |-> FALSE]
    BY <1>7
  <2>4. SubSeq(src, j + 1, i) = old \o <<src[i]>>
    <3>1. j + 1 \in 1..Len(src) /\ i \in (j + 1)..Len(src)
      BY <1>0, <2>0 DEF n
    <3> QED BY <3>1, SubSeqRecursiveSecond
  <2>5. CASE MarkedPlain(src, w, off, i)
    <3>1. off[i] = off[i - 1] + 1 /\ w[off[i]] = src[i] /\ src[i] # \h7d
      BY <2>5 DEF MarkedPlain
    <3>2. /\ u + 1 \in 1..(z - a) /\ (u + 1) - 1 = u
          /\ a + (u + 1) = off[i] /\ off[i] - a = u + 1
      <4> DEFINE p == off[i - 1]
                 q == off[i]
      <4>1. /\ a \in Nat /\ z \in Nat /\ p \in Nat /\ q \in Nat
            /\ a <= p /\ q <= z /\ q = p + 1
        BY <3>1, <1>3, <2>1
      <4> HIDE DEF a, z, p, q
      <4>2. /\ (p - a) + 1 \in 1..(z - a) /\ ((p - a) + 1) - 1 = p - a
            /\ a + ((p - a) + 1) = q /\ q - a = (p - a) + 1
        BY <4>1, Positions
      <4> QED BY <4>2 DEF p, q, a, z
    <3>3. f[u + 1] = UnescapeByte(f[u], src[i])
      BY <1>6, <3>1, <3>2
    <3> HIDE DEF u, old
    <3>4. f[u + 1] = [out |-> old \o <<src[i]>>, esc |-> FALSE]
      BY <2>3, <3>1, <3>3, UnescapePlain
    <3> QED BY <2>4, <3>2, <3>4
  <2>6. CASE MarkedEscaped(src, w, off, i)
    <3>1. /\ off[i] = off[i - 1] + 2 /\ w[off[i] - 1] = \h7d
          /\ Unescaped(w[off[i]]) = <<src[i]>>
      BY <2>6 DEF MarkedEscaped
    <3>2. /\ u + 1 \in 1..(z - a) /\ u + 2 \in 1..(z - a)
          /\ (u + 1) - 1 = u /\ (u + 2) - 1 = u + 1
          /\ a + (u + 1) = off[i] - 1 /\ a + (u + 2) = off[i] /\ off[i] - a = u + 2
      <4> DEFINE p == off[i - 1]
                 q == off[i]
      <4>1. /\ a \in Nat /\ z \in Nat /\ p \in Nat /\ q \in Nat
            /\ a <= p /\ q <= z /\ q = p + 2
        BY <3>1, <1>3, <2>1
      <4> HIDE DEF a, z, p, q
      <4>2. /\ (p - a) + 1 \in 1..(z - a) /\ (p - a) + 2 \in 1..(z - a)
            /\ ((p - a) + 1) - 1 = p - a /\ ((p - a) + 2) - 1 = (p - a) + 1
            /\ a + ((p - a) + 1) = q - 1 /\ a + ((p - a) + 2) = q
            /\ q - a = (p - a) + 2
        BY <4>1, Positions
      <4> QED BY <4>2 DEF p, q, a, z
    <3>3. /\ f[u + 1] = UnescapeByte(f[u], \h7d)
          /\ f[u + 2] = UnescapeByte(f[u + 1], w[off[i]])
      BY <1>6, <3>1, <3>2
    <3> HIDE DEF u, old
    <3>a. f[u].esc = FALSE /\ f[u].out = old
      BY <2>3
    <3>b. f[u + 2] = UnescapeByte(UnescapeByte(f[u], \h7d), w[off[i]])
      BY <3>3
    <3>c. f[u + 2] = [out |-> f[u].out \o Unescaped(w[off[i]]), esc |-> FALSE]
      BY <3>a, <3>b, UnescapePair
    <3>4. f[u + 2] = [out |-> old \o <<src[i]>>, esc |-> FALSE]
      BY <3>a, <3>c, <3>1
    <3> QED BY <2>4, <3>2, <3>4
  <2> QED BY <1>1, <2>0, <2>5, <2>6
<1>8. Done(j)
  <2>1. off[j] - a = 0
    BY <1>3
  <2>2. SubSeq(src, j + 1, j) = <<>>
    BY <1>0, SubSeqEmpty
  <2> QED BY <1>6, <2>1, <2>2
<1> HIDE DEF Done
<1>9. 0 \in G
  BY <1>0, <1>8
<1>10. ASSUME NEW i \in 1..k, i - 1 \in G PROVE i \in G
  <2>1. CASE i < j
    BY <2>1
  <2>2. CASE i = j
    BY <2>2, <1>8
  <2>3. CASE i > j
    <3>1. i \in (j + 1)..k /\ ~(i - 1 < j)
      BY <1>0, <2>3
    <3>2. Done(i - 1)
      BY <1>10, <3>1
    <3>3. Done(i)
      BY <1>7, <3>1, <3>2
    <3> QED BY <3>3
  <2> QED BY <1>0, <2>1, <2>2, <2>3
<1> HIDE DEF G
<1>11. \A i \in 0..k : i \in G
  BY <1>0, <1>9, <1>10, Induction
<1>12. Done(k)
  BY <1>0, <1>11 DEF G
<1>13. f[Len(piece)] = [out |-> SubSeq(src, j + 1, k), esc |-> FALSE]
  BY <1>4, <1>12 DEF Done
<1>14. SubSeq(src, j + 1, k) \in Seq(Byte)
  <2>1. \A i \in (j + 1)..k : src[i] \in Byte
    BY <1>0, BytesOf DEF n
  <2>2. j + 1 \in Int /\ k \in Int
    BY <1>0
  <2> QED BY <2>1, <2>2, SubSeqProperties
<1> DEFINE r == SubSeq(src, j + 1, k)
<1> HIDE DEF r
<1>15. Unescape(piece, beyond) = r \o <<>>
  BY <1>5, <1>13 DEF r
<1>16. r \o <<>> = r
  BY <1>14, ConcatEmptySeq DEF r
<1> QED BY <1>15, <1>16 DEF r, piece

-----------------------------------------------------------------------------
(* Whole frames *)

\* Unescaping undoes escaping (sprd_frame_exchange with dir 0 and then with dir 1).
THEOREM EscapeRoundTrip ==
  ASSUME NEW src \in Seq(Byte), NEW beyond
  PROVE  Unescape(Escape(src), beyond) = src
<1> DEFINE w == Escape(src)
           n == Len(src)
<1>1. PICK off : Marks(src, w, off)
  BY EscapeMarks
<1>2. n \in Nat /\ 0 \in 0..n /\ n \in 0..n
  BY BytesOf
<1> HIDE DEF w
<1>3. w \in Seq(Byte) /\ off[0] = 0 /\ off[n] = Len(w)
  <2> HIDE DEF n
  <2> QED BY <1>1 DEF Marks, n
<1>4. Unescape(SubSeq(w, off[0] + 1, off[n]), beyond) = SubSeq(src, 0 + 1, n)
  <2>1. PiecesUnescape(src, w, off, beyond)
    BY <1>1, UnescapePiece
  <2> HIDE DEF n
  <2> QED BY <1>2, <2>1 DEF PiecesUnescape, n
<1>5. off[0] + 1 = 1 /\ 0 + 1 = 1
  BY <1>3
<1>6. SubSeq(w, 1, Len(w)) = w /\ SubSeq(src, 1, n) = src
  BY <1>3, SubSeqFull
<1> QED BY <1>3, <1>4, <1>5, <1>6 DEF w

\* Whatever bytes a frame carries, a phone that cuts the stream at 0x7e gets the command
\* and the data that were meant from the frame that was escaped (sprd_frame_exchange).
THEOREM EscapedUnderstood ==
  ASSUME NEW type, NEW cmd \in Byte, NEW data \in Seq(Byte), Len(data) < 65536
  PROVE  UnderstoodAs(Escape(Frame(type, cmd, data)), type, cmd, data)
<1> DEFINE f == Frame(type, cmd, data)
           n == Len(data)
           w == Escape(f)
<1>1. /\ f \in Seq(Byte) /\ Len(f) = n + 8
      /\ f[3] = cmd /\ f[4] = High(n) /\ f[5] = Low(n)
      /\ SubSeq(f, 6, n + 5) = data /\ sprd_verify_frame(type, f)
  BY FrameIs
<1>2. n \in Word
  BY BytesOf, WordIs
<1> HIDE DEF f
<1>3. Unescape(w, 0) = f
  BY <1>1, EscapeRoundTrip
<1>4. ASSUME NEW i \in 2..(Len(w) - 1) PROVE w[i] # \h7e
  <2>1. PICK off : Marks(f, w, off)
    BY <1>1, EscapeMarks
  <2> HIDE DEF w
  <2> QED BY <1>1, <2>1, MarksInner
<1>5. Len(f) - 3 = n + 5 /\ Len(f) - 8 = n
  BY <1>1, <1>2, WordIs
<1>6. f[4] * 256 + f[5] = n
  BY <1>1, <1>2, TwoBytes
<1> HIDE DEF w, n
<1>7. Says(f, type, cmd, data)
  BY <1>1, <1>5, <1>6 DEF Says
<1>8. UnderstoodAs(w, type, cmd, data)
  BY <1>3, <1>4, <1>7 DEF UnderstoodAs
<1> QED BY <1>8 DEF w, f

\* Nothing in src has to be escaped.
Unmarked(src) ==
  \A i \in 1..Len(src) : src[i] # \h7d /\ (src[i] = \h7e => i = 1 \/ i = Len(src))

\* Then Escape changes nothing, and it makes no difference that it is not called.
LEMMA EscapeNothing ==
  ASSUME NEW src \in Seq(Byte), Unmarked(src)
  PROVE  Escape(src) = src
<1> DEFINE n == Len(src)
<1>0. n \in Nat
  BY BytesOf
<1>1. PICK f : Escapes(f, src) /\ Escape(src) = f[n]
  BY EscapeIs
<1>2. f[0] = <<>> /\ \A i \in 1..n : f[i] = f[i - 1] \o <<src[i]>>
  <2>1. f[0] = <<>> /\ \A i \in 1..n : f[i] = f[i - 1] \o Escaped(src, i)
    BY <1>1 DEF Escapes
  <2>2. \A i \in 1..n : Escaped(src, i) = <<src[i]>>
    BY DEF Escaped, Unmarked
  <2> QED BY <2>1, <2>2
<1> DEFINE P(i) == f[i] = SubSeq(src, 1, i)
           G == {i \in 0..n : P(i)}
<1>3. 0 \in G
  <2>1. SubSeq(src, 1, 0) = <<>>
    BY SubSeqEmpty
  <2>2. P(0)
    BY <1>2, <2>1
  <2> HIDE DEF P
  <2> QED BY <1>0, <2>2
<1>4. ASSUME NEW i \in 1..n, i - 1 \in G PROVE i \in G
  <2>1. 1 \in 1..Len(src) /\ i \in 1..Len(src)
    BY <1>0
  <2>2. SubSeq(src, 1, i) = SubSeq(src, 1, i - 1) \o <<src[i]>>
    BY <2>1, SubSeqRecursiveSecond
  <2>3. f[i - 1] = SubSeq(src, 1, i - 1)
    BY <1>4
  <2>4. P(i)
    BY <1>2, <2>2, <2>3
  <2> HIDE DEF P
  <2> QED BY <1>0, <2>4
<1> HIDE DEF G
<1>5. \A i \in 0..n : i \in G
  BY <1>0, <1>3, <1>4, Induction
<1>6. f[n] = SubSeq(src, 1, n)
  <2>1. n \in G
    BY <1>0, <1>5
  <2> QED BY <2>1 DEF G
<1> QED BY <1>1, <1>6, SubSeqFull

\* What says the right thing and has nothing to escape is understood as it stands.
LEMMA UnmarkedUnderstood ==
  ASSUME NEW type, NEW cmd, NEW data, NEW w \in Seq(Byte), Unmarked(w), Says(w, type, cmd, data)
  PROVE  UnderstoodAs(w, type, cmd, data)
<1>1. PICK z : z = 0
  OBVIOUS
<1>2. Unescape(Escape(w), z) = w /\ Escape(w) = w
  BY EscapeRoundTrip, EscapeNothing
<1>3. \A i \in 2..(Len(w) - 1) : w[i] # \h7e
  <2>1. Len(w) \in Nat
    BY BytesOf
  <2> QED BY <2>1 DEF Unmarked
<1> QED BY <1>1, <1>2, <1>3 DEF UnderstoodAs

\* A frame in which nothing has to be escaped is understood without (sprd_com_nodata,
\* START_DATA of sprd_download).
LEMMA PlainUnderstood ==
  ASSUME NEW type, NEW cmd \in Byte, NEW data \in Seq(Byte), Len(data) < 65536,
         Unmarked(Frame(type, cmd, data))
  PROVE  UnderstoodAs(Frame(type, cmd, data), type, cmd, data)
<1>1. Frame(type, cmd, data) \in Seq(Byte)
  BY FrameIs
<1>2. Escape(Frame(type, cmd, data)) = Frame(type, cmd, data)
  BY <1>1, EscapeNothing
<1> QED BY <1>2, EscapedUnderstood

-----------------------------------------------------------------------------
(* The bits of a word *)

\* The values of the bits of a word.
Places == {1, 2, 4, 8, 16, 32, 64, 128, 256, 512, 1024, 2048, 4096, 8192, 16384, 32768}

\* The bit of a at a place.
Bit(a, place) == (a \div place) % 2

Bits == [Places -> {0, 1}]

\* What bits are worth.
Total(d) ==
  d[1] + 2 * d[2] + 4 * d[4] + 8 * d[8] +
  16 * d[16] + 32 * d[32] + 64 * d[64] + 128 * d[128] +
  256 * d[256] + 512 * d[512] + 1024 * d[1024] + 2048 * d[2048] +
  4096 * d[4096] + 8192 * d[8192] + 16384 * d[16384] + 32768 * d[32768]

\* A last binary digit and the others.
LEMMA Digit ==
  ASSUME NEW b \in {0, 1}, NEW h \in Nat, NEW n, n = b + 2 * h
  PROVE  n \in Nat /\ n % 2 = b /\ n \div 2 = h
OBVIOUS

\* Dividing by two again.
LEMMA HalveAgain ==
  ASSUME NEW n \in Nat
  PROVE  /\ n \div 1 = n /\ n \div 2 = (n \div 1) \div 2
         /\ n \div 4 = (n \div 2) \div 2
         /\ n \div 8 = (n \div 4) \div 2
         /\ n \div 16 = (n \div 8) \div 2
         /\ n \div 32 = (n \div 16) \div 2
         /\ n \div 64 = (n \div 32) \div 2
         /\ n \div 128 = (n \div 64) \div 2
         /\ n \div 256 = (n \div 128) \div 2
         /\ n \div 512 = (n \div 256) \div 2
         /\ n \div 1024 = (n \div 512) \div 2
         /\ n \div 2048 = (n \div 1024) \div 2
         /\ n \div 4096 = (n \div 2048) \div 2
         /\ n \div 8192 = (n \div 4096) \div 2
         /\ n \div 16384 = (n \div 8192) \div 2
         /\ n \div 32768 = (n \div 16384) \div 2
OBVIOUS

\* The bits of what digits are worth are these digits.
LEMMA TotalBits ==
  ASSUME NEW d \in Bits
  PROVE  Total(d) \in Word /\ \A place \in Places : Bit(Total(d), place) = d[place]
<1>d. PICK d0, d1, d2, d3, d4, d5, d6, d7, d8, d9, d10, d11, d12, d13, d14, d15 :
       /\ d0 = d[1] /\ d1 = d[2] /\ d2 = d[4] /\ d3 = d[8]
       /\ d4 = d[16] /\ d5 = d[32] /\ d6 = d[64] /\ d7 = d[128]
       /\ d8 = d[256] /\ d9 = d[512] /\ d10 = d[1024] /\ d11 = d[2048]
       /\ d12 = d[4096] /\ d13 = d[8192] /\ d14 = d[16384] /\ d15 = d[32768]
  OBVIOUS
<1>a. /\ d0 \in {0, 1} /\ d1 \in {0, 1} /\ d2 \in {0, 1} /\ d3 \in {0, 1}
      /\ d4 \in {0, 1} /\ d5 \in {0, 1} /\ d6 \in {0, 1} /\ d7 \in {0, 1}
      /\ d8 \in {0, 1} /\ d9 \in {0, 1} /\ d10 \in {0, 1} /\ d11 \in {0, 1}
      /\ d12 \in {0, 1} /\ d13 \in {0, 1} /\ d14 \in {0, 1} /\ d15 \in {0, 1}
  BY <1>d DEF Bits, Places
<1>top. PICK h15 \in Nat : h15 = d15
  BY <1>a
<1>h14. PICK h14 \in Nat : h14 = d14 + 2 * h15
  BY <1>a
<1>h13. PICK h13 \in Nat : h13 = d13 + 2 * h14
  BY <1>a
<1>h12. PICK h12 \in Nat : h12 = d12 + 2 * h13
  BY <1>a
<1>h11. PICK h11 \in Nat : h11 = d11 + 2 * h12
  BY <1>a
<1>h10. PICK h10 \in Nat : h10 = d10 + 2 * h11
  BY <1>a
<1>h9. PICK h9 \in Nat : h9 = d9 + 2 * h10
  BY <1>a
<1>h8. PICK h8 \in Nat : h8 = d8 + 2 * h9
  BY <1>a
<1>h7. PICK h7 \in Nat : h7 = d7 + 2 * h8
  BY <1>a
<1>h6. PICK h6 \in Nat : h6 = d6 + 2 * h7
  BY <1>a
<1>h5. PICK h5 \in Nat : h5 = d5 + 2 * h6
  BY <1>a
<1>h4. PICK h4 \in Nat : h4 = d4 + 2 * h5
  BY <1>a
<1>h3. PICK h3 \in Nat : h3 = d3 + 2 * h4
  BY <1>a
<1>h2. PICK h2 \in Nat : h2 = d2 + 2 * h3
  BY <1>a
<1>h1. PICK h1 \in Nat : h1 = d1 + 2 * h2
  BY <1>a
<1>h0. PICK h0 \in Nat : h0 = d0 + 2 * h1
  BY <1>a
<1> PICK n : n = Total(d)
  OBVIOUS
<1>n. n = d0 + 2 * d1 + 4 * d2 + 8 * d3 +
          16 * d4 + 32 * d5 + 64 * d6 + 128 * d7 +
          256 * d8 + 512 * d9 + 1024 * d10 + 2048 * d11 +
          4096 * d12 + 8192 * d13 + 16384 * d14 + 32768 * d15
  BY <1>d DEF Total
<1>z. n = h0 /\ n < 65536
  BY ONLY <1>n, <1>top, <1>h0, <1>h1, <1>h2, <1>h3, <1>h4, <1>h5, <1>h6, <1>h7, <1>h8, <1>h9,
          <1>h10, <1>h11, <1>h12, <1>h13, <1>h14, <1>a
<1>15. h15 % 2 = d15
  BY ONLY <1>top, <1>a
<1>14. h14 % 2 = d14 /\ h14 \div 2 = h15
  BY ONLY <1>h14, <1>a, h15 \in Nat, Digit
<1>13. h13 % 2 = d13 /\ h13 \div 2 = h14
  BY ONLY <1>h13, <1>a, h14 \in Nat, Digit
<1>12. h12 % 2 = d12 /\ h12 \div 2 = h13
  BY ONLY <1>h12, <1>a, h13 \in Nat, Digit
<1>11. h11 % 2 = d11 /\ h11 \div 2 = h12
  BY ONLY <1>h11, <1>a, h12 \in Nat, Digit
<1>10. h10 % 2 = d10 /\ h10 \div 2 = h11
  BY ONLY <1>h10, <1>a, h11 \in Nat, Digit
<1>9. h9 % 2 = d9 /\ h9 \div 2 = h10
  BY ONLY <1>h9, <1>a, h10 \in Nat, Digit
<1>8. h8 % 2 = d8 /\ h8 \div 2 = h9
  BY ONLY <1>h8, <1>a, h9 \in Nat, Digit
<1>7. h7 % 2 = d7 /\ h7 \div 2 = h8
  BY ONLY <1>h7, <1>a, h8 \in Nat, Digit
<1>6. h6 % 2 = d6 /\ h6 \div 2 = h7
  BY ONLY <1>h6, <1>a, h7 \in Nat, Digit
<1>5. h5 % 2 = d5 /\ h5 \div 2 = h6
  BY ONLY <1>h5, <1>a, h6 \in Nat, Digit
<1>4. h4 % 2 = d4 /\ h4 \div 2 = h5
  BY ONLY <1>h4, <1>a, h5 \in Nat, Digit
<1>3. h3 % 2 = d3 /\ h3 \div 2 = h4
  BY ONLY <1>h3, <1>a, h4 \in Nat, Digit
<1>2. h2 % 2 = d2 /\ h2 \div 2 = h3
  BY ONLY <1>h2, <1>a, h3 \in Nat, Digit
<1>1. h1 % 2 = d1 /\ h1 \div 2 = h2
  BY ONLY <1>h1, <1>a, h2 \in Nat, Digit
<1>0. h0 % 2 = d0 /\ h0 \div 2 = h1
  BY ONLY <1>h0, <1>a, h1 \in Nat, Digit
<1>e. n \in Nat /\ n \div 1 = h0
  BY ONLY <1>z, h0 \in Nat, HalveAgain
<1>e1. n \div 2 = h1
  BY ONLY <1>0, <1>e, HalveAgain
<1>e2. n \div 4 = h2
  BY ONLY <1>1, <1>e1, <1>e, HalveAgain
<1>e3. n \div 8 = h3
  BY ONLY <1>2, <1>e2, <1>e, HalveAgain
<1>e4. n \div 16 = h4
  BY ONLY <1>3, <1>e3, <1>e, HalveAgain
<1>e5. n \div 32 = h5
  BY ONLY <1>4, <1>e4, <1>e, HalveAgain
<1>e6. n \div 64 = h6
  BY ONLY <1>5, <1>e5, <1>e, HalveAgain
<1>e7. n \div 128 = h7
  BY ONLY <1>6, <1>e6, <1>e, HalveAgain
<1>e8. n \div 256 = h8
  BY ONLY <1>7, <1>e7, <1>e, HalveAgain
<1>e9. n \div 512 = h9
  BY ONLY <1>8, <1>e8, <1>e, HalveAgain
<1>e10. n \div 1024 = h10
  BY ONLY <1>9, <1>e9, <1>e, HalveAgain
<1>e11. n \div 2048 = h11
  BY ONLY <1>10, <1>e10, <1>e, HalveAgain
<1>e12. n \div 4096 = h12
  BY ONLY <1>11, <1>e11, <1>e, HalveAgain
<1>e13. n \div 8192 = h13
  BY ONLY <1>12, <1>e12, <1>e, HalveAgain
<1>e14. n \div 16384 = h14
  BY ONLY <1>13, <1>e13, <1>e, HalveAgain
<1>e15. n \div 32768 = h15
  BY ONLY <1>14, <1>e14, <1>e, HalveAgain
<1>b. \A place \in Places : Bit(n, place) = d[place]
  <2>0. Bit(n, 1) = d0
    BY ONLY <1>e, <1>0 DEF Bit
  <2>1. Bit(n, 2) = d1
    BY ONLY <1>e1, <1>1 DEF Bit
  <2>2. Bit(n, 4) = d2
    BY ONLY <1>e2, <1>2 DEF Bit
  <2>3. Bit(n, 8) = d3
    BY ONLY <1>e3, <1>3 DEF Bit
  <2>4. Bit(n, 16) = d4
    BY ONLY <1>e4, <1>4 DEF Bit
  <2>5. Bit(n, 32) = d5
    BY ONLY <1>e5, <1>5 DEF Bit
  <2>6. Bit(n, 64) = d6
    BY ONLY <1>e6, <1>6 DEF Bit
  <2>7. Bit(n, 128) = d7
    BY ONLY <1>e7, <1>7 DEF Bit
  <2>8. Bit(n, 256) = d8
    BY ONLY <1>e8, <1>8 DEF Bit
  <2>9. Bit(n, 512) = d9
    BY ONLY <1>e9, <1>9 DEF Bit
  <2>10. Bit(n, 1024) = d10
    BY ONLY <1>e10, <1>10 DEF Bit
  <2>11. Bit(n, 2048) = d11
    BY ONLY <1>e11, <1>11 DEF Bit
  <2>12. Bit(n, 4096) = d12
    BY ONLY <1>e12, <1>12 DEF Bit
  <2>13. Bit(n, 8192) = d13
    BY ONLY <1>e13, <1>13 DEF Bit
  <2>14. Bit(n, 16384) = d14
    BY ONLY <1>e14, <1>14 DEF Bit
  <2>15. Bit(n, 32768) = d15
    BY ONLY <1>e15, <1>15 DEF Bit
  <2> QED BY ONLY <1>d, <2>0, <2>1, <2>2, <2>3, <2>4, <2>5, <2>6, <2>7, <2>8, <2>9, <2>10, <2>11,
                  <2>12, <2>13, <2>14, <2>15, SMTT(60) DEF Places
<1> QED BY <1>z, <1>e, <1>b, WordIs

\* A word is what its bits are worth.
LEMMA WordTotal ==
  ASSUME NEW a \in Word
  PROVE  [place \in Places |-> Bit(a, place)] \in Bits
         /\ a = Total([place \in Places |-> Bit(a, place)])
<1>1. a \in Nat /\ a < 65536
  BY WordIs
<1> DEFINE d == [place \in Places |-> Bit(a, place)]
<1>2. PICK q0, q1, q2, q3, q4, q5, q6, q7, q8, q9, q10, q11, q12, q13, q14, q15 :
       /\ q0 = a \div 1 /\ q1 = a \div 2 /\ q2 = a \div 4 /\ q3 = a \div 8
       /\ q4 = a \div 16 /\ q5 = a \div 32 /\ q6 = a \div 64 /\ q7 = a \div 128
       /\ q8 = a \div 256 /\ q9 = a \div 512 /\ q10 = a \div 1024 /\ q11 = a \div 2048
       /\ q12 = a \div 4096 /\ q13 = a \div 8192 /\ q14 = a \div 16384 /\ q15 = a \div 32768
  OBVIOUS
<1>a. /\ q0 \in Nat /\ q1 \in Nat /\ q2 \in Nat /\ q3 \in Nat
      /\ q4 \in Nat /\ q5 \in Nat /\ q6 \in Nat /\ q7 \in Nat
      /\ q8 \in Nat /\ q9 \in Nat /\ q10 \in Nat /\ q11 \in Nat
      /\ q12 \in Nat /\ q13 \in Nat /\ q14 \in Nat /\ q15 \in Nat
  BY <1>1, <1>2
<1>3. /\ d[1] = q0 % 2 /\ d[2] = q1 % 2 /\ d[4] = q2 % 2 /\ d[8] = q3 % 2
      /\ d[16] = q4 % 2 /\ d[32] = q5 % 2 /\ d[64] = q6 % 2 /\ d[128] = q7 % 2
      /\ d[256] = q8 % 2 /\ d[512] = q9 % 2 /\ d[1024] = q10 % 2 /\ d[2048] = q11 % 2
      /\ d[4096] = q12 % 2 /\ d[8192] = q13 % 2 /\ d[16384] = q14 % 2 /\ d[32768] = q15 % 2
  BY <1>2 DEF Places, Bit
<1>4. d \in Bits
  <2>1. \A place \in Places : a \div place \in Nat
    BY <1>1, Z3 DEF Places
  <2>2. \A n \in Nat : n % 2 \in {0, 1}
    OBVIOUS
  <2> QED BY <2>1, <2>2 DEF Bits, Bit
<1>5. /\ q0 = a /\ q15 < 2
      /\ q1 = q0 \div 2 /\ q2 = q1 \div 2 /\ q3 = q2 \div 2 /\ q4 = q3 \div 2
      /\ q5 = q4 \div 2 /\ q6 = q5 \div 2 /\ q7 = q6 \div 2 /\ q8 = q7 \div 2
      /\ q9 = q8 \div 2 /\ q10 = q9 \div 2 /\ q11 = q10 \div 2 /\ q12 = q11 \div 2
      /\ q13 = q12 \div 2 /\ q14 = q13 \div 2 /\ q15 = q14 \div 2
  BY ONLY <1>1, <1>2, HalveAgain
<1>6. \A n \in Nat : n = (n % 2) + 2 * (n \div 2) /\ (n < 2 => n = n % 2)
  OBVIOUS
<1>7. PICK e0, e1, e2, e3, e4, e5, e6, e7, e8, e9, e10, e11, e12, e13, e14, e15 :
       /\ e0 = q0 % 2 /\ e1 = q1 % 2 /\ e2 = q2 % 2 /\ e3 = q3 % 2
       /\ e4 = q4 % 2 /\ e5 = q5 % 2 /\ e6 = q6 % 2 /\ e7 = q7 % 2
       /\ e8 = q8 % 2 /\ e9 = q9 % 2 /\ e10 = q10 % 2 /\ e11 = q11 % 2
       /\ e12 = q12 % 2 /\ e13 = q13 % 2 /\ e14 = q14 % 2 /\ e15 = q15 % 2
  OBVIOUS
<1>b. /\ e0 \in Nat /\ e1 \in Nat /\ e2 \in Nat /\ e3 \in Nat
      /\ e4 \in Nat /\ e5 \in Nat /\ e6 \in Nat /\ e7 \in Nat
      /\ e8 \in Nat /\ e9 \in Nat /\ e10 \in Nat /\ e11 \in Nat
      /\ e12 \in Nat /\ e13 \in Nat /\ e14 \in Nat /\ e15 \in Nat
  BY <1>a, <1>7
<1>8. /\ q15 = e15
      /\ q0 = e0 + 2 * q1 /\ q1 = e1 + 2 * q2 /\ q2 = e2 + 2 * q3
      /\ q3 = e3 + 2 * q4 /\ q4 = e4 + 2 * q5 /\ q5 = e5 + 2 * q6
      /\ q6 = e6 + 2 * q7 /\ q7 = e7 + 2 * q8 /\ q8 = e8 + 2 * q9
      /\ q9 = e9 + 2 * q10 /\ q10 = e10 + 2 * q11 /\ q11 = e11 + 2 * q12
      /\ q12 = e12 + 2 * q13 /\ q13 = e13 + 2 * q14 /\ q14 = e14 + 2 * q15
  <2>0. q0 = e0 + 2 * q1
    BY ONLY <1>5, <1>6, <1>7, <1>a, Zenon
  <2>1. q1 = e1 + 2 * q2
    BY ONLY <1>5, <1>6, <1>7, <1>a, Zenon
  <2>2. q2 = e2 + 2 * q3
    BY ONLY <1>5, <1>6, <1>7, <1>a, Zenon
  <2>3. q3 = e3 + 2 * q4
    BY ONLY <1>5, <1>6, <1>7, <1>a, Zenon
  <2>4. q4 = e4 + 2 * q5
    BY ONLY <1>5, <1>6, <1>7, <1>a, Zenon
  <2>5. q5 = e5 + 2 * q6
    BY ONLY <1>5, <1>6, <1>7, <1>a, Zenon
  <2>6. q6 = e6 + 2 * q7
    BY ONLY <1>5, <1>6, <1>7, <1>a, Zenon
  <2>7. q7 = e7 + 2 * q8
    BY ONLY <1>5, <1>6, <1>7, <1>a, Zenon
  <2>8. q8 = e8 + 2 * q9
    BY ONLY <1>5, <1>6, <1>7, <1>a, Zenon
  <2>9. q9 = e9 + 2 * q10
    BY ONLY <1>5, <1>6, <1>7, <1>a, Zenon
  <2>10. q10 = e10 + 2 * q11
    BY ONLY <1>5, <1>6, <1>7, <1>a, Zenon
  <2>11. q11 = e11 + 2 * q12
    BY ONLY <1>5, <1>6, <1>7, <1>a, Zenon
  <2>12. q12 = e12 + 2 * q13
    BY ONLY <1>5, <1>6, <1>7, <1>a, Zenon
  <2>13. q13 = e13 + 2 * q14
    BY ONLY <1>5, <1>6, <1>7, <1>a, Zenon
  <2>14. q14 = e14 + 2 * q15
    BY ONLY <1>5, <1>6, <1>7, <1>a, Zenon
  <2>15. q15 = e15
    BY ONLY <1>5, <1>6, <1>7, <1>a, Zenon
  <2> QED BY <2>0, <2>1, <2>2, <2>3, <2>4, <2>5, <2>6, <2>7, <2>8, <2>9, <2>10, <2>11, <2>12,
             <2>13, <2>14, <2>15
<1>9. a = e0 + 2 * e1 + 4 * e2 + 8 * e3 +
          16 * e4 + 32 * e5 + 64 * e6 + 128 * e7 +
          256 * e8 + 512 * e9 + 1024 * e10 + 2048 * e11 +
          4096 * e12 + 8192 * e13 + 16384 * e14 + 32768 * e15
  <2>1. q12 = e12 + 2 * e13 + 4 * e14 + 8 * e15
    BY ONLY <1>8, <1>b
  <2>2. q8 = e8 + 2 * e9 + 4 * e10 + 8 * e11 + 16 * q12
    BY ONLY <1>8, <1>a, <1>b
  <2>3. q4 = e4 + 2 * e5 + 4 * e6 + 8 * e7 + 16 * q8
    BY ONLY <1>8, <1>a, <1>b
  <2>4. a = e0 + 2 * e1 + 4 * e2 + 8 * e3 + 16 * q4
    <3>1. q0 = a
      BY <1>5, Zenon
    <3>2. q0 = e0 + 2 * e1 + 4 * e2 + 8 * e3 + 16 * q4
      BY ONLY <1>8, <1>a, <1>b
    <3> QED BY <3>1, <3>2
  <2>5. q8 = e8 + 2 * e9 + 4 * e10 + 8 * e11 +
             16 * e12 + 32 * e13 + 64 * e14 + 128 * e15
    BY ONLY <2>1, <2>2, <1>b
  <2>6. a = e0 + 2 * e1 + 4 * e2 + 8 * e3 +
            16 * e4 + 32 * e5 + 64 * e6 + 128 * e7 + 256 * q8
    BY ONLY <2>3, <2>4, <1>a, <1>b
  <2> QED BY ONLY <2>5, <2>6, <1>b
<1> HIDE DEF d
<1>10. /\ d[1] = e0 /\ d[2] = e1 /\ d[4] = e2 /\ d[8] = e3
       /\ d[16] = e4 /\ d[32] = e5 /\ d[64] = e6 /\ d[128] = e7
       /\ d[256] = e8 /\ d[512] = e9 /\ d[1024] = e10 /\ d[2048] = e11
       /\ d[4096] = e12 /\ d[8192] = e13 /\ d[16384] = e14 /\ d[32768] = e15
  BY <1>3, <1>7
<1>11. a = Total(d)
  BY <1>9, <1>10 DEF Total
<1> QED BY <1>4, <1>11, Zenon DEF d

\* Words of the same bits are the same.
LEMMA SameBits ==
  ASSUME NEW a \in Word, NEW b \in Word, \A place \in Places : Bit(a, place) = Bit(b, place)
  PROVE  a = b
<1>1. [place \in Places |-> Bit(a, place)] = [place \in Places |-> Bit(b, place)]
  OBVIOUS
<1> QED BY <1>1, WordTotal

\* Where two numbers differ.
Differing(a, b) == [place \in Places |-> (a \div place + b \div place) % 2]

\* The exclusive or is what the bits are worth in which its arguments differ.
LEMMA XorTotal ==
  ASSUME NEW a \in Nat, NEW b \in Nat
  PROVE  Differing(a, b) \in Bits /\ Xor[a][b] = Total(Differing(a, b))
<1>1. \A place \in Places : a \div place \in Nat /\ b \div place \in Nat
  BY Z3 DEF Places
<1>2. \A m \in Nat, n \in Nat : (m + n) % 2 \in {0, 1}
  OBVIOUS
<1>3. Differing(a, b) \in Bits
  BY <1>1, <1>2 DEF Differing, Bits
<1>4. /\ Differ(a, b, 1) = 1 * Differing(a, b)[1]
      /\ Differ(a, b, 2) = 2 * Differing(a, b)[2]
      /\ Differ(a, b, 4) = 4 * Differing(a, b)[4]
      /\ Differ(a, b, 8) = 8 * Differing(a, b)[8]
      /\ Differ(a, b, 16) = 16 * Differing(a, b)[16]
      /\ Differ(a, b, 32) = 32 * Differing(a, b)[32]
      /\ Differ(a, b, 64) = 64 * Differing(a, b)[64]
      /\ Differ(a, b, 128) = 128 * Differing(a, b)[128]
      /\ Differ(a, b, 256) = 256 * Differing(a, b)[256]
      /\ Differ(a, b, 512) = 512 * Differing(a, b)[512]
      /\ Differ(a, b, 1024) = 1024 * Differing(a, b)[1024]
      /\ Differ(a, b, 2048) = 2048 * Differing(a, b)[2048]
      /\ Differ(a, b, 4096) = 4096 * Differing(a, b)[4096]
      /\ Differ(a, b, 8192) = 8192 * Differing(a, b)[8192]
      /\ Differ(a, b, 16384) = 16384 * Differing(a, b)[16384]
      /\ Differ(a, b, 32768) = 32768 * Differing(a, b)[32768]
  BY DEF Differ, Differing, Places
<1>5. /\ Differing(a, b)[1] \in Nat /\ Differing(a, b)[2] \in Nat
      /\ Differing(a, b)[4] \in Nat /\ Differing(a, b)[8] \in Nat
      /\ Differing(a, b)[16] \in Nat /\ Differing(a, b)[32] \in Nat
      /\ Differing(a, b)[64] \in Nat /\ Differing(a, b)[128] \in Nat
      /\ Differing(a, b)[256] \in Nat /\ Differing(a, b)[512] \in Nat
      /\ Differing(a, b)[1024] \in Nat /\ Differing(a, b)[2048] \in Nat
      /\ Differing(a, b)[4096] \in Nat /\ Differing(a, b)[8192] \in Nat
      /\ Differing(a, b)[16384] \in Nat /\ Differing(a, b)[32768] \in Nat
  BY <1>3 DEF Bits, Places
<1>6. Xor[a][b] = Differ(a, b, 1) + Differ(a, b, 2) + Differ(a, b, 4) + Differ(a, b, 8) +
                  Differ(a, b, 16) + Differ(a, b, 32) + Differ(a, b, 64) + Differ(a, b, 128) +
                  Differ(a, b, 256) + Differ(a, b, 512) + Differ(a, b, 1024) + Differ(a, b, 2048) +
                  Differ(a, b, 4096) + Differ(a, b, 8192) + Differ(a, b, 16384) + Differ(a, b, 32768)
  BY DEF Xor
<1> QED BY <1>3, <1>4, <1>5, <1>6 DEF Total

\* Bit by bit.
LEMMA XorBits ==
  ASSUME NEW a \in Nat, NEW b \in Nat
  PROVE  \A place \in Places : Bit(Xor[a][b], place) = (Bit(a, place) + Bit(b, place)) % 2
<1> SUFFICES ASSUME NEW place \in Places
             PROVE  Bit(Xor[a][b], place) = (Bit(a, place) + Bit(b, place)) % 2
  OBVIOUS
<1>1. Bit(Xor[a][b], place) = (a \div place + b \div place) % 2
  <2>1. Differing(a, b) \in Bits /\ Xor[a][b] = Total(Differing(a, b))
    BY XorTotal
  <2>2. Bit(Total(Differing(a, b)), place) = Differing(a, b)[place]
    BY <2>1, TotalBits
  <2> QED BY <2>1, <2>2 DEF Differing
<1>2. a \div place \in Nat /\ b \div place \in Nat
  BY Z3 DEF Places
<1>3. \A m \in Nat, n \in Nat : (m + n) % 2 = ((m % 2) + (n % 2)) % 2
  OBVIOUS
<1> QED BY <1>1, <1>2, <1>3 DEF Bit

\* A bit is 0 or 1.
LEMMA BitIs == \A a \in Nat, place \in Places : Bit(a, place) \in {0, 1}
<1>1. \A a \in Nat, place \in Places : a \div place \in Nat
  BY Z3 DEF Places
<1>2. \A n \in Nat : n % 2 \in {0, 1}
  OBVIOUS
<1> QED BY <1>1, <1>2 DEF Bit

\* A word is a natural number.
LEMMA WordNat == \A w \in Word : w \in Nat
BY WordIs

-----------------------------------------------------------------------------
(* The group of words *)

\* The exclusive or does not depend on the order.
LEMMA XorSwaps ==
  ASSUME NEW a \in Word, NEW b \in Word
  PROVE  Xor[a][b] = Xor[b][a]
<1>1. \A place \in Places : Bit(Xor[a][b], place) = Bit(Xor[b][a], place)
  BY WordNat, XorBits, BitIs
<1>2. Xor[a][b] \in Word /\ Xor[b][a] \in Word
  BY WordNat, XorWord
<1> QED BY <1>1, <1>2, SameBits

\* Nor on the grouping.
LEMMA XorGroups ==
  ASSUME NEW a \in Word, NEW b \in Word, NEW c \in Word
  PROVE  Xor[Xor[a][b]][c] = Xor[a][Xor[b][c]]
<1>1. Xor[a][b] \in Word /\ Xor[b][c] \in Word
  BY WordNat, XorWord
<1>2. Xor[Xor[a][b]][c] \in Word /\ Xor[a][Xor[b][c]] \in Word
  BY <1>1, WordNat, XorWord
<1>3. ASSUME NEW place \in Places
      PROVE  Bit(Xor[Xor[a][b]][c], place) = Bit(Xor[a][Xor[b][c]], place)
  <2>1. /\ Bit(Xor[Xor[a][b]][c], place) = (((Bit(a, place) + Bit(b, place)) % 2) + Bit(c, place)) % 2
        /\ Bit(Xor[a][Xor[b][c]], place) = (Bit(a, place) + ((Bit(b, place) + Bit(c, place)) % 2)) % 2
    <3>1. /\ Bit(Xor[Xor[a][b]][c], place) = (Bit(Xor[a][b], place) + Bit(c, place)) % 2
          /\ Bit(Xor[a][Xor[b][c]], place) = (Bit(a, place) + Bit(Xor[b][c], place)) % 2
      BY <1>1, WordNat, XorBits
    <3>2. /\ Bit(Xor[a][b], place) = (Bit(a, place) + Bit(b, place)) % 2
          /\ Bit(Xor[b][c], place) = (Bit(b, place) + Bit(c, place)) % 2
      BY WordNat, XorBits
    <3> QED BY <3>1, <3>2
  <2>2. Bit(a, place) \in {0, 1} /\ Bit(b, place) \in {0, 1} /\ Bit(c, place) \in {0, 1}
    BY WordNat, BitIs
  <2> QED BY <2>1, <2>2
<1> QED BY <1>2, <1>3, SameBits

\* 0 changes nothing, and two equal words cancel.
LEMMA XorZero ==
  ASSUME NEW a \in Word
  PROVE  Xor[0][a] = a
<1>1. 0 \in Word /\ \A place \in Places : Bit(0, place) = 0
  BY DEF Word, Places, Bit
<1>2. Xor[0][a] \in Word
  BY <1>1, WordNat, XorWord
<1>3. ASSUME NEW place \in Places PROVE Bit(Xor[0][a], place) = Bit(a, place)
  <2>1. Bit(Xor[0][a], place) = (0 + Bit(a, place)) % 2
    BY <1>1, WordNat, XorBits
  <2>2. Bit(a, place) \in {0, 1}
    BY WordNat, BitIs
  <2> QED BY <2>1, <2>2
<1> QED BY <1>2, <1>3, SameBits

-----------------------------------------------------------------------------
(* Polynomials: the exclusive or, shifted *)

\* A word shifted to the left.
Twice(a) == (a * 2) % 65536

\* Its bits.
LEMMA TwiceBits ==
  ASSUME NEW a \in Word
  PROVE  /\ Twice(a) \in Word
         /\ Bit(Twice(a), 1) = 0
         /\ \A place \in Places \ {1} :
              place \div 2 \in Places /\ Bit(Twice(a), place) = Bit(a, place \div 2)
<1>1. a \in Nat /\ a < 65536
  BY WordIs
<1>2. PICK n : n = Twice(a)
  OBVIOUS
<1>3. n \in Nat /\ n < 65536 /\ (n = 2 * a \/ n = 2 * a - 65536)
  BY <1>1, <1>2 DEF Twice
<1>4. (n \div 1) % 2 = 0
  BY <1>1, <1>3
<1>b1. (n \div 2) % 2 = (a \div 1) % 2
  BY ONLY <1>1, <1>3
<1>b2. (n \div 4) % 2 = (a \div 2) % 2
  BY ONLY <1>1, <1>3
<1>b3. (n \div 8) % 2 = (a \div 4) % 2
  BY ONLY <1>1, <1>3
<1>b4. (n \div 16) % 2 = (a \div 8) % 2
  BY ONLY <1>1, <1>3
<1>b5. (n \div 32) % 2 = (a \div 16) % 2
  BY ONLY <1>1, <1>3
<1>b6. (n \div 64) % 2 = (a \div 32) % 2
  BY ONLY <1>1, <1>3
<1>b7. (n \div 128) % 2 = (a \div 64) % 2
  BY ONLY <1>1, <1>3
<1>b8. (n \div 256) % 2 = (a \div 128) % 2
  BY ONLY <1>1, <1>3
<1>b9. (n \div 512) % 2 = (a \div 256) % 2
  BY ONLY <1>1, <1>3
<1>b10. (n \div 1024) % 2 = (a \div 512) % 2
  BY ONLY <1>1, <1>3
<1>b11. (n \div 2048) % 2 = (a \div 1024) % 2
  BY ONLY <1>1, <1>3
<1>b12. (n \div 4096) % 2 = (a \div 2048) % 2
  BY ONLY <1>1, <1>3
<1>b13. (n \div 8192) % 2 = (a \div 4096) % 2
  BY ONLY <1>1, <1>3
<1>b14. (n \div 16384) % 2 = (a \div 8192) % 2
  BY ONLY <1>1, <1>3
<1>b15. (n \div 32768) % 2 = (a \div 16384) % 2
  BY ONLY <1>1, <1>3
<1>5. ASSUME NEW place \in Places \ {1}
      PROVE  place \div 2 \in Places /\ (n \div place) % 2 = (a \div (place \div 2)) % 2
  BY <1>b1, <1>b2, <1>b3, <1>b4, <1>b5, <1>b6, <1>b7, <1>b8, <1>b9, <1>b10, <1>b11, <1>b12,
     <1>b13, <1>b14, <1>b15 DEF Places
<1> QED BY <1>2, <1>3, <1>4, <1>5, WordIs DEF Bit

\* Shifting commutes with the exclusive or.
LEMMA TwiceXor ==
  ASSUME NEW a \in Word, NEW b \in Word
  PROVE  Twice(Xor[a][b]) = Xor[Twice(a)][Twice(b)]
<1>1. Xor[a][b] \in Word /\ Twice(a) \in Word /\ Twice(b) \in Word
  BY WordNat, XorWord, TwiceBits
<1>2. Twice(Xor[a][b]) \in Word /\ Xor[Twice(a)][Twice(b)] \in Word
  BY <1>1, WordNat, XorWord, TwiceBits
<1>3. ASSUME NEW place \in Places
      PROVE  Bit(Twice(Xor[a][b]), place) = Bit(Xor[Twice(a)][Twice(b)], place)
  <2>1. Bit(Xor[Twice(a)][Twice(b)], place) = (Bit(Twice(a), place) + Bit(Twice(b), place)) % 2
    BY <1>1, WordNat, XorBits
  <2>2. CASE place = 1
    <3>1. Bit(Twice(Xor[a][b]), 1) = 0 /\ Bit(Twice(a), 1) = 0 /\ Bit(Twice(b), 1) = 0
      BY <1>1, TwiceBits
    <3> QED BY <2>1, <2>2, <3>1
  <2>3. CASE place # 1
    <3>1. PICK half \in Places : half = place \div 2
      BY <2>3, TwiceBits
    <3>2. /\ Bit(Twice(a), place) = Bit(a, half) /\ Bit(Twice(b), place) = Bit(b, half)
          /\ Bit(Twice(Xor[a][b]), place) = Bit(Xor[a][b], half)
      BY <1>1, <2>3, <3>1, TwiceBits
    <3>3. Bit(Xor[a][b], half) = (Bit(a, half) + Bit(b, half)) % 2
      BY WordNat, XorBits
    <3> QED BY <2>1, <3>2, <3>3
  <2> QED BY <2>2, <2>3
<1> QED BY <1>2, <1>3, SameBits

\* Two pairs of words may be exchanged.
LEMMA XorExchange ==
  ASSUME NEW a \in Word, NEW b \in Word, NEW c \in Word, NEW d \in Word
  PROVE  Xor[Xor[a][b]][Xor[c][d]] = Xor[Xor[a][c]][Xor[b][d]]
<1>1. Xor[a][b] \in Word /\ Xor[c][d] \in Word /\ Xor[a][c] \in Word /\ Xor[b][d] \in Word
  BY WordNat, XorWord
<1>2. Xor[Xor[a][b]][Xor[c][d]] \in Word /\ Xor[Xor[a][c]][Xor[b][d]] \in Word
  BY <1>1, WordNat, XorWord
<1>3. ASSUME NEW place \in Places
      PROVE  Bit(Xor[Xor[a][b]][Xor[c][d]], place) = Bit(Xor[Xor[a][c]][Xor[b][d]], place)
  <2>1. /\ Bit(Xor[Xor[a][b]][Xor[c][d]], place) = (Bit(Xor[a][b], place) + Bit(Xor[c][d], place)) % 2
        /\ Bit(Xor[Xor[a][c]][Xor[b][d]], place) = (Bit(Xor[a][c], place) + Bit(Xor[b][d], place)) % 2
    BY <1>1, WordNat, XorBits
  <2>2. /\ Bit(Xor[a][b], place) = (Bit(a, place) + Bit(b, place)) % 2
        /\ Bit(Xor[c][d], place) = (Bit(c, place) + Bit(d, place)) % 2
        /\ Bit(Xor[a][c], place) = (Bit(a, place) + Bit(c, place)) % 2
        /\ Bit(Xor[b][d], place) = (Bit(b, place) + Bit(d, place)) % 2
    BY WordNat, XorBits
  <2>3. /\ Bit(a, place) \in {0, 1} /\ Bit(b, place) \in {0, 1}
        /\ Bit(c, place) \in {0, 1} /\ Bit(d, place) \in {0, 1}
    BY WordNat, BitIs
  <2> QED BY <2>1, <2>2, <2>3
<1> QED BY <1>2, <1>3, SameBits

-----------------------------------------------------------------------------
(* The division is linear *)

\* What is subtracted in a step of the division.
Subtracted(a) == IF Bit(a, 32768) = 1 THEN Poly ELSE 0

\* A step shifts and subtracts.
LEMMA DivideIs ==
  ASSUME NEW a \in Word
  PROVE  /\ Divide(a) = Xor[Twice(a)][Subtracted(a)]
         /\ Twice(a) \in Word /\ Subtracted(a) \in Word /\ Divide(a) \in Word
<1>1. a \in Nat /\ a < 65536
  BY WordIs
<1>2. Bit(a, 32768) = 1 <=> a >= 32768
  BY <1>1 DEF Bit
<1>3. Twice(a) \in Word
  BY TwiceBits
<1>4. Poly \in Word /\ 0 \in Word
  BY DEF Poly, Word
<1>5. CASE a >= 32768
  <2>1. Subtracted(a) = Poly
    BY <1>2, <1>5 DEF Subtracted
  <2>2. Divide(a) = Xor[Twice(a)][Poly]
    BY <1>5 DEF Divide, Twice
  <2> QED BY <1>3, <1>4, <2>1, <2>2, WordNat, XorWord
<1>6. CASE a < 32768
  <2>1. Subtracted(a) = 0
    BY <1>1, <1>2, <1>6 DEF Subtracted
  <2>2. Divide(a) = Twice(a)
    BY <1>1, <1>6 DEF Divide, Twice
  <2>3. Xor[Twice(a)][0] = Twice(a)
    BY <1>3, <1>4, XorSwaps, XorZero
  <2> QED BY <1>3, <1>4, <2>1, <2>2, <2>3
<1> QED BY <1>1, <1>5, <1>6

\* So does a step for the exclusive or of two words.
LEMMA SubtractedXor ==
  ASSUME NEW a \in Word, NEW b \in Word
  PROVE  Subtracted(Xor[a][b]) = Xor[Subtracted(a)][Subtracted(b)]
<1>1. 32768 \in Places
  BY DEF Places
<1>2. Bit(Xor[a][b], 32768) = (Bit(a, 32768) + Bit(b, 32768)) % 2
  BY <1>1, WordNat, XorBits
<1>3. Bit(a, 32768) \in {0, 1} /\ Bit(b, 32768) \in {0, 1}
  BY <1>1, WordNat, BitIs
<1>4. Poly \in Word /\ 0 \in Word
  BY DEF Poly, Word
<1>5. Xor[0][0] = 0 /\ Xor[0][Poly] = Poly /\ Xor[Poly][0] = Poly
  BY <1>4, XorSwaps, XorZero
<1>6. Xor[Poly][Poly] = 0
  BY DEF Poly, Xor, Differ
<1>7. CASE Bit(a, 32768) = 0 /\ Bit(b, 32768) = 0
  BY <1>2, <1>5, <1>7 DEF Subtracted
<1>8. CASE Bit(a, 32768) = 0 /\ Bit(b, 32768) = 1
  BY <1>2, <1>5, <1>8 DEF Subtracted
<1>9. CASE Bit(a, 32768) = 1 /\ Bit(b, 32768) = 0
  BY <1>2, <1>5, <1>9 DEF Subtracted
<1>10. CASE Bit(a, 32768) = 1 /\ Bit(b, 32768) = 1
  BY <1>2, <1>6, <1>10 DEF Subtracted
<1> QED BY <1>3, <1>7, <1>8, <1>9, <1>10

\* The step of an exclusive or is the exclusive or of the steps.
LEMMA DivideXor ==
  ASSUME NEW a \in Word, NEW b \in Word
  PROVE  Divide(Xor[a][b]) = Xor[Divide(a)][Divide(b)]
<1>1. Xor[a][b] \in Word
  BY WordNat, XorWord
<1>2. Divide(Xor[a][b]) = Xor[Twice(Xor[a][b])][Subtracted(Xor[a][b])]
  BY <1>1, DivideIs
<1>3. @ = Xor[Xor[Twice(a)][Twice(b)]][Xor[Subtracted(a)][Subtracted(b)]]
  BY TwiceXor, SubtractedXor
<1>4. @ = Xor[Xor[Twice(a)][Subtracted(a)]][Xor[Twice(b)][Subtracted(b)]]
  BY DivideIs, XorExchange
<1>5. @ = Xor[Divide(a)][Divide(b)]
  BY DivideIs
<1> QED BY <1>2, <1>3, <1>4, <1>5

-----------------------------------------------------------------------------
(* Eight steps *)

\* What eight steps of the division leave.
Left(r) == Divide(Divide(Divide(Divide(Divide(Divide(Divide(Divide(r))))))))

\* f[i] is what i steps leave.
Lefts(f, r) == f \in [0..8 -> Word] /\ f[0] = r /\ \A i \in 1..8 : f[i] = Divide(f[i - 1])

\* Eight steps, one by one.
LEMMA LeftsLeft ==
  ASSUME NEW r, NEW f, Lefts(f, r)
  PROVE  f[8] = Left(r)
<1>1. /\ f[0] = r /\ f[1] = Divide(f[0]) /\ f[2] = Divide(f[1]) /\ f[3] = Divide(f[2])
      /\ f[4] = Divide(f[3]) /\ f[5] = Divide(f[4]) /\ f[6] = Divide(f[5])
      /\ f[7] = Divide(f[6]) /\ f[8] = Divide(f[7])
  BY DEF Lefts
<1> QED BY <1>1, Zenon DEF Left

\* ByteRemainder takes eight steps.
LEMMA ByteRemainderIs ==
  ASSUME NEW c \in Word, NEW b \in Byte
  PROVE  ByteRemainder(c, b) = Left(Xor[c][b * 256])
<1> DEFINE r == Xor[c][b * 256]
<1>1. b * 256 \in Nat /\ b * 256 < 65536
  BY DEF Byte
<1>2. r \in Word
  BY <1>1, WordNat, XorWord
<1> DEFINE step == [i \in 1..8 |-> [w \in Word |-> Divide(w)]]
<1>3. step \in Steps(8, Word)
  BY DivideIs DEF Steps
<1>4. \A i \in 1..8, w \in Word : step[i][w] = Divide(w)
  OBVIOUS
<1> DEFINE Eq(g) == [bits \in 0..8 |-> IF bits = 0 THEN Xor[c][b * 256] ELSE Divide(g[bits - 1])]
           after == CHOOSE g : g = Eq(g)
<1> HIDE DEF step
<1>5. PICK f : Follows(f, 8, Word, r, step)
  BY <1>2, <1>3, Recursion
<1>6. f = Eq(f)
  BY <1>4, <1>5 DEF Follows
<1>7. after = Eq(after)
  <2> HIDE DEF Eq
  <2> QED BY <1>6
<1>8. ByteRemainder(c, b) = after[8]
  BY DEF ByteRemainder
<1> HIDE DEF after
<1>9. Unfolds(after, 8, Word, r, step)
  BY <1>7, <1>4 DEF Unfolds
<1> HIDE DEF r
<1>10. Follows(after, 8, Word, r, step)
  BY <1>2, <1>3, <1>9, UnfoldsFollows
<1>11. Lefts(after, r)
  <2>1. after \in [0..8 -> Word] /\ after[0] = r /\ \A i \in 1..8 : after[i] = step[i][after[i - 1]]
    BY <1>10 DEF Follows
  <2>2. ASSUME NEW i \in 1..8 PROVE after[i] = Divide(after[i - 1])
    <3>1. after[i - 1] \in Word
      BY <2>1
    <3> QED BY <3>1, <2>1, <1>4
  <2> QED BY <2>1, <2>2 DEF Lefts
<1> QED BY <1>8, <1>11, LeftsLeft DEF r

\* c is the exclusive or of a and b.
IsXor(a, b, c) == a \in Word /\ b \in Word /\ c = Xor[a][b]

\* It stays so in a step.
LEMMA DivideIsXor == \A a, b, c : IsXor(a, b, c) => IsXor(Divide(a), Divide(b), Divide(c))
BY DivideIs, DivideXor DEF IsXor

\* Eight steps leave a word, and are linear as one is.
LEMMA LeftXor ==
  ASSUME NEW a \in Word, NEW b \in Word
  PROVE  Left(a) \in Word /\ Left(Xor[a][b]) = Xor[Left(a)][Left(b)]
<1>1. IsXor(a, b, Xor[a][b])
  BY DEF IsXor
<1>2. IsXor(Left(a), Left(b), Left(Xor[a][b]))
  BY <1>1, DivideIsXor DEF Left
<1> QED BY <1>2 DEF IsXor

\* A byte is shifted into the upper half.
LEMMA LeftByte ==
  ASSUME NEW b \in Byte
  PROVE  Left(b) = b * 256
<1>1. \A n \in Nat : n < 32768 => Divide(n) = n * 2
  BY DEF Divide
<1>2. b \in Nat /\ b < 256
  BY ByteNat
<1>3. /\ Divide(b) = b * 2 /\ Divide(b * 2) = b * 4 /\ Divide(b * 4) = b * 8
      /\ Divide(b * 8) = b * 16 /\ Divide(b * 16) = b * 32 /\ Divide(b * 32) = b * 64
      /\ Divide(b * 64) = b * 128 /\ Divide(b * 128) = b * 256
  BY <1>1, <1>2
<1>4. PICK x1, x2, x3, x4, x5, x6, x7, x8 :
        /\ x1 = b * 2 /\ x2 = b * 4 /\ x3 = b * 8 /\ x4 = b * 16
        /\ x5 = b * 32 /\ x6 = b * 64 /\ x7 = b * 128 /\ x8 = b * 256
  OBVIOUS
<1>5. /\ Divide(b) = x1 /\ Divide(x1) = x2 /\ Divide(x2) = x3 /\ Divide(x3) = x4
      /\ Divide(x4) = x5 /\ Divide(x5) = x6 /\ Divide(x6) = x7 /\ Divide(x7) = x8
  BY <1>3, <1>4
<1>6. Left(b) = x8
  BY ONLY <1>5, Zenon DEF Left
<1> QED BY <1>4, <1>6

\* The upper half's lowest bit leaves the divisor.
LEMMA LeftOne == Left(256) = \h1021
<1>1. \A n \in Nat : n < 32768 => Divide(n) = n * 2
  BY DEF Divide
<1>2. /\ Divide(256) = 512 /\ Divide(512) = 1024 /\ Divide(1024) = 2048 /\ Divide(2048) = 4096
      /\ Divide(4096) = 8192 /\ Divide(8192) = 16384 /\ Divide(16384) = 32768
  BY <1>1
<1>3. Divide(32768) = \h1021
  BY DEF Divide, Poly, Xor, Differ
<1> PICK d1, d2, d3, d4, d5, d6, d7, d8, d9 :
      /\ d1 = 256 /\ d2 = 512 /\ d3 = 1024 /\ d4 = 2048 /\ d5 = 4096 /\ d6 = 8192
      /\ d7 = 16384 /\ d8 = 32768 /\ d9 = \h1021
  OBVIOUS
<1>4. /\ Divide(d1) = d2 /\ Divide(d2) = d3 /\ Divide(d3) = d4 /\ Divide(d4) = d5
      /\ Divide(d5) = d6 /\ Divide(d6) = d7 /\ Divide(d7) = d8 /\ Divide(d8) = d9
  BY <1>2, <1>3
<1>5. Left(d1) = d9
  BY ONLY <1>4, Zenon DEF Left
<1> QED BY <1>5

\* Twice a byte below 128 in the upper half: one step more.
LEMMA LeftDouble ==
  ASSUME NEW j \in 0..127, NEW k, k = j * 2
  PROVE  Left(k * 256) = Divide(Left(j * 256))
<1>1. Divide(j * 256) = k * 256
  BY DEF Divide
<1> PICK x, y : x = j * 256 /\ y = k * 256
  OBVIOUS
<1>2. Divide(x) = y
  BY <1>1
<1>3. Left(y) = Divide(Left(x))
  BY ONLY <1>2, Zenon DEF Left
<1> QED BY <1>3

-----------------------------------------------------------------------------
(* The table *)

\* The entries of 2j and 2j + 1 follow from the one of j.
Doubles(j) ==
  /\ crc16_table[2 * j + 1] = Divide(crc16_table[j + 1])
  /\ crc16_table[2 * j + 2] = Xor[crc16_table[2 * j + 1]][\h1021]

\* e is entry j, and f and g are the entries 2j and 2j + 1.
Entries(j, e, f, g) ==
  crc16_table[j + 1] = e /\ crc16_table[2 * j + 1] = f /\ crc16_table[2 * j + 2] = g

\* b is a with the bits of the polynomial inverted.
Flipped(a, b) ==
  b = a + (1 - 2 * (a % 2)) + (32 - 64 * ((a \div 32) % 2)) + (4096 - 8192 * ((a \div 4096) % 2))

\* So is the exclusive or with the polynomial.
LEMMA FlippedXor ==
  ASSUME NEW a \in Word, NEW b, Flipped(a, b)
  PROVE  Xor[a][\h1021] = b
<1>1. a \in Nat /\ a < 65536
  BY WordIs
<1>2. PICK p : p = \h1021
  OBVIOUS
<1>3. p \in Nat
  BY <1>2
<1>4. PICK x : x = Xor[a][p]
  OBVIOUS
<1>w. x \in Word
  BY <1>1, <1>3, <1>4, XorWord
<1>5. PICK d, e : /\ d = [place \in Places |-> Bit(a, place)]
                  /\ e = [place \in Places |-> Bit(x, place)]
  OBVIOUS
<1>6. \A place \in Places : Bit(x, place) = (Bit(a, place) + Bit(p, place)) % 2
  BY <1>1, <1>3, <1>4, XorBits
<1>7. \A place \in Places : Bit(a, place) \in {0, 1}
  BY <1>1, BitIs
<1>8. /\ Bit(p, 1) = 1 /\ Bit(p, 2) = 0 /\ Bit(p, 4) = 0 /\ Bit(p, 8) = 0
      /\ Bit(p, 16) = 0 /\ Bit(p, 32) = 1 /\ Bit(p, 64) = 0 /\ Bit(p, 128) = 0
      /\ Bit(p, 256) = 0 /\ Bit(p, 512) = 0 /\ Bit(p, 1024) = 0 /\ Bit(p, 2048) = 0
      /\ Bit(p, 4096) = 1 /\ Bit(p, 8192) = 0 /\ Bit(p, 16384) = 0 /\ Bit(p, 32768) = 0
  BY ONLY <1>2 DEF Bit
<1>9. \A place \in Places : d[place] \in {0, 1} /\ e[place] = (d[place] + Bit(p, place)) % 2
  BY <1>5, <1>6, <1>7
<1>d. /\ d[1] \in {0, 1} /\ d[2] \in {0, 1} /\ d[4] \in {0, 1} /\ d[8] \in {0, 1}
      /\ d[16] \in {0, 1} /\ d[32] \in {0, 1} /\ d[64] \in {0, 1} /\ d[128] \in {0, 1}
      /\ d[256] \in {0, 1} /\ d[512] \in {0, 1} /\ d[1024] \in {0, 1} /\ d[2048] \in {0, 1}
      /\ d[4096] \in {0, 1} /\ d[8192] \in {0, 1} /\ d[16384] \in {0, 1} /\ d[32768] \in {0, 1}
  BY ONLY <1>9 DEF Places
<1>e. /\ e[1] = (d[1] + Bit(p, 1)) % 2 /\ e[2] = (d[2] + Bit(p, 2)) % 2
      /\ e[4] = (d[4] + Bit(p, 4)) % 2 /\ e[8] = (d[8] + Bit(p, 8)) % 2
      /\ e[16] = (d[16] + Bit(p, 16)) % 2 /\ e[32] = (d[32] + Bit(p, 32)) % 2
      /\ e[64] = (d[64] + Bit(p, 64)) % 2 /\ e[128] = (d[128] + Bit(p, 128)) % 2
      /\ e[256] = (d[256] + Bit(p, 256)) % 2 /\ e[512] = (d[512] + Bit(p, 512)) % 2
      /\ e[1024] = (d[1024] + Bit(p, 1024)) % 2 /\ e[2048] = (d[2048] + Bit(p, 2048)) % 2
      /\ e[4096] = (d[4096] + Bit(p, 4096)) % 2 /\ e[8192] = (d[8192] + Bit(p, 8192)) % 2
      /\ e[16384] = (d[16384] + Bit(p, 16384)) % 2 /\ e[32768] = (d[32768] + Bit(p, 32768)) % 2
  BY ONLY <1>9 DEF Places
<1>f. /\ e[1] = 1 - d[1] /\ e[2] = d[2] /\ e[4] = d[4] /\ e[8] = d[8]
      /\ e[16] = d[16] /\ e[32] = 1 - d[32] /\ e[64] = d[64] /\ e[128] = d[128]
      /\ e[256] = d[256] /\ e[512] = d[512] /\ e[1024] = d[1024] /\ e[2048] = d[2048]
      /\ e[4096] = 1 - d[4096] /\ e[8192] = d[8192] /\ e[16384] = d[16384] /\ e[32768] = d[32768]
  BY ONLY <1>8, <1>d, <1>e
<1>i. PICK q0, q1, q2, q3, q4, q5, q6, q7, q8, q9, q10, q11, q12, q13, q14, q15 :
      /\ q0 = d[1] /\ q1 = d[2] /\ q2 = d[4] /\ q3 = d[8]
      /\ q4 = d[16] /\ q5 = d[32] /\ q6 = d[64] /\ q7 = d[128]
      /\ q8 = d[256] /\ q9 = d[512] /\ q10 = d[1024] /\ q11 = d[2048]
      /\ q12 = d[4096] /\ q13 = d[8192] /\ q14 = d[16384] /\ q15 = d[32768]
  OBVIOUS
<1>j. /\ q0 \in Int /\ q1 \in Int /\ q2 \in Int /\ q3 \in Int
      /\ q4 \in Int /\ q5 \in Int /\ q6 \in Int /\ q7 \in Int
      /\ q8 \in Int /\ q9 \in Int /\ q10 \in Int /\ q11 \in Int
      /\ q12 \in Int /\ q13 \in Int /\ q14 \in Int /\ q15 \in Int
  BY ONLY <1>d, <1>i
<1>10. a = Total(d) /\ x = Total(e)
  BY <1>5, <1>w, WordTotal
<1>a. a = 1 * q0 + 2 * q1 + 4 * q2 + 8 * q3
        + 16 * q4 + 32 * q5 + 64 * q6 + 128 * q7
        + 256 * q8 + 512 * q9 + 1024 * q10 + 2048 * q11
        + 4096 * q12 + 8192 * q13 + 16384 * q14 + 32768 * q15
  BY ONLY <1>i, <1>j, <1>10 DEF Total
<1>b. x = 1 * (1 - q0) + 2 * q1 + 4 * q2 + 8 * q3
        + 16 * q4 + 32 * (1 - q5) + 64 * q6 + 128 * q7
        + 256 * q8 + 512 * q9 + 1024 * q10 + 2048 * q11
        + 4096 * (1 - q12) + 8192 * q13 + 16384 * q14 + 32768 * q15
  BY ONLY <1>f, <1>i, <1>j, <1>10 DEF Total
<1>11. x = a + (1 - 2 * q0) + (32 - 64 * q5) + (4096 - 8192 * q12)
  BY ONLY <1>j, <1>a, <1>b
<1>12. q0 = a % 2 /\ q5 = (a \div 32) % 2 /\ q12 = (a \div 4096) % 2
  BY <1>1, <1>5, <1>i DEF Places, Bit
<1>13. x = b
  BY <1>11, <1>12 DEF Flipped
<1> QED BY <1>2, <1>4, <1>13

\* e doubles to f, and g is the odd one.
Doubled(e, f, g) ==
  /\ e \in Word /\ f \in Word
  /\ e < 32768 => f = 2 * e
  /\ e >= 32768 => Flipped(2 * e - 65536, f)
  /\ Flipped(f, g)

\* If so, the entries are right.
LEMMA EntriesDouble ==
  \A j, e, f, g : Entries(j, e, f, g) /\ Doubled(e, f, g) => Doubles(j)
<1> SUFFICES ASSUME NEW j, NEW e, NEW f, NEW g, Entries(j, e, f, g), Doubled(e, f, g)
             PROVE  Doubles(j)
  OBVIOUS
<1>1. e \in Nat /\ e < 65536 /\ f \in Word
  BY WordIs DEF Doubled
<1>2. Divide(e) = f
  <2>1. CASE e < 32768
    BY <1>1, <2>1 DEF Divide, Doubled
  <2>2. CASE e >= 32768
    <3>1. (e * 2) % 65536 = 2 * e - 65536
      BY <1>1, <2>2
    <3>2. 2 * e - 65536 \in Word
      BY <1>1, <2>2, WordIs
    <3>3. Xor[2 * e - 65536][\h1021] = f
      BY <2>2, <3>2, FlippedXor DEF Doubled
    <3> QED BY <1>1, <2>2, <3>1, <3>3 DEF Divide, Poly
  <2> QED BY <1>1, <2>1, <2>2
<1>3. Xor[f][\h1021] = g
  BY <1>1, FlippedXor DEF Doubled
<1> QED BY <1>2, <1>3 DEF Entries, Doubles

\* The entries, two for each number below 128.
LEMMA TableDoubles == \A j \in 0..127 : Doubles(j)
<1>0. Entries(0, 0, 0, \h1021) BY DEF Entries, crc16_table
<1>1. Entries(1, \h1021, \h2042, \h3063) BY DEF Entries, crc16_table
<1>2. Entries(2, \h2042, \h4084, \h50a5) BY DEF Entries, crc16_table
<1>3. Entries(3, \h3063, \h60c6, \h70e7) BY DEF Entries, crc16_table
<1>4. Entries(4, \h4084, \h8108, \h9129) BY DEF Entries, crc16_table
<1>5. Entries(5, \h50a5, \ha14a, \hb16b) BY DEF Entries, crc16_table
<1>6. Entries(6, \h60c6, \hc18c, \hd1ad) BY DEF Entries, crc16_table
<1>7. Entries(7, \h70e7, \he1ce, \hf1ef) BY DEF Entries, crc16_table
<1>8. Entries(8, \h8108, \h1231, \h210) BY DEF Entries, crc16_table
<1>9. Entries(9, \h9129, \h3273, \h2252) BY DEF Entries, crc16_table
<1>10. Entries(10, \ha14a, \h52b5, \h4294) BY DEF Entries, crc16_table
<1>11. Entries(11, \hb16b, \h72f7, \h62d6) BY DEF Entries, crc16_table
<1>12. Entries(12, \hc18c, \h9339, \h8318) BY DEF Entries, crc16_table
<1>13. Entries(13, \hd1ad, \hb37b, \ha35a) BY DEF Entries, crc16_table
<1>14. Entries(14, \he1ce, \hd3bd, \hc39c) BY DEF Entries, crc16_table
<1>15. Entries(15, \hf1ef, \hf3ff, \he3de) BY DEF Entries, crc16_table
<1>16. Entries(16, \h1231, \h2462, \h3443) BY DEF Entries, crc16_table
<1>17. Entries(17, \h210, \h420, \h1401) BY DEF Entries, crc16_table
<1>18. Entries(18, \h3273, \h64e6, \h74c7) BY DEF Entries, crc16_table
<1>19. Entries(19, \h2252, \h44a4, \h5485) BY DEF Entries, crc16_table
<1>20. Entries(20, \h52b5, \ha56a, \hb54b) BY DEF Entries, crc16_table
<1>21. Entries(21, \h4294, \h8528, \h9509) BY DEF Entries, crc16_table
<1>22. Entries(22, \h72f7, \he5ee, \hf5cf) BY DEF Entries, crc16_table
<1>23. Entries(23, \h62d6, \hc5ac, \hd58d) BY DEF Entries, crc16_table
<1>24. Entries(24, \h9339, \h3653, \h2672) BY DEF Entries, crc16_table
<1>25. Entries(25, \h8318, \h1611, \h630) BY DEF Entries, crc16_table
<1>26. Entries(26, \hb37b, \h76d7, \h66f6) BY DEF Entries, crc16_table
<1>27. Entries(27, \ha35a, \h5695, \h46b4) BY DEF Entries, crc16_table
<1>28. Entries(28, \hd3bd, \hb75b, \ha77a) BY DEF Entries, crc16_table
<1>29. Entries(29, \hc39c, \h9719, \h8738) BY DEF Entries, crc16_table
<1>30. Entries(30, \hf3ff, \hf7df, \he7fe) BY DEF Entries, crc16_table
<1>31. Entries(31, \he3de, \hd79d, \hc7bc) BY DEF Entries, crc16_table
<1>32. Entries(32, \h2462, \h48c4, \h58e5) BY DEF Entries, crc16_table
<1>33. Entries(33, \h3443, \h6886, \h78a7) BY DEF Entries, crc16_table
<1>34. Entries(34, \h420, \h840, \h1861) BY DEF Entries, crc16_table
<1>35. Entries(35, \h1401, \h2802, \h3823) BY DEF Entries, crc16_table
<1>36. Entries(36, \h64e6, \hc9cc, \hd9ed) BY DEF Entries, crc16_table
<1>37. Entries(37, \h74c7, \he98e, \hf9af) BY DEF Entries, crc16_table
<1>38. Entries(38, \h44a4, \h8948, \h9969) BY DEF Entries, crc16_table
<1>39. Entries(39, \h5485, \ha90a, \hb92b) BY DEF Entries, crc16_table
<1>40. Entries(40, \ha56a, \h5af5, \h4ad4) BY DEF Entries, crc16_table
<1>41. Entries(41, \hb54b, \h7ab7, \h6a96) BY DEF Entries, crc16_table
<1>42. Entries(42, \h8528, \h1a71, \ha50) BY DEF Entries, crc16_table
<1>43. Entries(43, \h9509, \h3a33, \h2a12) BY DEF Entries, crc16_table
<1>44. Entries(44, \he5ee, \hdbfd, \hcbdc) BY DEF Entries, crc16_table
<1>45. Entries(45, \hf5cf, \hfbbf, \heb9e) BY DEF Entries, crc16_table
<1>46. Entries(46, \hc5ac, \h9b79, \h8b58) BY DEF Entries, crc16_table
<1>47. Entries(47, \hd58d, \hbb3b, \hab1a) BY DEF Entries, crc16_table
<1>48. Entries(48, \h3653, \h6ca6, \h7c87) BY DEF Entries, crc16_table
<1>49. Entries(49, \h2672, \h4ce4, \h5cc5) BY DEF Entries, crc16_table
<1>50. Entries(50, \h1611, \h2c22, \h3c03) BY DEF Entries, crc16_table
<1>51. Entries(51, \h630, \hc60, \h1c41) BY DEF Entries, crc16_table
<1>52. Entries(52, \h76d7, \hedae, \hfd8f) BY DEF Entries, crc16_table
<1>53. Entries(53, \h66f6, \hcdec, \hddcd) BY DEF Entries, crc16_table
<1>54. Entries(54, \h5695, \had2a, \hbd0b) BY DEF Entries, crc16_table
<1>55. Entries(55, \h46b4, \h8d68, \h9d49) BY DEF Entries, crc16_table
<1>56. Entries(56, \hb75b, \h7e97, \h6eb6) BY DEF Entries, crc16_table
<1>57. Entries(57, \ha77a, \h5ed5, \h4ef4) BY DEF Entries, crc16_table
<1>58. Entries(58, \h9719, \h3e13, \h2e32) BY DEF Entries, crc16_table
<1>59. Entries(59, \h8738, \h1e51, \he70) BY DEF Entries, crc16_table
<1>60. Entries(60, \hf7df, \hff9f, \hefbe) BY DEF Entries, crc16_table
<1>61. Entries(61, \he7fe, \hdfdd, \hcffc) BY DEF Entries, crc16_table
<1>62. Entries(62, \hd79d, \hbf1b, \haf3a) BY DEF Entries, crc16_table
<1>63. Entries(63, \hc7bc, \h9f59, \h8f78) BY DEF Entries, crc16_table
<1>64. Entries(64, \h48c4, \h9188, \h81a9) BY DEF Entries, crc16_table
<1>65. Entries(65, \h58e5, \hb1ca, \ha1eb) BY DEF Entries, crc16_table
<1>66. Entries(66, \h6886, \hd10c, \hc12d) BY DEF Entries, crc16_table
<1>67. Entries(67, \h78a7, \hf14e, \he16f) BY DEF Entries, crc16_table
<1>68. Entries(68, \h840, \h1080, \ha1) BY DEF Entries, crc16_table
<1>69. Entries(69, \h1861, \h30c2, \h20e3) BY DEF Entries, crc16_table
<1>70. Entries(70, \h2802, \h5004, \h4025) BY DEF Entries, crc16_table
<1>71. Entries(71, \h3823, \h7046, \h6067) BY DEF Entries, crc16_table
<1>72. Entries(72, \hc9cc, \h83b9, \h9398) BY DEF Entries, crc16_table
<1>73. Entries(73, \hd9ed, \ha3fb, \hb3da) BY DEF Entries, crc16_table
<1>74. Entries(74, \he98e, \hc33d, \hd31c) BY DEF Entries, crc16_table
<1>75. Entries(75, \hf9af, \he37f, \hf35e) BY DEF Entries, crc16_table
<1>76. Entries(76, \h8948, \h2b1, \h1290) BY DEF Entries, crc16_table
<1>77. Entries(77, \h9969, \h22f3, \h32d2) BY DEF Entries, crc16_table
<1>78. Entries(78, \ha90a, \h4235, \h5214) BY DEF Entries, crc16_table
<1>79. Entries(79, \hb92b, \h6277, \h7256) BY DEF Entries, crc16_table
<1>80. Entries(80, \h5af5, \hb5ea, \ha5cb) BY DEF Entries, crc16_table
<1>81. Entries(81, \h4ad4, \h95a8, \h8589) BY DEF Entries, crc16_table
<1>82. Entries(82, \h7ab7, \hf56e, \he54f) BY DEF Entries, crc16_table
<1>83. Entries(83, \h6a96, \hd52c, \hc50d) BY DEF Entries, crc16_table
<1>84. Entries(84, \h1a71, \h34e2, \h24c3) BY DEF Entries, crc16_table
<1>85. Entries(85, \ha50, \h14a0, \h481) BY DEF Entries, crc16_table
<1>86. Entries(86, \h3a33, \h7466, \h6447) BY DEF Entries, crc16_table
<1>87. Entries(87, \h2a12, \h5424, \h4405) BY DEF Entries, crc16_table
<1>88. Entries(88, \hdbfd, \ha7db, \hb7fa) BY DEF Entries, crc16_table
<1>89. Entries(89, \hcbdc, \h8799, \h97b8) BY DEF Entries, crc16_table
<1>90. Entries(90, \hfbbf, \he75f, \hf77e) BY DEF Entries, crc16_table
<1>91. Entries(91, \heb9e, \hc71d, \hd73c) BY DEF Entries, crc16_table
<1>92. Entries(92, \h9b79, \h26d3, \h36f2) BY DEF Entries, crc16_table
<1>93. Entries(93, \h8b58, \h691, \h16b0) BY DEF Entries, crc16_table
<1>94. Entries(94, \hbb3b, \h6657, \h7676) BY DEF Entries, crc16_table
<1>95. Entries(95, \hab1a, \h4615, \h5634) BY DEF Entries, crc16_table
<1>96. Entries(96, \h6ca6, \hd94c, \hc96d) BY DEF Entries, crc16_table
<1>97. Entries(97, \h7c87, \hf90e, \he92f) BY DEF Entries, crc16_table
<1>98. Entries(98, \h4ce4, \h99c8, \h89e9) BY DEF Entries, crc16_table
<1>99. Entries(99, \h5cc5, \hb98a, \ha9ab) BY DEF Entries, crc16_table
<1>100. Entries(100, \h2c22, \h5844, \h4865) BY DEF Entries, crc16_table
<1>101. Entries(101, \h3c03, \h7806, \h6827) BY DEF Entries, crc16_table
<1>102. Entries(102, \hc60, \h18c0, \h8e1) BY DEF Entries, crc16_table
<1>103. Entries(103, \h1c41, \h3882, \h28a3) BY DEF Entries, crc16_table
<1>104. Entries(104, \hedae, \hcb7d, \hdb5c) BY DEF Entries, crc16_table
<1>105. Entries(105, \hfd8f, \heb3f, \hfb1e) BY DEF Entries, crc16_table
<1>106. Entries(106, \hcdec, \h8bf9, \h9bd8) BY DEF Entries, crc16_table
<1>107. Entries(107, \hddcd, \habbb, \hbb9a) BY DEF Entries, crc16_table
<1>108. Entries(108, \had2a, \h4a75, \h5a54) BY DEF Entries, crc16_table
<1>109. Entries(109, \hbd0b, \h6a37, \h7a16) BY DEF Entries, crc16_table
<1>110. Entries(110, \h8d68, \haf1, \h1ad0) BY DEF Entries, crc16_table
<1>111. Entries(111, \h9d49, \h2ab3, \h3a92) BY DEF Entries, crc16_table
<1>112. Entries(112, \h7e97, \hfd2e, \hed0f) BY DEF Entries, crc16_table
<1>113. Entries(113, \h6eb6, \hdd6c, \hcd4d) BY DEF Entries, crc16_table
<1>114. Entries(114, \h5ed5, \hbdaa, \had8b) BY DEF Entries, crc16_table
<1>115. Entries(115, \h4ef4, \h9de8, \h8dc9) BY DEF Entries, crc16_table
<1>116. Entries(116, \h3e13, \h7c26, \h6c07) BY DEF Entries, crc16_table
<1>117. Entries(117, \h2e32, \h5c64, \h4c45) BY DEF Entries, crc16_table
<1>118. Entries(118, \h1e51, \h3ca2, \h2c83) BY DEF Entries, crc16_table
<1>119. Entries(119, \he70, \h1ce0, \hcc1) BY DEF Entries, crc16_table
<1>120. Entries(120, \hff9f, \hef1f, \hff3e) BY DEF Entries, crc16_table
<1>121. Entries(121, \hefbe, \hcf5d, \hdf7c) BY DEF Entries, crc16_table
<1>122. Entries(122, \hdfdd, \haf9b, \hbfba) BY DEF Entries, crc16_table
<1>123. Entries(123, \hcffc, \h8fd9, \h9ff8) BY DEF Entries, crc16_table
<1>124. Entries(124, \hbf1b, \h6e17, \h7e36) BY DEF Entries, crc16_table
<1>125. Entries(125, \haf3a, \h4e55, \h5e74) BY DEF Entries, crc16_table
<1>126. Entries(126, \h9f59, \h2e93, \h3eb2) BY DEF Entries, crc16_table
<1>127. Entries(127, \h8f78, \hed1, \h1ef0) BY DEF Entries, crc16_table
<1>128. Doubled(0, 0, \h1021) BY DEF Doubled, Flipped, Word
<1>129. Doubled(\h1021, \h2042, \h3063) BY DEF Doubled, Flipped, Word
<1>130. Doubled(\h2042, \h4084, \h50a5) BY DEF Doubled, Flipped, Word
<1>131. Doubled(\h3063, \h60c6, \h70e7) BY DEF Doubled, Flipped, Word
<1>132. Doubled(\h4084, \h8108, \h9129) BY DEF Doubled, Flipped, Word
<1>133. Doubled(\h50a5, \ha14a, \hb16b) BY DEF Doubled, Flipped, Word
<1>134. Doubled(\h60c6, \hc18c, \hd1ad) BY DEF Doubled, Flipped, Word
<1>135. Doubled(\h70e7, \he1ce, \hf1ef) BY DEF Doubled, Flipped, Word
<1>136. Doubled(\h8108, \h1231, \h210) BY DEF Doubled, Flipped, Word
<1>137. Doubled(\h9129, \h3273, \h2252) BY DEF Doubled, Flipped, Word
<1>138. Doubled(\ha14a, \h52b5, \h4294) BY DEF Doubled, Flipped, Word
<1>139. Doubled(\hb16b, \h72f7, \h62d6) BY DEF Doubled, Flipped, Word
<1>140. Doubled(\hc18c, \h9339, \h8318) BY DEF Doubled, Flipped, Word
<1>141. Doubled(\hd1ad, \hb37b, \ha35a) BY DEF Doubled, Flipped, Word
<1>142. Doubled(\he1ce, \hd3bd, \hc39c) BY DEF Doubled, Flipped, Word
<1>143. Doubled(\hf1ef, \hf3ff, \he3de) BY DEF Doubled, Flipped, Word
<1>144. Doubled(\h1231, \h2462, \h3443) BY DEF Doubled, Flipped, Word
<1>145. Doubled(\h210, \h420, \h1401) BY DEF Doubled, Flipped, Word
<1>146. Doubled(\h3273, \h64e6, \h74c7) BY DEF Doubled, Flipped, Word
<1>147. Doubled(\h2252, \h44a4, \h5485) BY DEF Doubled, Flipped, Word
<1>148. Doubled(\h52b5, \ha56a, \hb54b) BY DEF Doubled, Flipped, Word
<1>149. Doubled(\h4294, \h8528, \h9509) BY DEF Doubled, Flipped, Word
<1>150. Doubled(\h72f7, \he5ee, \hf5cf) BY DEF Doubled, Flipped, Word
<1>151. Doubled(\h62d6, \hc5ac, \hd58d) BY DEF Doubled, Flipped, Word
<1>152. Doubled(\h9339, \h3653, \h2672) BY DEF Doubled, Flipped, Word
<1>153. Doubled(\h8318, \h1611, \h630) BY DEF Doubled, Flipped, Word
<1>154. Doubled(\hb37b, \h76d7, \h66f6) BY DEF Doubled, Flipped, Word
<1>155. Doubled(\ha35a, \h5695, \h46b4) BY DEF Doubled, Flipped, Word
<1>156. Doubled(\hd3bd, \hb75b, \ha77a) BY DEF Doubled, Flipped, Word
<1>157. Doubled(\hc39c, \h9719, \h8738) BY DEF Doubled, Flipped, Word
<1>158. Doubled(\hf3ff, \hf7df, \he7fe) BY DEF Doubled, Flipped, Word
<1>159. Doubled(\he3de, \hd79d, \hc7bc) BY DEF Doubled, Flipped, Word
<1>160. Doubled(\h2462, \h48c4, \h58e5) BY DEF Doubled, Flipped, Word
<1>161. Doubled(\h3443, \h6886, \h78a7) BY DEF Doubled, Flipped, Word
<1>162. Doubled(\h420, \h840, \h1861) BY DEF Doubled, Flipped, Word
<1>163. Doubled(\h1401, \h2802, \h3823) BY DEF Doubled, Flipped, Word
<1>164. Doubled(\h64e6, \hc9cc, \hd9ed) BY DEF Doubled, Flipped, Word
<1>165. Doubled(\h74c7, \he98e, \hf9af) BY DEF Doubled, Flipped, Word
<1>166. Doubled(\h44a4, \h8948, \h9969) BY DEF Doubled, Flipped, Word
<1>167. Doubled(\h5485, \ha90a, \hb92b) BY DEF Doubled, Flipped, Word
<1>168. Doubled(\ha56a, \h5af5, \h4ad4) BY DEF Doubled, Flipped, Word
<1>169. Doubled(\hb54b, \h7ab7, \h6a96) BY DEF Doubled, Flipped, Word
<1>170. Doubled(\h8528, \h1a71, \ha50) BY DEF Doubled, Flipped, Word
<1>171. Doubled(\h9509, \h3a33, \h2a12) BY DEF Doubled, Flipped, Word
<1>172. Doubled(\he5ee, \hdbfd, \hcbdc) BY DEF Doubled, Flipped, Word
<1>173. Doubled(\hf5cf, \hfbbf, \heb9e) BY DEF Doubled, Flipped, Word
<1>174. Doubled(\hc5ac, \h9b79, \h8b58) BY DEF Doubled, Flipped, Word
<1>175. Doubled(\hd58d, \hbb3b, \hab1a) BY DEF Doubled, Flipped, Word
<1>176. Doubled(\h3653, \h6ca6, \h7c87) BY DEF Doubled, Flipped, Word
<1>177. Doubled(\h2672, \h4ce4, \h5cc5) BY DEF Doubled, Flipped, Word
<1>178. Doubled(\h1611, \h2c22, \h3c03) BY DEF Doubled, Flipped, Word
<1>179. Doubled(\h630, \hc60, \h1c41) BY DEF Doubled, Flipped, Word
<1>180. Doubled(\h76d7, \hedae, \hfd8f) BY DEF Doubled, Flipped, Word
<1>181. Doubled(\h66f6, \hcdec, \hddcd) BY DEF Doubled, Flipped, Word
<1>182. Doubled(\h5695, \had2a, \hbd0b) BY DEF Doubled, Flipped, Word
<1>183. Doubled(\h46b4, \h8d68, \h9d49) BY DEF Doubled, Flipped, Word
<1>184. Doubled(\hb75b, \h7e97, \h6eb6) BY DEF Doubled, Flipped, Word
<1>185. Doubled(\ha77a, \h5ed5, \h4ef4) BY DEF Doubled, Flipped, Word
<1>186. Doubled(\h9719, \h3e13, \h2e32) BY DEF Doubled, Flipped, Word
<1>187. Doubled(\h8738, \h1e51, \he70) BY DEF Doubled, Flipped, Word
<1>188. Doubled(\hf7df, \hff9f, \hefbe) BY DEF Doubled, Flipped, Word
<1>189. Doubled(\he7fe, \hdfdd, \hcffc) BY DEF Doubled, Flipped, Word
<1>190. Doubled(\hd79d, \hbf1b, \haf3a) BY DEF Doubled, Flipped, Word
<1>191. Doubled(\hc7bc, \h9f59, \h8f78) BY DEF Doubled, Flipped, Word
<1>192. Doubled(\h48c4, \h9188, \h81a9) BY DEF Doubled, Flipped, Word
<1>193. Doubled(\h58e5, \hb1ca, \ha1eb) BY DEF Doubled, Flipped, Word
<1>194. Doubled(\h6886, \hd10c, \hc12d) BY DEF Doubled, Flipped, Word
<1>195. Doubled(\h78a7, \hf14e, \he16f) BY DEF Doubled, Flipped, Word
<1>196. Doubled(\h840, \h1080, \ha1) BY DEF Doubled, Flipped, Word
<1>197. Doubled(\h1861, \h30c2, \h20e3) BY DEF Doubled, Flipped, Word
<1>198. Doubled(\h2802, \h5004, \h4025) BY DEF Doubled, Flipped, Word
<1>199. Doubled(\h3823, \h7046, \h6067) BY DEF Doubled, Flipped, Word
<1>200. Doubled(\hc9cc, \h83b9, \h9398) BY DEF Doubled, Flipped, Word
<1>201. Doubled(\hd9ed, \ha3fb, \hb3da) BY DEF Doubled, Flipped, Word
<1>202. Doubled(\he98e, \hc33d, \hd31c) BY DEF Doubled, Flipped, Word
<1>203. Doubled(\hf9af, \he37f, \hf35e) BY DEF Doubled, Flipped, Word
<1>204. Doubled(\h8948, \h2b1, \h1290) BY DEF Doubled, Flipped, Word
<1>205. Doubled(\h9969, \h22f3, \h32d2) BY DEF Doubled, Flipped, Word
<1>206. Doubled(\ha90a, \h4235, \h5214) BY DEF Doubled, Flipped, Word
<1>207. Doubled(\hb92b, \h6277, \h7256) BY DEF Doubled, Flipped, Word
<1>208. Doubled(\h5af5, \hb5ea, \ha5cb) BY DEF Doubled, Flipped, Word
<1>209. Doubled(\h4ad4, \h95a8, \h8589) BY DEF Doubled, Flipped, Word
<1>210. Doubled(\h7ab7, \hf56e, \he54f) BY DEF Doubled, Flipped, Word
<1>211. Doubled(\h6a96, \hd52c, \hc50d) BY DEF Doubled, Flipped, Word
<1>212. Doubled(\h1a71, \h34e2, \h24c3) BY DEF Doubled, Flipped, Word
<1>213. Doubled(\ha50, \h14a0, \h481) BY DEF Doubled, Flipped, Word
<1>214. Doubled(\h3a33, \h7466, \h6447) BY DEF Doubled, Flipped, Word
<1>215. Doubled(\h2a12, \h5424, \h4405) BY DEF Doubled, Flipped, Word
<1>216. Doubled(\hdbfd, \ha7db, \hb7fa) BY DEF Doubled, Flipped, Word
<1>217. Doubled(\hcbdc, \h8799, \h97b8) BY DEF Doubled, Flipped, Word
<1>218. Doubled(\hfbbf, \he75f, \hf77e) BY DEF Doubled, Flipped, Word
<1>219. Doubled(\heb9e, \hc71d, \hd73c) BY DEF Doubled, Flipped, Word
<1>220. Doubled(\h9b79, \h26d3, \h36f2) BY DEF Doubled, Flipped, Word
<1>221. Doubled(\h8b58, \h691, \h16b0) BY DEF Doubled, Flipped, Word
<1>222. Doubled(\hbb3b, \h6657, \h7676) BY DEF Doubled, Flipped, Word
<1>223. Doubled(\hab1a, \h4615, \h5634) BY DEF Doubled, Flipped, Word
<1>224. Doubled(\h6ca6, \hd94c, \hc96d) BY DEF Doubled, Flipped, Word
<1>225. Doubled(\h7c87, \hf90e, \he92f) BY DEF Doubled, Flipped, Word
<1>226. Doubled(\h4ce4, \h99c8, \h89e9) BY DEF Doubled, Flipped, Word
<1>227. Doubled(\h5cc5, \hb98a, \ha9ab) BY DEF Doubled, Flipped, Word
<1>228. Doubled(\h2c22, \h5844, \h4865) BY DEF Doubled, Flipped, Word
<1>229. Doubled(\h3c03, \h7806, \h6827) BY DEF Doubled, Flipped, Word
<1>230. Doubled(\hc60, \h18c0, \h8e1) BY DEF Doubled, Flipped, Word
<1>231. Doubled(\h1c41, \h3882, \h28a3) BY DEF Doubled, Flipped, Word
<1>232. Doubled(\hedae, \hcb7d, \hdb5c) BY DEF Doubled, Flipped, Word
<1>233. Doubled(\hfd8f, \heb3f, \hfb1e) BY DEF Doubled, Flipped, Word
<1>234. Doubled(\hcdec, \h8bf9, \h9bd8) BY DEF Doubled, Flipped, Word
<1>235. Doubled(\hddcd, \habbb, \hbb9a) BY DEF Doubled, Flipped, Word
<1>236. Doubled(\had2a, \h4a75, \h5a54) BY DEF Doubled, Flipped, Word
<1>237. Doubled(\hbd0b, \h6a37, \h7a16) BY DEF Doubled, Flipped, Word
<1>238. Doubled(\h8d68, \haf1, \h1ad0) BY DEF Doubled, Flipped, Word
<1>239. Doubled(\h9d49, \h2ab3, \h3a92) BY DEF Doubled, Flipped, Word
<1>240. Doubled(\h7e97, \hfd2e, \hed0f) BY DEF Doubled, Flipped, Word
<1>241. Doubled(\h6eb6, \hdd6c, \hcd4d) BY DEF Doubled, Flipped, Word
<1>242. Doubled(\h5ed5, \hbdaa, \had8b) BY DEF Doubled, Flipped, Word
<1>243. Doubled(\h4ef4, \h9de8, \h8dc9) BY DEF Doubled, Flipped, Word
<1>244. Doubled(\h3e13, \h7c26, \h6c07) BY DEF Doubled, Flipped, Word
<1>245. Doubled(\h2e32, \h5c64, \h4c45) BY DEF Doubled, Flipped, Word
<1>246. Doubled(\h1e51, \h3ca2, \h2c83) BY DEF Doubled, Flipped, Word
<1>247. Doubled(\he70, \h1ce0, \hcc1) BY DEF Doubled, Flipped, Word
<1>248. Doubled(\hff9f, \hef1f, \hff3e) BY DEF Doubled, Flipped, Word
<1>249. Doubled(\hefbe, \hcf5d, \hdf7c) BY DEF Doubled, Flipped, Word
<1>250. Doubled(\hdfdd, \haf9b, \hbfba) BY DEF Doubled, Flipped, Word
<1>251. Doubled(\hcffc, \h8fd9, \h9ff8) BY DEF Doubled, Flipped, Word
<1>252. Doubled(\hbf1b, \h6e17, \h7e36) BY DEF Doubled, Flipped, Word
<1>253. Doubled(\haf3a, \h4e55, \h5e74) BY DEF Doubled, Flipped, Word
<1>254. Doubled(\h9f59, \h2e93, \h3eb2) BY DEF Doubled, Flipped, Word
<1>255. Doubled(\h8f78, \hed1, \h1ef0) BY DEF Doubled, Flipped, Word
<1>256. /\ Doubles(0) /\ Doubles(1) /\ Doubles(2) /\ Doubles(3)
        /\ Doubles(4) /\ Doubles(5) /\ Doubles(6) /\ Doubles(7)
  BY <1>0, <1>128, <1>1, <1>129, <1>2, <1>130, <1>3, <1>131,
     <1>4, <1>132, <1>5, <1>133, <1>6, <1>134, <1>7, <1>135, EntriesDouble
<1>257. /\ Doubles(8) /\ Doubles(9) /\ Doubles(10) /\ Doubles(11)
        /\ Doubles(12) /\ Doubles(13) /\ Doubles(14) /\ Doubles(15)
  BY <1>8, <1>136, <1>9, <1>137, <1>10, <1>138, <1>11, <1>139,
     <1>12, <1>140, <1>13, <1>141, <1>14, <1>142, <1>15, <1>143, EntriesDouble
<1>258. /\ Doubles(16) /\ Doubles(17) /\ Doubles(18) /\ Doubles(19)
        /\ Doubles(20) /\ Doubles(21) /\ Doubles(22) /\ Doubles(23)
  BY <1>16, <1>144, <1>17, <1>145, <1>18, <1>146, <1>19, <1>147,
     <1>20, <1>148, <1>21, <1>149, <1>22, <1>150, <1>23, <1>151, EntriesDouble
<1>259. /\ Doubles(24) /\ Doubles(25) /\ Doubles(26) /\ Doubles(27)
        /\ Doubles(28) /\ Doubles(29) /\ Doubles(30) /\ Doubles(31)
  BY <1>24, <1>152, <1>25, <1>153, <1>26, <1>154, <1>27, <1>155,
     <1>28, <1>156, <1>29, <1>157, <1>30, <1>158, <1>31, <1>159, EntriesDouble
<1>260. /\ Doubles(32) /\ Doubles(33) /\ Doubles(34) /\ Doubles(35)
        /\ Doubles(36) /\ Doubles(37) /\ Doubles(38) /\ Doubles(39)
  BY <1>32, <1>160, <1>33, <1>161, <1>34, <1>162, <1>35, <1>163,
     <1>36, <1>164, <1>37, <1>165, <1>38, <1>166, <1>39, <1>167, EntriesDouble
<1>261. /\ Doubles(40) /\ Doubles(41) /\ Doubles(42) /\ Doubles(43)
        /\ Doubles(44) /\ Doubles(45) /\ Doubles(46) /\ Doubles(47)
  BY <1>40, <1>168, <1>41, <1>169, <1>42, <1>170, <1>43, <1>171,
     <1>44, <1>172, <1>45, <1>173, <1>46, <1>174, <1>47, <1>175, EntriesDouble
<1>262. /\ Doubles(48) /\ Doubles(49) /\ Doubles(50) /\ Doubles(51)
        /\ Doubles(52) /\ Doubles(53) /\ Doubles(54) /\ Doubles(55)
  BY <1>48, <1>176, <1>49, <1>177, <1>50, <1>178, <1>51, <1>179,
     <1>52, <1>180, <1>53, <1>181, <1>54, <1>182, <1>55, <1>183, EntriesDouble
<1>263. /\ Doubles(56) /\ Doubles(57) /\ Doubles(58) /\ Doubles(59)
        /\ Doubles(60) /\ Doubles(61) /\ Doubles(62) /\ Doubles(63)
  BY <1>56, <1>184, <1>57, <1>185, <1>58, <1>186, <1>59, <1>187,
     <1>60, <1>188, <1>61, <1>189, <1>62, <1>190, <1>63, <1>191, EntriesDouble
<1>264. /\ Doubles(64) /\ Doubles(65) /\ Doubles(66) /\ Doubles(67)
        /\ Doubles(68) /\ Doubles(69) /\ Doubles(70) /\ Doubles(71)
  BY <1>64, <1>192, <1>65, <1>193, <1>66, <1>194, <1>67, <1>195,
     <1>68, <1>196, <1>69, <1>197, <1>70, <1>198, <1>71, <1>199, EntriesDouble
<1>265. /\ Doubles(72) /\ Doubles(73) /\ Doubles(74) /\ Doubles(75)
        /\ Doubles(76) /\ Doubles(77) /\ Doubles(78) /\ Doubles(79)
  BY <1>72, <1>200, <1>73, <1>201, <1>74, <1>202, <1>75, <1>203,
     <1>76, <1>204, <1>77, <1>205, <1>78, <1>206, <1>79, <1>207, EntriesDouble
<1>266. /\ Doubles(80) /\ Doubles(81) /\ Doubles(82) /\ Doubles(83)
        /\ Doubles(84) /\ Doubles(85) /\ Doubles(86) /\ Doubles(87)
  BY <1>80, <1>208, <1>81, <1>209, <1>82, <1>210, <1>83, <1>211,
     <1>84, <1>212, <1>85, <1>213, <1>86, <1>214, <1>87, <1>215, EntriesDouble
<1>267. /\ Doubles(88) /\ Doubles(89) /\ Doubles(90) /\ Doubles(91)
        /\ Doubles(92) /\ Doubles(93) /\ Doubles(94) /\ Doubles(95)
  BY <1>88, <1>216, <1>89, <1>217, <1>90, <1>218, <1>91, <1>219,
     <1>92, <1>220, <1>93, <1>221, <1>94, <1>222, <1>95, <1>223, EntriesDouble
<1>268. /\ Doubles(96) /\ Doubles(97) /\ Doubles(98) /\ Doubles(99)
        /\ Doubles(100) /\ Doubles(101) /\ Doubles(102) /\ Doubles(103)
  BY <1>96, <1>224, <1>97, <1>225, <1>98, <1>226, <1>99, <1>227,
     <1>100, <1>228, <1>101, <1>229, <1>102, <1>230, <1>103, <1>231, EntriesDouble
<1>269. /\ Doubles(104) /\ Doubles(105) /\ Doubles(106) /\ Doubles(107)
        /\ Doubles(108) /\ Doubles(109) /\ Doubles(110) /\ Doubles(111)
  BY <1>104, <1>232, <1>105, <1>233, <1>106, <1>234, <1>107, <1>235,
     <1>108, <1>236, <1>109, <1>237, <1>110, <1>238, <1>111, <1>239, EntriesDouble
<1>270. /\ Doubles(112) /\ Doubles(113) /\ Doubles(114) /\ Doubles(115)
        /\ Doubles(116) /\ Doubles(117) /\ Doubles(118) /\ Doubles(119)
  BY <1>112, <1>240, <1>113, <1>241, <1>114, <1>242, <1>115, <1>243,
     <1>116, <1>244, <1>117, <1>245, <1>118, <1>246, <1>119, <1>247, EntriesDouble
<1>271. /\ Doubles(120) /\ Doubles(121) /\ Doubles(122) /\ Doubles(123)
        /\ Doubles(124) /\ Doubles(125) /\ Doubles(126) /\ Doubles(127)
  BY <1>120, <1>248, <1>121, <1>249, <1>122, <1>250, <1>123, <1>251,
     <1>124, <1>252, <1>125, <1>253, <1>126, <1>254, <1>127, <1>255, EntriesDouble
<1> QED BY <1>256, <1>257, <1>258, <1>259, <1>260, <1>261, <1>262, <1>263,
           <1>264, <1>265, <1>266, <1>267, <1>268, <1>269, <1>270, <1>271

\* The lowest bit of the upper half is added to an even number in it.
LEMMA EvenXor ==
  ASSUME NEW k \in Nat, k < 255, k % 2 = 0, NEW x, x = k * 256, NEW y, y = 256
  PROVE  Xor[x][y] = (k + 1) * 256
<1>1. /\ Differ(x, y, 1) = 0 /\ Differ(x, y, 2) = 0
      /\ Differ(x, y, 4) = 0 /\ Differ(x, y, 8) = 0
      /\ Differ(x, y, 16) = 0 /\ Differ(x, y, 32) = 0
      /\ Differ(x, y, 64) = 0 /\ Differ(x, y, 128) = 0
  BY DEF Differ
<1>2. Differ(x, y, 256) = 256
  BY DEF Differ
<1>9. Differ(x, y, 512) = 512 * ((k \div 2) % 2)
  BY DEF Differ
<1>10. Differ(x, y, 1024) = 1024 * ((k \div 4) % 2)
  BY DEF Differ
<1>11. Differ(x, y, 2048) = 2048 * ((k \div 8) % 2)
  BY DEF Differ
<1>12. Differ(x, y, 4096) = 4096 * ((k \div 16) % 2)
  BY DEF Differ
<1>13. Differ(x, y, 8192) = 8192 * ((k \div 32) % 2)
  BY DEF Differ
<1>14. Differ(x, y, 16384) = 16384 * ((k \div 64) % 2)
  BY DEF Differ
<1>15. Differ(x, y, 32768) = 32768 * ((k \div 128) % 2)
  BY DEF Differ
<1>16. k = 2 * ((k \div 2) % 2) + 4 * ((k \div 4) % 2) + 8 * ((k \div 8) % 2) +
           16 * ((k \div 16) % 2) + 32 * ((k \div 32) % 2) + 64 * ((k \div 64) % 2) +
           128 * ((k \div 128) % 2)
  OBVIOUS
<1>17. Xor[x][y] = Differ(x, y, 1) + Differ(x, y, 2) + Differ(x, y, 4) + Differ(x, y, 8) +
                   Differ(x, y, 16) + Differ(x, y, 32) + Differ(x, y, 64) + Differ(x, y, 128) +
                   Differ(x, y, 256) + Differ(x, y, 512) + Differ(x, y, 1024) + Differ(x, y, 2048) +
                   Differ(x, y, 4096) + Differ(x, y, 8192) + Differ(x, y, 16384) + Differ(x, y, 32768)
  BY DEF Xor
<1> QED BY <1>1, <1>2, <1>9, <1>10, <1>11, <1>12, <1>13, <1>14, <1>15, <1>16, <1>17

\* Eight steps on i in the upper half leave entry i.
Right(i) == Left(i * 256) = crc16_table[i + 1]

\* That holds below m.
RightBelow(m) == \A i \in 0..(m - 1) : Right(i)

\* What holds below m holds below 2m.
LEMMA RightTwice ==
  ASSUME NEW m \in 1..128, NEW n, n = 2 * m, RightBelow(m)
  PROVE  RightBelow(n)
<1> SUFFICES ASSUME NEW i \in 0..(n - 1) PROVE Right(i)
  BY DEF RightBelow
<1>1. PICK j \in 0..127, b \in {0, 1} : i = j * 2 + b /\ j \in 0..(m - 1)
  <2>1. /\ i \div 2 \in 0..127 /\ i % 2 \in {0, 1} /\ i = (i \div 2) * 2 + (i % 2)
        /\ i \div 2 \in 0..(m - 1)
    OBVIOUS
  <2> QED BY <2>1
<1>2. PICK k : k = j * 2
  OBVIOUS
<1>3. Doubles(j) /\ Right(j)
  BY <1>1, TableDoubles DEF RightBelow
<1>4. Left(k * 256) = crc16_table[k + 1]
  <2>1. Left(k * 256) = Divide(Left(j * 256))
    BY <1>2, LeftDouble
  <2>2. Left(j * 256) = crc16_table[j + 1]
    BY <1>3 DEF Right
  <2>3. crc16_table[2 * j + 1] = Divide(crc16_table[j + 1])
    BY <1>3 DEF Doubles
  <2>4. 2 * j + 1 = k + 1
    BY <1>2
  <2> QED BY <2>1, <2>2, <2>3, <2>4
<1>5. CASE b = 0
  <2>1. i = k
    BY <1>1, <1>2, <1>5
  <2> QED BY <1>4, <2>1 DEF Right
<1>6. CASE b = 1
  <2>1. k \in Nat /\ k < 255 /\ k % 2 = 0 /\ i = k + 1
    BY <1>1, <1>2, <1>6
  <2>2. PICK x \in Word : x = k * 256
    BY <2>1, WordIs
  <2>3. PICK y \in Word : y = 256
    BY WordIs
  <2>4. Xor[x][y] = i * 256
    BY <2>1, <2>2, <2>3, EvenXor
  <2>5. Left(Xor[x][y]) = Xor[Left(x)][Left(y)]
    BY LeftXor
  <2>6. Left(y) = \h1021
    BY <2>3, LeftOne
  <2>7. Left(x) = crc16_table[k + 1]
    BY <1>4, <2>2
  <2>8. crc16_table[2 * j + 2] = Xor[crc16_table[2 * j + 1]][\h1021]
    BY <1>3 DEF Doubles
  <2>9. 2 * j + 1 = k + 1 /\ 2 * j + 2 = i + 1
    BY <1>2, <2>1
  <2>10. Left(i * 256) = Xor[crc16_table[k + 1]][\h1021]
    BY <2>4, <2>5, <2>6, <2>7
  <2> QED BY <2>8, <2>9, <2>10 DEF Right
<1> QED BY <1>5, <1>6

\* Every entry is what eight steps leave of its number.
LEMMA TableRight == \A i \in 0..255 : Right(i)
<1>1. Right(0)
  <2>1. Left(0) = 0
    <3>1. Divide(0) = 0
      BY DEF Divide
    <3> QED BY <3>1, Zenon DEF Left
  <2>2. crc16_table[1] = 0
    BY DEF crc16_table
  <2> QED BY <2>1, <2>2 DEF Right
<1>2. RightBelow(1)
  BY <1>1 DEF RightBelow
<1>3. RightBelow(2)
  <2>1. PICK m \in 1..128 : m = 1
    OBVIOUS
  <2>2. PICK n : n = 2 * m
    OBVIOUS
  <2>3. RightBelow(m)
    BY <1>2, <2>1
  <2>4. RightBelow(n)
    BY <2>2, <2>3, RightTwice
  <2> QED BY <2>1, <2>2, <2>4
<1>4. RightBelow(4)
  <2>1. PICK m \in 1..128 : m = 2
    OBVIOUS
  <2>2. PICK n : n = 2 * m
    OBVIOUS
  <2>3. RightBelow(m)
    BY <1>3, <2>1
  <2>4. RightBelow(n)
    BY <2>2, <2>3, RightTwice
  <2> QED BY <2>1, <2>2, <2>4
<1>5. RightBelow(8)
  <2>1. PICK m \in 1..128 : m = 4
    OBVIOUS
  <2>2. PICK n : n = 2 * m
    OBVIOUS
  <2>3. RightBelow(m)
    BY <1>4, <2>1
  <2>4. RightBelow(n)
    BY <2>2, <2>3, RightTwice
  <2> QED BY <2>1, <2>2, <2>4
<1>6. RightBelow(16)
  <2>1. PICK m \in 1..128 : m = 8
    OBVIOUS
  <2>2. PICK n : n = 2 * m
    OBVIOUS
  <2>3. RightBelow(m)
    BY <1>5, <2>1
  <2>4. RightBelow(n)
    BY <2>2, <2>3, RightTwice
  <2> QED BY <2>1, <2>2, <2>4
<1>7. RightBelow(32)
  <2>1. PICK m \in 1..128 : m = 16
    OBVIOUS
  <2>2. PICK n : n = 2 * m
    OBVIOUS
  <2>3. RightBelow(m)
    BY <1>6, <2>1
  <2>4. RightBelow(n)
    BY <2>2, <2>3, RightTwice
  <2> QED BY <2>1, <2>2, <2>4
<1>8. RightBelow(64)
  <2>1. PICK m \in 1..128 : m = 32
    OBVIOUS
  <2>2. PICK n : n = 2 * m
    OBVIOUS
  <2>3. RightBelow(m)
    BY <1>7, <2>1
  <2>4. RightBelow(n)
    BY <2>2, <2>3, RightTwice
  <2> QED BY <2>1, <2>2, <2>4
<1>9. RightBelow(128)
  <2>1. PICK m \in 1..128 : m = 64
    OBVIOUS
  <2>2. PICK n : n = 2 * m
    OBVIOUS
  <2>3. RightBelow(m)
    BY <1>8, <2>1
  <2>4. RightBelow(n)
    BY <2>2, <2>3, RightTwice
  <2> QED BY <2>1, <2>2, <2>4
<1>10. RightBelow(256)
  <2>1. PICK m \in 1..128 : m = 128
    OBVIOUS
  <2>2. PICK n : n = 2 * m
    OBVIOUS
  <2>3. RightBelow(m)
    BY <1>9, <2>1
  <2>4. RightBelow(n)
    BY <2>2, <2>3, RightTwice
  <2> QED BY <2>1, <2>2, <2>4
<1> QED BY <1>10 DEF RightBelow

-----------------------------------------------------------------------------
(* A byte more *)

\* The exclusive or of bytes is a byte, also in the upper half.
LEMMA XorUpper ==
  ASSUME NEW a \in Byte, NEW b \in Byte, NEW x, NEW y, x = a * 256, y = b * 256
  PROVE  Xor[a][b] \in Byte /\ Xor[x][y] = Xor[a][b] * 256
<1>1. a \in Nat /\ a < 256 /\ b \in Nat /\ b < 256
  BY ByteNat
<1>2. /\ Differ(a, b, 256) = 0 /\ Differ(a, b, 512) = 0
      /\ Differ(a, b, 1024) = 0 /\ Differ(a, b, 2048) = 0
      /\ Differ(a, b, 4096) = 0 /\ Differ(a, b, 8192) = 0
      /\ Differ(a, b, 16384) = 0 /\ Differ(a, b, 32768) = 0
  BY <1>1 DEF Differ
<1>3. /\ Differ(x, y, 1) = 0 /\ Differ(x, y, 2) = 0
      /\ Differ(x, y, 4) = 0 /\ Differ(x, y, 8) = 0
      /\ Differ(x, y, 16) = 0 /\ Differ(x, y, 32) = 0
      /\ Differ(x, y, 64) = 0 /\ Differ(x, y, 128) = 0
  BY <1>1 DEF Differ
<1>d0. Differ(x, y, 256) = 256 * Differ(a, b, 1)
  <2>1. x \div 256 = a \div 1 /\ y \div 256 = b \div 1
    BY <1>1
  <2> QED BY <1>1, <2>1 DEF Differ
<1>d1. Differ(x, y, 512) = 256 * Differ(a, b, 2)
  <2>1. x \div 512 = a \div 2 /\ y \div 512 = b \div 2
    BY <1>1
  <2> QED BY <1>1, <2>1 DEF Differ
<1>d2. Differ(x, y, 1024) = 256 * Differ(a, b, 4)
  <2>1. x \div 1024 = a \div 4 /\ y \div 1024 = b \div 4
    BY <1>1
  <2> QED BY <1>1, <2>1 DEF Differ
<1>d3. Differ(x, y, 2048) = 256 * Differ(a, b, 8)
  <2>1. x \div 2048 = a \div 8 /\ y \div 2048 = b \div 8
    BY <1>1
  <2> QED BY <1>1, <2>1 DEF Differ
<1>d4. Differ(x, y, 4096) = 256 * Differ(a, b, 16)
  <2>1. x \div 4096 = a \div 16 /\ y \div 4096 = b \div 16
    BY <1>1
  <2> QED BY <1>1, <2>1 DEF Differ
<1>d5. Differ(x, y, 8192) = 256 * Differ(a, b, 32)
  <2>1. x \div 8192 = a \div 32 /\ y \div 8192 = b \div 32
    BY <1>1
  <2> QED BY <1>1, <2>1 DEF Differ
<1>d6. Differ(x, y, 16384) = 256 * Differ(a, b, 64)
  <2>1. x \div 16384 = a \div 64 /\ y \div 16384 = b \div 64
    BY <1>1
  <2> QED BY <1>1, <2>1 DEF Differ
<1>d7. Differ(x, y, 32768) = 256 * Differ(a, b, 128)
  <2>1. x \div 32768 = a \div 128 /\ y \div 32768 = b \div 128
    BY <1>1
  <2> QED BY <1>1, <2>1 DEF Differ
<1>4. /\ Differ(a, b, 1) \in Nat /\ Differ(a, b, 1) <= 1
      /\ Differ(a, b, 2) \in Nat /\ Differ(a, b, 2) <= 2
      /\ Differ(a, b, 4) \in Nat /\ Differ(a, b, 4) <= 4
      /\ Differ(a, b, 8) \in Nat /\ Differ(a, b, 8) <= 8
      /\ Differ(a, b, 16) \in Nat /\ Differ(a, b, 16) <= 16
      /\ Differ(a, b, 32) \in Nat /\ Differ(a, b, 32) <= 32
      /\ Differ(a, b, 64) \in Nat /\ Differ(a, b, 64) <= 64
      /\ Differ(a, b, 128) \in Nat /\ Differ(a, b, 128) <= 128
  BY <1>1, DifferIs
<1>5. Xor[a][b] = Differ(a, b, 1) + Differ(a, b, 2) + Differ(a, b, 4) + Differ(a, b, 8) +
                   Differ(a, b, 16) + Differ(a, b, 32) + Differ(a, b, 64) + Differ(a, b, 128) +
                   Differ(a, b, 256) + Differ(a, b, 512) + Differ(a, b, 1024) + Differ(a, b, 2048) +
                   Differ(a, b, 4096) + Differ(a, b, 8192) + Differ(a, b, 16384) + Differ(a, b, 32768)
  BY <1>1 DEF Xor
<1>6. Xor[x][y] = Differ(x, y, 1) + Differ(x, y, 2) + Differ(x, y, 4) + Differ(x, y, 8) +
                   Differ(x, y, 16) + Differ(x, y, 32) + Differ(x, y, 64) + Differ(x, y, 128) +
                   Differ(x, y, 256) + Differ(x, y, 512) + Differ(x, y, 1024) + Differ(x, y, 2048) +
                   Differ(x, y, 4096) + Differ(x, y, 8192) + Differ(x, y, 16384) + Differ(x, y, 32768)
  BY <1>1 DEF Xor
<1>7. Xor[a][b] = Differ(a, b, 1) + Differ(a, b, 2) + Differ(a, b, 4) + Differ(a, b, 8) +
                   Differ(a, b, 16) + Differ(a, b, 32) + Differ(a, b, 64) + Differ(a, b, 128)
  BY <1>2, <1>4, <1>5
<1>8. /\ Differ(x, y, 256) \in Nat /\ Differ(x, y, 256) <= 256
      /\ Differ(x, y, 512) \in Nat /\ Differ(x, y, 512) <= 512
      /\ Differ(x, y, 1024) \in Nat /\ Differ(x, y, 1024) <= 1024
      /\ Differ(x, y, 2048) \in Nat /\ Differ(x, y, 2048) <= 2048
      /\ Differ(x, y, 4096) \in Nat /\ Differ(x, y, 4096) <= 4096
      /\ Differ(x, y, 8192) \in Nat /\ Differ(x, y, 8192) <= 8192
      /\ Differ(x, y, 16384) \in Nat /\ Differ(x, y, 16384) <= 16384
      /\ Differ(x, y, 32768) \in Nat /\ Differ(x, y, 32768) <= 32768
  <2>1. x \in Nat /\ y \in Nat
    BY <1>1
  <2>2. \A bit \in Nat : bit > 0 => Differ(x, y, bit) \in Nat /\ Differ(x, y, bit) <= bit
    BY ONLY <2>1, DifferIs, Zenon
  <2> QED BY ONLY <2>2
<1>9. Xor[x][y] = Differ(x, y, 256) + Differ(x, y, 512) + Differ(x, y, 1024) + Differ(x, y, 2048) +
                   Differ(x, y, 4096) + Differ(x, y, 8192) + Differ(x, y, 16384) + Differ(x, y, 32768)
  BY <1>3, <1>6, <1>8
<1>10. Xor[x][y] = 256 * Differ(a, b, 1) + 256 * Differ(a, b, 2) + 256 * Differ(a, b, 4) +
                   256 * Differ(a, b, 8) + 256 * Differ(a, b, 16) + 256 * Differ(a, b, 32) +
                   256 * Differ(a, b, 64) + 256 * Differ(a, b, 128)
  BY ONLY <1>9, <1>d0, <1>d1, <1>d2, <1>d3, <1>d4, <1>d5, <1>d6, <1>d7
<1>11. Xor[a][b] \in Byte /\ Xor[x][y] = Xor[a][b] * 256
  <2>1. PICK v0, v1, v2, v3, v4, v5, v6, v7 :
          /\ v0 = Differ(a, b, 1) /\ v1 = Differ(a, b, 2) /\ v2 = Differ(a, b, 4)
          /\ v3 = Differ(a, b, 8) /\ v4 = Differ(a, b, 16) /\ v5 = Differ(a, b, 32)
          /\ v6 = Differ(a, b, 64) /\ v7 = Differ(a, b, 128)
    OBVIOUS
  <2>2. /\ v0 \in Nat /\ v0 <= 1 /\ v1 \in Nat /\ v1 <= 2
        /\ v2 \in Nat /\ v2 <= 4 /\ v3 \in Nat /\ v3 <= 8
        /\ v4 \in Nat /\ v4 <= 16 /\ v5 \in Nat /\ v5 <= 32
        /\ v6 \in Nat /\ v6 <= 64 /\ v7 \in Nat /\ v7 <= 128
    BY <1>4, <2>1
  <2>3. Xor[x][y] = 256 * v0 + 256 * v1 + 256 * v2 + 256 * v3 + 256 * v4 + 256 * v5 + 256 * v6 + 256 * v7
    BY ONLY <1>10, <2>1
  <2>4. Xor[a][b] = v0 + v1 + v2 + v3 + v4 + v5 + v6 + v7
    BY ONLY <1>7, <2>1
  <2> QED BY ONLY <2>2, <2>3, <2>4 DEF Byte
<1> QED BY <1>11

\* c has a bit of l, of x, or of neither.
OneOf(c, l, x, place) ==
  \/ Bit(c, place) = Bit(l, place) /\ Bit(x, place) = 0
  \/ Bit(c, place) = Bit(x, place) /\ Bit(l, place) = 0

\* A word is made of two bytes.
LEMMA TwoHalves ==
  ASSUME NEW h \in Byte, NEW l \in Byte, NEW x, NEW c, x = h * 256, c = h * 256 + l
  PROVE  Xor[l][x] = c
<1>1. h \in Nat /\ h < 256 /\ l \in Nat /\ l < 256
  BY ByteNat
<1>2. l \in Word /\ x \in Word /\ c \in Word
  BY <1>1, WordIs
<1>b0. OneOf(c, l, x, 1)
  <2>1. (c \div 1) % 2 = (l \div 1) % 2 /\ (x \div 1) % 2 = 0
    BY <1>1
  <2> QED BY <2>1 DEF OneOf, Bit
<1>b1. OneOf(c, l, x, 2)
  <2>1. (c \div 2) % 2 = (l \div 2) % 2 /\ (x \div 2) % 2 = 0
    BY <1>1
  <2> QED BY <2>1 DEF OneOf, Bit
<1>b2. OneOf(c, l, x, 4)
  <2>1. (c \div 4) % 2 = (l \div 4) % 2 /\ (x \div 4) % 2 = 0
    BY <1>1
  <2> QED BY <2>1 DEF OneOf, Bit
<1>b3. OneOf(c, l, x, 8)
  <2>1. (c \div 8) % 2 = (l \div 8) % 2 /\ (x \div 8) % 2 = 0
    BY <1>1
  <2> QED BY <2>1 DEF OneOf, Bit
<1>b4. OneOf(c, l, x, 16)
  <2>1. (c \div 16) % 2 = (l \div 16) % 2 /\ (x \div 16) % 2 = 0
    BY <1>1
  <2> QED BY <2>1 DEF OneOf, Bit
<1>b5. OneOf(c, l, x, 32)
  <2>1. (c \div 32) % 2 = (l \div 32) % 2 /\ (x \div 32) % 2 = 0
    BY <1>1
  <2> QED BY <2>1 DEF OneOf, Bit
<1>b6. OneOf(c, l, x, 64)
  <2>1. (c \div 64) % 2 = (l \div 64) % 2 /\ (x \div 64) % 2 = 0
    BY <1>1
  <2> QED BY <2>1 DEF OneOf, Bit
<1>b7. OneOf(c, l, x, 128)
  <2>1. (c \div 128) % 2 = (l \div 128) % 2 /\ (x \div 128) % 2 = 0
    BY <1>1
  <2> QED BY <2>1 DEF OneOf, Bit
<1>b8. OneOf(c, l, x, 256)
  <2>1. c \div 256 = x \div 256 /\ (l \div 256) % 2 = 0
    BY <1>1
  <2> QED BY <2>1 DEF OneOf, Bit
<1>b9. OneOf(c, l, x, 512)
  <2>1. c \div 512 = x \div 512 /\ (l \div 512) % 2 = 0
    BY <1>1
  <2> QED BY <2>1 DEF OneOf, Bit
<1>b10. OneOf(c, l, x, 1024)
  <2>1. c \div 1024 = x \div 1024 /\ (l \div 1024) % 2 = 0
    BY <1>1
  <2> QED BY <2>1 DEF OneOf, Bit
<1>b11. OneOf(c, l, x, 2048)
  <2>1. c \div 2048 = x \div 2048 /\ (l \div 2048) % 2 = 0
    BY <1>1
  <2> QED BY <2>1 DEF OneOf, Bit
<1>b12. OneOf(c, l, x, 4096)
  <2>1. c \div 4096 = x \div 4096 /\ (l \div 4096) % 2 = 0
    BY <1>1
  <2> QED BY <2>1 DEF OneOf, Bit
<1>b13. OneOf(c, l, x, 8192)
  <2>1. c \div 8192 = x \div 8192 /\ (l \div 8192) % 2 = 0
    BY <1>1
  <2> QED BY <2>1 DEF OneOf, Bit
<1>b14. OneOf(c, l, x, 16384)
  <2>1. c \div 16384 = x \div 16384 /\ (l \div 16384) % 2 = 0
    BY <1>1
  <2> QED BY <2>1 DEF OneOf, Bit
<1>b15. OneOf(c, l, x, 32768)
  <2>1. c \div 32768 = x \div 32768 /\ (l \div 32768) % 2 = 0
    BY <1>1
  <2> QED BY <2>1 DEF OneOf, Bit
<1>3. \A place \in Places : OneOf(c, l, x, place)
  BY <1>b0, <1>b1, <1>b2, <1>b3, <1>b4, <1>b5, <1>b6, <1>b7, <1>b8, <1>b9, <1>b10, <1>b11, <1>b12,
     <1>b13, <1>b14, <1>b15 DEF Places
<1>4. Xor[l][x] \in Word
  BY <1>2, WordNat, XorWord
<1>5. ASSUME NEW place \in Places PROVE Bit(Xor[l][x], place) = Bit(c, place)
  <2>1. Bit(Xor[l][x], place) = (Bit(l, place) + Bit(x, place)) % 2
    BY <1>2, WordNat, XorBits
  <2>2. Bit(l, place) \in {0, 1} /\ Bit(x, place) \in {0, 1}
    BY <1>2, WordNat, BitIs
  <2> QED BY <1>3, <2>1, <2>2 DEF OneOf
<1> QED BY <1>2, <1>4, <1>5, SameBits

\* The look-up of crc16_byte is the division of one byte more.
LEMMA CrcByteIsRemainder ==
  ASSUME NEW c \in Word, NEW b \in Byte
  PROVE  crc16_byte(c, b) = ByteRemainder(c, b)
<1>1. PICK h \in Byte, l \in Byte : c = h * 256 + l /\ c \div 256 = h /\ (c * 256) % 65536 = l * 256
  <2>1. c \in Nat /\ c < 65536
    BY WordIs
  <2>2. /\ c \div 256 \in Byte /\ c % 256 \in Byte /\ c = (c \div 256) * 256 + (c % 256)
        /\ (c * 256) % 65536 = (c % 256) * 256
    BY <2>1 DEF Byte
  <2> QED BY <2>2
<1>2. PICK x, y, z : x = h * 256 /\ y = b * 256 /\ z = l * 256
  OBVIOUS
<1>3. x \in Word /\ y \in Word /\ z \in Word /\ l \in Word
  BY <1>2, ByteNat, WordIs
<1>4. PICK i \in Byte : i = Xor[h][b]
  BY <1>2, XorUpper
<1>5. i % 256 = i /\ i + 1 \in 1..256
  BY DEF Byte
<1>6. crc16_byte(c, b) = Xor[z][crc16_table[i + 1]]
  <2>1. crc16_byte(c, b) = Xor[(c * 256) % 65536][crc16_table[(Xor[c \div 256][b] % 256) + 1]]
    BY DEF crc16_byte
  <2> QED BY <2>1, <1>1, <1>2, <1>4, <1>5
<1>7. Xor[c][y] = Xor[l][Xor[x][y]]
  <2>1. c = Xor[l][x]
    BY <1>1, <1>2, TwoHalves
  <2> QED BY <1>3, <2>1, XorGroups
<1>8. Xor[x][y] \in Word /\ Xor[x][y] = i * 256
  BY <1>2, <1>3, <1>4, XorUpper, XorWord, WordNat
<1>9. Left(Xor[c][y]) = Xor[Left(l)][Left(Xor[x][y])]
  BY <1>3, <1>7, <1>8, LeftXor
<1>10. Left(l) = z
  BY <1>2, LeftByte
<1>11. Left(Xor[x][y]) = crc16_table[i + 1]
  <2>1. Right(i)
    BY TableRight DEF Byte
  <2> QED BY <2>1, <1>8 DEF Right
<1>12. ByteRemainder(c, b) = Left(Xor[c][y])
  BY <1>2, ByteRemainderIs
<1> QED BY <1>6, <1>9, <1>10, <1>11, <1>12

-----------------------------------------------------------------------------
(* The whole message *)

\* Remainder goes on byte by byte, as the CRC does.
LEMMA RemainderIs ==
  ASSUME NEW buffer \in Seq(Byte)
  PROVE  \E f : Crcs(f, buffer) /\ Remainder(buffer) = f[Len(buffer)]
<1> DEFINE n == Len(buffer)
<1>0. n \in Nat
  BY BytesOf
<1> USE <1>0
<1>1. \A i \in 1..n, c \in Word : /\ ByteRemainder(c, buffer[i]) = crc16_byte(c, buffer[i])
                                 /\ crc16_byte(c, buffer[i]) \in Word
  BY BytesOf, CrcByteWord, CrcByteIsRemainder
<1>a. 0 \in Word
  BY DEF Word
<1> DEFINE step == [i \in 1..n |-> [c \in Word |-> ByteRemainder(c, buffer[i])]]
<1>2. step \in Steps(n, Word)
  BY <1>1 DEF Steps
<1>3. \A i \in 1..n, c \in Word : step[i][c] = ByteRemainder(c, buffer[i])
  OBVIOUS
<1> DEFINE Eq(g) == [i \in 0..n |-> IF i = 0 THEN 0 ELSE ByteRemainder(g[i - 1], buffer[i])]
           upto == CHOOSE g : g = Eq(g)
<1> HIDE DEF step, n
<1>4. PICK f : Follows(f, n, Word, 0, step)
  BY <1>a, <1>2, Recursion
<1>5. f = Eq(f)
  BY <1>3, <1>4 DEF Follows
<1>6. upto = Eq(upto)
  <2> HIDE DEF Eq
  <2> QED BY <1>5
<1>7. Remainder(buffer) = upto[n]
  BY DEF Remainder, n
<1> HIDE DEF upto
<1>8. Unfolds(upto, n, Word, 0, step)
  BY <1>6, <1>3 DEF Unfolds
<1>9. Follows(upto, n, Word, 0, step)
  BY <1>a, <1>2, <1>8, UnfoldsFollows
<1>10. Crcs(upto, buffer)
  <2>1. /\ upto \in [0..n -> Word] /\ upto[0] = 0
        /\ \A i \in 1..n : upto[i] = step[i][upto[i - 1]]
    BY <1>9 DEF Follows
  <2>2. ASSUME NEW i \in 1..n PROVE upto[i] = crc16_byte(upto[i - 1], buffer[i])
    <3>1. upto[i - 1] \in Word
      BY <2>1
    <3> QED BY <3>1, <2>1, <1>1, <1>3
  <2> QED BY <2>1, <2>2 DEF Crcs, n
<1> QED BY <1>7, <1>10 DEF n

\* The CRCs of the first bytes are determined.
LEMMA CrcsUnique ==
  ASSUME NEW buffer \in Seq(Byte), NEW f, NEW g, Crcs(f, buffer), Crcs(g, buffer)
  PROVE  f[Len(buffer)] = g[Len(buffer)]
<1> DEFINE n == Len(buffer)
           G == {i \in 0..n : f[i] = g[i]}
<1>1. n \in Nat
  BY BytesOf
<1>2. 0 \in G
  BY <1>1 DEF Crcs
<1>3. \A i \in 1..n : i - 1 \in G => i \in G
  BY <1>1 DEF Crcs
<1>4. \A i \in 0..n : i \in G
  <2> HIDE DEF G, n
  <2> QED BY <1>1, <1>2, <1>3, Induction
<1>5. n \in 0..n
  BY <1>1
<1> QED BY <1>4, <1>5

\* The CRC of src/checksum.h is the remainder of the division, for every sequence of
\* bytes: the entries of crc16_table are right, and the shifts around the look-up too.
THEOREM CrcIsRemainder ==
  ASSUME NEW buffer \in Seq(Byte)
  PROVE  crc16(0, buffer) = Remainder(buffer)
<1>1. PICK f : Crcs(f, buffer) /\ crc16(0, buffer) = f[Len(buffer)]
  BY CrcIs
<1>2. PICK g : Crcs(g, buffer) /\ Remainder(buffer) = g[Len(buffer)]
  BY RemainderIs
<1> QED BY <1>1, <1>2, CrcsUnique

=============================================================================
