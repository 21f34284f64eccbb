------------------------- MODULE FrameRequestsProofs -------------------------
(***************************************************************************)
(* Every request is understood, for any sizes, offsets and data: those     *)
(* that are escaped by the theorem about escaping, those that are not      *)
(* because none of their bytes is 0x7d or 0x7e, their checksums included.  *)
(* Its CRC is then the one that the division gives.                        *)
(***************************************************************************)
EXTENDS FrameRequests, SprdFrameProofs

-----------------------------------------------------------------------------
(* Requests that are escaped *)

\* The numbers of the commands are bytes.
LEMMA CommandBytes ==
  /\ NoDataCommands \subseteq Byte
  /\ BSL_CMD_START_DATA \in Byte /\ BSL_CMD_MIDST_DATA \in Byte
  /\ BSL_CMD_READ_FLASH_START \in Byte /\ BSL_CMD_READ_FLASH_MIDST \in Byte
BY DEF NoDataCommands, Byte, BSL_CMD_CONNECT, BSL_CMD_START_DATA, BSL_CMD_MIDST_DATA,
       BSL_CMD_END_DATA, BSL_CMD_EXEC_DATA, BSL_CMD_NORMAL_RESET, BSL_CMD_READ_FLASH_START,
       BSL_CMD_READ_FLASH_MIDST, BSL_CMD_READ_FLASH_END, BSL_CMD_POWER_DOWN_TYPE

\* A function on 1..n with bytes for values is a sequence of n bytes.
LEMMA BytesSeq ==
  ASSUME NEW n \in Nat, NEW s \in [1..n -> Byte]
  PROVE  s \in Seq(Byte) /\ Len(s) = n
OBVIOUS

\* The names of part_table are bytes.
LEMMA NameBytes == \A name \in DOMAIN Names : Names[name] \in Seq(Byte) /\ Len(Names[name]) <= 10
<1>1. /\ Names.boot \in Seq(Byte) /\ Len(Names.boot) <= 10
      /\ Names.data \in Seq(Byte) /\ Len(Names.data) <= 10
  BY DEF Names, Byte
<1>2. /\ Names.syberfs \in Seq(Byte) /\ Len(Names.syberfs) <= 10
      /\ Names.internalsd \in Seq(Byte) /\ Len(Names.internalsd) <= 10
      /\ Names.l_fixnv1 \in Seq(Byte) /\ Len(Names.l_fixnv1) <= 10
  BY DEF Names, Byte
<1>3. DOMAIN Names = {"boot", "data", "syberfs", "internalsd", "l_fixnv1"}
  BY DEF Names
<1> QED BY <1>1, <1>2, <1>3

\* A wide name is 72 bytes.
LEMMA WideBytes ==
  ASSUME NEW name \in Seq(Byte)
  PROVE  Wide(name) \in Seq(Byte) /\ Len(Wide(name)) = 72
<1>1. Len(name) \in Nat /\ \A i \in 1..Len(name) : name[i] \in Byte
  BY BytesOf
<1>2. \A i \in 1..72 : i % 2 = 1 => (i + 1) \div 2 \in Nat /\ (i + 1) \div 2 >= 1
  OBVIOUS
<1>3. 0 \in Byte
  BY DEF Byte
<1> DEFINE at(i) == IF i % 2 = 1 /\ (i + 1) \div 2 <= Len(name) THEN name[(i + 1) \div 2] ELSE 0
<1>4. ASSUME NEW i \in 1..72 PROVE at(i) \in Byte
  BY <1>1, <1>2, <1>3
<1> HIDE DEF at
<1>5. [i \in 1..72 |-> at(i)] \in [1..72 -> Byte]
  BY <1>4
<1>6. Wide(name) = [i \in 1..72 |-> at(i)]
  BY DEF Wide, at
<1>7. Wide(name) \in [1..72 -> Byte]
  BY <1>5, <1>6
<1> HIDE DEF at
<1> QED BY <1>7, BytesSeq

\* Four bytes are a word.
LEMMA WordBytes ==
  /\ \A w \in Words : w \in Seq(Byte) /\ Len(w) = 4
  /\ MaxSize \in Seq(Byte) /\ Len(MaxSize) = 4
<1>1. \A w \in Words : w \in [1..4 -> Byte]
  BY FrameRequestsAssumption DEF Byte
<1>2. MaxSize \in Seq(Byte) /\ Len(MaxSize) = 4
  BY DEF MaxSize, Byte
<1> QED BY <1>1, <1>2, BytesSeq

\* What is appended to bytes.
LEMMA Appended ==
  ASSUME NEW s \in Seq(Byte), NEW t \in Seq(Byte), NEW m \in Nat, NEW n \in Nat,
         Len(s) = m, Len(t) = n
  PROVE  s \o t \in Seq(Byte) /\ Len(s \o t) = m + n
BY ConcatProperties

\* START_DATA of sprd_download_partition.
LEMMA PartitionStartData ==
  ASSUME NEW name \in DOMAIN Names, NEW size \in Words, NEW end \in Words \cup {<<>>}
  PROVE  /\ Wide(Names[name]) \o size \o end \in Seq(Byte)
         /\ Len(Wide(Names[name]) \o size \o end) < 65536
<1> DEFINE wide == Wide(Names[name])
           front == wide \o size
<1>1. wide \in Seq(Byte) /\ Len(wide) = 72
  BY NameBytes, WideBytes
<1>2. size \in Seq(Byte) /\ Len(size) = 4
  BY WordBytes
<1>3. PICK n \in 0..4 : end \in Seq(Byte) /\ Len(end) = n
  <2>1. CASE end \in Words
    BY <2>1, WordBytes
  <2>2. CASE end = <<>>
    BY <2>2
  <2> QED BY <2>1, <2>2
<1> HIDE DEF wide
<1>4. PICK a \in Nat, b \in Nat, m \in Nat : a = 72 /\ b = 4 /\ m = 76
  OBVIOUS
<1>5. front \in Seq(Byte) /\ Len(front) = a + b
  <2>1. Len(wide) = a /\ Len(size) = b
    BY <1>1, <1>2, <1>4
  <2> QED BY <1>1, <1>2, <2>1, Appended
<1> HIDE DEF front
<1>6. front \o end \in Seq(Byte) /\ Len(front \o end) = m + n
  <2>1. Len(front) = m
    BY <1>4, <1>5
  <2> QED BY <1>3, <1>5, <2>1, Appended
<1>7. Len(front \o end) < 65536
  BY <1>3, <1>4, <1>6
<1> QED BY <1>6, <1>7 DEF front, wide

\* READ_FLASH_START of sprd_upload.
LEMMA UploadStartData ==
  ASSUME NEW name \in DOMAIN Names
  PROVE  /\ Wide(Names[name]) \o MaxSize \in Seq(Byte)
         /\ Len(Wide(Names[name]) \o MaxSize) = 76
<1> DEFINE wide == Wide(Names[name])
<1>1. wide \in Seq(Byte) /\ Len(wide) = 72
  BY NameBytes, WideBytes
<1> HIDE DEF wide
<1>2. PICK a \in Nat, b \in Nat : a = 72 /\ b = 4
  OBVIOUS
<1>3. wide \o MaxSize \in Seq(Byte) /\ Len(wide \o MaxSize) = a + b
  <2>1. MaxSize \in Seq(Byte) /\ Len(MaxSize) = b /\ Len(wide) = a
    BY <1>1, <1>2, WordBytes
  <2> QED BY <1>1, <2>1, Appended
<1>4. Len(wide \o MaxSize) = 76
  BY <1>2, <1>3
<1> QED BY <1>3, <1>4 DEF wide

\* READ_FLASH_MIDST of sprd_upload, USB_disk_read and blockdev_bread.
LEMMA ReadMidstData ==
  ASSUME NEW size \in Words, NEW offset \in Words
  PROVE  size \o offset \in Seq(Byte) /\ Len(size \o offset) < 65536
<1>1. PICK a \in Nat : a = 4
  OBVIOUS
<1>2. size \in Seq(Byte) /\ Len(size) = a /\ offset \in Seq(Byte) /\ Len(offset) = a
  BY <1>1, WordBytes
<1>3. size \o offset \in Seq(Byte) /\ Len(size \o offset) = a + a
  BY <1>2, Appended
<1> QED BY <1>1, <1>3

\* MIDST_DATA of both downloads.
LEMMA MidstDataData ==
  ASSUME NEW chunk \in Chunks
  PROVE  chunk \in Seq(Byte) /\ Len(chunk) < 65536
BY FrameRequestsAssumption DEF Byte

-----------------------------------------------------------------------------
(* Checksums of the requests that are not escaped *)

\* One byte of the CRC, with the numbers on the way: the look-up of i gives v, l is the rest.
Goes(c, b, h, i, v, l, e) ==
  /\ c \div 256 = h /\ Xor[h][b] = i /\ i % 256 = i
  /\ crc16_table[i + 1] = v
  /\ (c * 256) % 65536 = l /\ Xor[l][v] = e

\* That is what crc16_byte does.
LEMMA GoesTo ==
  \A c, b, h, i, v, l, e : Goes(c, b, h, i, v, l, e) => crc16_byte(c, b) = e
<1>1. 2^16 = 65536
  OBVIOUS
<1> QED BY <1>1 DEF crc16_byte, Goes

\* The CRC of the frames of sprd_com_nodata, byte by byte.
LEMMA CommandSteps ==
  /\ crc16_byte(0, 0) = 0
  /\ crc16_byte(0, \h3) = \h3063
  /\ crc16_byte(\h3063, 0) = \h5553
  /\ crc16_byte(\h5553, 0) = \h5950
  /\ crc16_byte(0, \h4) = \h4084
  /\ crc16_byte(\h4084, 0) = \hccc4
  /\ crc16_byte(\hccc4, 0) = \hdcc0
  /\ crc16_byte(0, \h5) = \h50a5
  /\ crc16_byte(\h50a5, 0) = \hfff5
  /\ crc16_byte(\hfff5, 0) = \hebf0
  /\ crc16_byte(0, \h12) = \h3273
  /\ crc16_byte(\h3273, 0) = \h6511
  /\ crc16_byte(\h6511, 0) = \h2d03
  /\ crc16_byte(0, \h17) = \h62d6
  /\ crc16_byte(\h62d6, 0) = \h9ae4
  /\ crc16_byte(\h9ae4, 0) = \hc6f3
<1>1. Goes(0, 0, 0, 0, 0, 0, 0) BY DEF Goes, Xor, Differ, crc16_table
<1>2. Goes(0, \h3, 0, \h3, \h3063, 0, \h3063) BY DEF Goes, Xor, Differ, crc16_table
<1>3. Goes(\h3063, 0, \h30, \h30, \h3653, \h6300, \h5553) BY DEF Goes, Xor, Differ, crc16_table
<1>4. Goes(\h5553, 0, \h55, \h55, \ha50, \h5300, \h5950) BY DEF Goes, Xor, Differ, crc16_table
<1>5. Goes(0, \h4, 0, \h4, \h4084, 0, \h4084) BY DEF Goes, Xor, Differ, crc16_table
<1>6. Goes(\h4084, 0, \h40, \h40, \h48c4, \h8400, \hccc4) BY DEF Goes, Xor, Differ, crc16_table
<1>7. Goes(\hccc4, 0, \hcc, \hcc, \h18c0, \hc400, \hdcc0) BY DEF Goes, Xor, Differ, crc16_table
<1>8. Goes(0, \h5, 0, \h5, \h50a5, 0, \h50a5) BY DEF Goes, Xor, Differ, crc16_table
<1>9. Goes(\h50a5, 0, \h50, \h50, \h5af5, \ha500, \hfff5) BY DEF Goes, Xor, Differ, crc16_table
<1>10. Goes(\hfff5, 0, \hff, \hff, \h1ef0, \hf500, \hebf0) BY DEF Goes, Xor, Differ, crc16_table
<1>11. Goes(0, \h12, 0, \h12, \h3273, 0, \h3273) BY DEF Goes, Xor, Differ, crc16_table
<1>12. Goes(\h3273, 0, \h32, \h32, \h1611, \h7300, \h6511) BY DEF Goes, Xor, Differ, crc16_table
<1>13. Goes(\h6511, 0, \h65, \h65, \h3c03, \h1100, \h2d03) BY DEF Goes, Xor, Differ, crc16_table
<1>14. Goes(0, \h17, 0, \h17, \h62d6, 0, \h62d6) BY DEF Goes, Xor, Differ, crc16_table
<1>15. Goes(\h62d6, 0, \h62, \h62, \h4ce4, \hd600, \h9ae4) BY DEF Goes, Xor, Differ, crc16_table
<1>16. Goes(\h9ae4, 0, \h9a, \h9a, \h22f3, \he400, \hc6f3) BY DEF Goes, Xor, Differ, crc16_table
<1> QED BY <1>1, <1>2, <1>3, <1>4, <1>5, <1>6, <1>7, <1>8, <1>9, <1>10, <1>11, <1>12, <1>13,
           <1>14, <1>15, <1>16, GoesTo

\* The CRC of START_DATA for FDL1, byte by byte.
LEMMA StartSteps ==
  /\ crc16_byte(0, 0) = 0
  /\ crc16_byte(0, \h1) = \h1021
  /\ crc16_byte(\h1021, 0) = \h3331
  /\ crc16_byte(\h3331, \h8) = \hb638
  /\ crc16_byte(\hb638, \h50) = \ha5e8
  /\ crc16_byte(\ha5e8, 0) = \hd4f
  /\ crc16_byte(\hd4f, 0) = \h9ead
  /\ crc16_byte(\h9ead, 0) = \hcf77
  /\ crc16_byte(\hcf77, 0) = \h5fa3
  /\ crc16_byte(\h5fa3, 0) = \h81a
  /\ crc16_byte(\h81a, \h50) = \hc1fd
  /\ crc16_byte(\hc1fd, \h9d) = \h6679
<1>1. Goes(0, 0, 0, 0, 0, 0, 0) BY DEF Goes, Xor, Differ, crc16_table
<1>2. Goes(0, \h1, 0, \h1, \h1021, 0, \h1021) BY DEF Goes, Xor, Differ, crc16_table
<1>3. Goes(\h1021, 0, \h10, \h10, \h1231, \h2100, \h3331) BY DEF Goes, Xor, Differ, crc16_table
<1>4. Goes(\h3331, \h8, \h33, \h3b, \h8738, \h3100, \hb638) BY DEF Goes, Xor, Differ, crc16_table
<1>5. Goes(\hb638, \h50, \hb6, \he6, \h9de8, \h3800, \ha5e8) BY DEF Goes, Xor, Differ, crc16_table
<1>6. Goes(\ha5e8, 0, \ha5, \ha5, \he54f, \he800, \hd4f) BY DEF Goes, Xor, Differ, crc16_table
<1>7. Goes(\hd4f, 0, \hd, \hd, \hd1ad, \h4f00, \h9ead) BY DEF Goes, Xor, Differ, crc16_table
<1>8. Goes(\h9ead, 0, \h9e, \h9e, \h6277, \had00, \hcf77) BY DEF Goes, Xor, Differ, crc16_table
<1>9. Goes(\hcf77, 0, \hcf, \hcf, \h28a3, \h7700, \h5fa3) BY DEF Goes, Xor, Differ, crc16_table
<1>10. Goes(\h5fa3, 0, \h5f, \h5f, \hab1a, \ha300, \h81a) BY DEF Goes, Xor, Differ, crc16_table
<1>11. Goes(\h81a, \h50, \h8, \h58, \hdbfd, \h1a00, \hc1fd) BY DEF Goes, Xor, Differ, crc16_table
<1>12. Goes(\hc1fd, \h9d, \hc1, \h5c, \h9b79, \hfd00, \h6679) BY DEF Goes, Xor, Differ, crc16_table
<1> QED BY <1>1, <1>2, <1>3, <1>4, <1>5, <1>6, <1>7, <1>8, <1>9, <1>10, <1>11, <1>12, GoesTo

\* What the checksum is about: all but the start byte, the checksum and the end byte.
LEMMA BodyIs ==
  ASSUME NEW w \in Seq(Byte), NEW m \in Nat, Len(w) = m + 4
  PROVE  /\ SubSeq(w, 2, m + 1) \in Seq(Byte) /\ Len(SubSeq(w, 2, m + 1)) = m
         /\ \A i \in 1..m : SubSeq(w, 2, m + 1)[i] = w[i + 1]
<1>1. \A i \in 2..(m + 1) : w[i] \in Byte
  BY BytesOf
<1>2. /\ SubSeq(w, 2, m + 1) \in Seq(Byte) /\ Len(SubSeq(w, 2, m + 1)) = m
      /\ \A i \in 1..m : SubSeq(w, 2, m + 1)[i] = w[2 + i - 1]
  BY <1>1, SubSeqProperties
<1>3. \A i \in 1..m : 2 + i - 1 = i + 1
  OBVIOUS
<1> QED BY <1>2, <1>3

\* What the data is.
LEMMA DataIs ==
  ASSUME NEW w \in Seq(Byte), NEW n \in Nat, Len(w) = n + 8
  PROVE  /\ SubSeq(w, 6, n + 5) \in Seq(Byte) /\ Len(SubSeq(w, 6, n + 5)) = n
         /\ \A i \in 1..n : SubSeq(w, 6, n + 5)[i] = w[i + 5]
<1>1. \A i \in 6..(n + 5) : w[i] \in Byte
  BY BytesOf
<1>2. /\ SubSeq(w, 6, n + 5) \in Seq(Byte) /\ Len(SubSeq(w, 6, n + 5)) = n
      /\ \A i \in 1..n : SubSeq(w, 6, n + 5)[i] = w[6 + i - 1]
  BY <1>1, SubSeqProperties
<1>3. \A i \in 1..n : 6 + i - 1 = i + 5
  OBVIOUS
<1> QED BY <1>2, <1>3

\* The checksums of four bytes.
LEMMA FourBytes ==
  ASSUME NEW t \in Seq(Byte), Len(t) = 4, NEW c, t[1] = 0, t[2] = c, t[3] = 0, t[4] = 0
  PROVE  /\ crc16(0, t) = crc16_byte(crc16_byte(crc16_byte(crc16_byte(0, 0), c), 0), 0)
         /\ WordSum(t) = c * 256
<1>1. PICK f : Crcs(f, t) /\ crc16(0, t) = f[Len(t)]
  BY CrcIs
<1>2. /\ f[0] = 0 /\ f[1] = crc16_byte(f[0], t[1]) /\ f[2] = crc16_byte(f[1], t[2])
      /\ f[3] = crc16_byte(f[2], t[3]) /\ f[4] = crc16_byte(f[3], t[4])
  BY <1>1 DEF Crcs
<1>3. PICK g : Sums(g, t) /\ WordSum(t) = g[Len(t)]
  BY WordSumIs
<1>4. /\ g[0] = 0 /\ g[1] = g[0] + Worth(t, 1) /\ g[2] = g[1] + Worth(t, 2)
      /\ g[3] = g[2] + Worth(t, 3) /\ g[4] = g[3] + Worth(t, 4)
  BY <1>3 DEF Sums
<1>5. t[2] \in Nat
  BY BytesOf
<1>6. Worth(t, 1) = 0 /\ Worth(t, 2) = c * 256 /\ Worth(t, 3) = 0 /\ Worth(t, 4) = 0
  BY <1>5 DEF Worth
<1> QED BY <1>1, <1>2, <1>3, <1>4, <1>5, <1>6

\* Neither byte of the checksum has to be escaped.
PlainWord(ck) ==
  \A h, l \in Byte : h * 256 + l = ck => h # \h7d /\ h # \h7e /\ l # \h7d /\ l # \h7e

\* The checksums of sprd_com_nodata.
LEMMA CommandChecksums ==
  ASSUME NEW t \in Seq(Byte), Len(t) = 4, NEW c \in NoDataCommands,
         t[1] = 0, t[2] = c, t[3] = 0, t[4] = 0
  PROVE  PlainWord(crc16(0, t)) /\ PlainWord(ipcheck(t))
<1>1. /\ crc16(0, t) = crc16_byte(crc16_byte(crc16_byte(crc16_byte(0, 0), c), 0), 0)
      /\ WordSum(t) = c * 256
  BY FourBytes
<1>2. c \in {0, \h3, \h4, \h5, \h12, \h17}
  BY DEF NoDataCommands, BSL_CMD_CONNECT, BSL_CMD_END_DATA, BSL_CMD_EXEC_DATA,
         BSL_CMD_NORMAL_RESET, BSL_CMD_READ_FLASH_END, BSL_CMD_POWER_DOWN_TYPE
<1>3. crc16(0, t) \in {0, \h5950, \hdcc0, \hebf0, \h2d03, \hc6f3}
  <2>1. CASE c = 0
    BY ONLY <1>1, <2>1, CommandSteps
  <2>2. CASE c = \h3
    BY ONLY <1>1, <2>2, CommandSteps
  <2>3. CASE c = \h4
    BY ONLY <1>1, <2>3, CommandSteps
  <2>4. CASE c = \h5
    BY ONLY <1>1, <2>4, CommandSteps
  <2>5. CASE c = \h12
    BY ONLY <1>1, <2>5, CommandSteps
  <2>6. CASE c = \h17
    BY ONLY <1>1, <2>6, CommandSteps
  <2> QED BY <1>2, <2>1, <2>2, <2>3, <2>4, <2>5, <2>6
<1>4. PlainWord(crc16(0, t))
  BY <1>3 DEF PlainWord, Byte
<1>5. ipcheck(t) = (255 - c) + 65280
  BY <1>1, <1>2 DEF ipcheck
<1>6. PlainWord(ipcheck(t))
  BY <1>2, <1>5 DEF PlainWord, Byte
<1> QED BY <1>4, <1>6

\* A frame in which all but the checksum is plain, and the checksum too.
LEMMA PlainFrame ==
  ASSUME NEW w \in Seq(Byte), NEW m \in Nat, Len(w) = m + 4, m > 0,
         NEW t, sprd_verify_frame(t, w), PlainWord(checksum(t, SubSeq(w, 2, m + 1))),
         \A i \in 1..m : w[i + 1] # \h7d /\ w[i + 1] # \h7e
  PROVE  Unmarked(w)
<1>1. w[1] = \h7e /\ w[m + 4] = \h7e
  BY DEF sprd_verify_frame, SPRD_START_BYTE, SPRD_END_BYTE
<1>2. Len(w) - 3 = m + 1 /\ Len(w) - 2 = m + 2 /\ Len(w) - 1 = m + 3
  OBVIOUS
<1>3. checksum(t, SubSeq(w, 2, m + 1)) = w[m + 2] * 256 + w[m + 3]
  BY <1>2 DEF sprd_verify_frame
<1>4. w[m + 2] \in Byte /\ w[m + 3] \in Byte
  BY BytesOf
<1>5. w[m + 2] # \h7d /\ w[m + 2] # \h7e /\ w[m + 3] # \h7d /\ w[m + 3] # \h7e
  BY <1>3, <1>4 DEF PlainWord
<1>6. ASSUME NEW i \in 2..(m + 1) PROVE w[i] # \h7d /\ w[i] # \h7e
  <2>1. PICK k \in 1..m : i = k + 1
    BY <1>6
  <2> QED BY <2>1
<1>7. \A i \in 1..(m + 4) : i = 1 \/ i \in 2..(m + 1) \/ i = m + 2 \/ i = m + 3 \/ i = m + 4
  OBVIOUS
<1>8. ASSUME NEW i \in 1..(m + 4) PROVE w[i] # \h7d /\ (w[i] = \h7e => i = 1 \/ i = m + 4)
  <2>1. CASE i \in 2..(m + 1)
    BY <1>6, <2>1
  <2>2. CASE i = m + 2 \/ i = m + 3
    BY ONLY <1>5, <2>2
  <2>3. CASE i = 1 \/ i = m + 4
    BY ONLY <1>1, <2>3
  <2> QED BY <1>7, <2>1, <2>2, <2>3
<1> QED BY ONLY Len(w) = m + 4, <1>8 DEF Unmarked

\* sprd_com_nodata has nothing to escape.
LEMMA NoDataPlain ==
  ASSUME NEW t \in {"crc", "ip"}, NEW c \in NoDataCommands
  PROVE  UnderstoodAs(Frame(t, c, <<>>), t, c, <<>>)
<1> <<>> \in Seq(Byte)
  OBVIOUS
<1>d. PICK d \in Seq(Byte) : d = <<>>
  OBVIOUS
<1>m. PICK m \in Nat : m = 4
  OBVIOUS
<1>1. d = <<>> /\ Len(d) = 0 /\ m = 4 /\ Len(d) + 8 = m + 4
  BY <1>d, <1>m
<1> DEFINE f == Frame(t, c, d)
<1>2. c \in Byte
  BY CommandBytes
<1>3. /\ f \in Seq(Byte) /\ Len(f) = m + 4 /\ f[2] = 0 /\ f[3] = c /\ f[4] = High(0) /\ f[5] = Low(0)
      /\ sprd_verify_frame(t, f)
  <2>1. /\ f \in Seq(Byte) /\ Len(f) = Len(d) + 8 /\ f[2] = 0 /\ f[3] = c
        /\ f[4] = High(Len(d)) /\ f[5] = Low(Len(d)) /\ sprd_verify_frame(t, f)
    BY <1>2, FrameIs
  <2> HIDE DEF f
  <2> QED BY <1>1, <2>1
<1> HIDE DEF f
<1>4. f[4] = 0 /\ f[5] = 0
  BY <1>3 DEF High, Low
<1> DEFINE s == SubSeq(f, 2, m + 1)
<1>5. /\ s \in Seq(Byte) /\ Len(s) = m
      /\ \A i \in 1..m : s[i] = f[i + 1]
  BY <1>3, BodyIs
<1> HIDE DEF s
<1>6. s[1] = 0 /\ s[2] = c /\ s[3] = 0 /\ s[4] = 0 /\ Len(s) = 4
  BY <1>1, <1>3, <1>4, <1>5
<1>7. PlainWord(checksum(t, s))
  BY <1>5, <1>6, CommandChecksums DEF checksum
<1>8. \A i \in 1..m : f[i + 1] # \h7d /\ f[i + 1] # \h7e
  <2>1. c \in {0, \h3, \h4, \h5, \h12, \h17}
    BY DEF NoDataCommands, BSL_CMD_CONNECT, BSL_CMD_END_DATA, BSL_CMD_EXEC_DATA,
           BSL_CMD_NORMAL_RESET, BSL_CMD_READ_FLASH_END, BSL_CMD_POWER_DOWN_TYPE
  <2> QED BY <1>1, <1>5, <1>6, <2>1
<1>9. m > 0
  BY <1>1
<1>10. Unmarked(f)
  BY <1>3, <1>7, <1>8, <1>9, PlainFrame, ZenonT(40) DEF s
<1>11. UnderstoodAs(f, t, c, d)
  <2>1. Len(d) < 65536
    BY <1>1
  <2> QED BY <2>1, <1>2, <1>10, PlainUnderstood DEF f
<1> QED BY <1>1, <1>11 DEF f

\* The CRC of START_DATA for FDL1.
LEMMA StartCrc ==
  ASSUME NEW t \in Seq(Byte), Len(t) = 12,
         /\ t[1] = 0 /\ t[2] = \h1 /\ t[3] = 0 /\ t[4] = \h8 /\ t[5] = \h50 /\ t[6] = 0
         /\ t[7] = 0 /\ t[8] = 0 /\ t[9] = 0 /\ t[10] = 0 /\ t[11] = \h50 /\ t[12] = \h9d
  PROVE  PlainWord(crc16(0, t))
<1>1. PICK f : Crcs(f, t) /\ crc16(0, t) = f[Len(t)]
  BY CrcIs
<1>2. /\ f[0] = 0
      /\ f[1] = crc16_byte(f[0], t[1]) /\ f[2] = crc16_byte(f[1], t[2])
      /\ f[3] = crc16_byte(f[2], t[3]) /\ f[4] = crc16_byte(f[3], t[4])
      /\ f[5] = crc16_byte(f[4], t[5]) /\ f[6] = crc16_byte(f[5], t[6])
      /\ f[7] = crc16_byte(f[6], t[7]) /\ f[8] = crc16_byte(f[7], t[8])
      /\ f[9] = crc16_byte(f[8], t[9]) /\ f[10] = crc16_byte(f[9], t[10])
      /\ f[11] = crc16_byte(f[10], t[11]) /\ f[12] = crc16_byte(f[11], t[12])
  BY <1>1 DEF Crcs
<1>3. f[12] = \h6679
  BY <1>2, StartSteps
<1> QED BY <1>1, <1>3 DEF PlainWord, Byte

\* The sum of START_DATA for FDL2.
LEMMA StartSum ==
  ASSUME NEW t \in Seq(Byte), Len(t) = 12,
         /\ t[1] = 0 /\ t[2] = \h1 /\ t[3] = 0 /\ t[4] = \h8 /\ t[5] = \h9f /\ t[6] = 0
         /\ t[7] = 0 /\ t[8] = 0 /\ t[9] = 0 /\ t[10] = \h6 /\ t[11] = \h99 /\ t[12] = \h88
  PROVE  PlainWord(ipcheck(t))
<1>1. PICK g : Sums(g, t) /\ WordSum(t) = g[Len(t)]
  BY WordSumIs
<1>2. /\ g[0] = 0
      /\ g[1] = g[0] + Worth(t, 1) /\ g[2] = g[1] + Worth(t, 2) /\ g[3] = g[2] + Worth(t, 3)
      /\ g[4] = g[3] + Worth(t, 4) /\ g[5] = g[4] + Worth(t, 5) /\ g[6] = g[5] + Worth(t, 6)
      /\ g[7] = g[6] + Worth(t, 7) /\ g[8] = g[7] + Worth(t, 8) /\ g[9] = g[8] + Worth(t, 9)
      /\ g[10] = g[9] + Worth(t, 10) /\ g[11] = g[10] + Worth(t, 11) /\ g[12] = g[11] + Worth(t, 12)
  BY <1>1 DEF Sums
<1>3. /\ Worth(t, 1) = 0 /\ Worth(t, 2) = \h100 /\ Worth(t, 3) = 0 /\ Worth(t, 4) = \h800
      /\ Worth(t, 5) = \h9f /\ Worth(t, 6) = 0 /\ Worth(t, 7) = 0 /\ Worth(t, 8) = 0
      /\ Worth(t, 9) = 0 /\ Worth(t, 10) = \h600 /\ Worth(t, 11) = \h99 /\ Worth(t, 12) = \h8800
  BY DEF Worth
<1>4. WordSum(t) = \h9838
  <2>1. WordSum(t) = g[12]
    BY <1>1
  <2> QED BY ONLY <1>2, <1>3, <2>1
<1>5. ipcheck(t) = \hc767
  BY <1>4 DEF ipcheck
<1> QED BY <1>5 DEF PlainWord, Byte

\* The data of START_DATA, byte by byte.
LEMMA ImageData ==
  ASSUME NEW a \in Seq(Byte), NEW s \in Seq(Byte), Len(a) = 4, Len(s) = 4
  PROVE  /\ a \o s \in Seq(Byte) /\ Len(a \o s) = 8
         /\ \A i \in 1..4 : (a \o s)[i] = a[i] /\ (a \o s)[i + 4] = s[i]
<1>1. /\ a \o s \in Seq(Byte) /\ Len(a \o s) = Len(a) + Len(s)
      /\ \A i \in 1..(Len(a) + Len(s)) : (a \o s)[i] = IF i <= Len(a) THEN a[i] ELSE s[i - Len(a)]
  BY ConcatProperties
<1> DEFINE d == a \o s
<1> HIDE DEF d
<1>2. d \in Seq(Byte) /\ Len(d) = 8 /\ \A i \in 1..8 : d[i] = IF i <= 4 THEN a[i] ELSE s[i - 4]
  BY <1>1 DEF d
<1>3. \A i \in 1..4 : d[i] = a[i] /\ d[i + 4] = s[i]
  BY <1>2
<1> QED BY <1>2, <1>3 DEF d

\* The address and the size of START_DATA are bytes.
LEMMA StartBytes ==
  ASSUME NEW a, NEW s,
         \/ a = <<\h50, 0, 0, 0>> /\ s = <<0, 0, \h50, \h9d>>
         \/ a = <<\h9f, 0, 0, 0>> /\ s = <<0, \h06, \h99, \h88>>
  PROVE  a \in Seq(Byte) /\ s \in Seq(Byte) /\ Len(a) = 4 /\ Len(s) = 4
<1>1. \A u, v, w, z \in Byte : <<u, v, w, z>> \in Seq(Byte) /\ Len(<<u, v, w, z>>) = 4
  OBVIOUS
<1>2. /\ 0 \in Byte /\ \h50 \in Byte /\ \h9d \in Byte /\ \h9f \in Byte
      /\ \h06 \in Byte /\ \h99 \in Byte /\ \h88 \in Byte
  BY DEF Byte
<1>3. CASE a = <<\h50, 0, 0, 0>> /\ s = <<0, 0, \h50, \h9d>>
  BY <1>1, <1>2, <1>3
<1>4. CASE a = <<\h9f, 0, 0, 0>> /\ s = <<0, \h06, \h99, \h88>>
  BY <1>1, <1>2, <1>4
<1> QED BY <1>3, <1>4

\* START_DATA of sprd_download has nothing to escape.
LEMMA StartPlain ==
  ASSUME NEW t, NEW a, NEW s,
         \/ t = "crc" /\ a = <<\h50, 0, 0, 0>> /\ s = <<0, 0, \h50, \h9d>>
         \/ t = "ip" /\ a = <<\h9f, 0, 0, 0>> /\ s = <<0, \h06, \h99, \h88>>
  PROVE  UnderstoodAs(Frame(t, BSL_CMD_START_DATA, a \o s), t, BSL_CMD_START_DATA, a \o s)
<1>2. a \in Seq(Byte) /\ s \in Seq(Byte) /\ Len(a) = 4 /\ Len(s) = 4
  BY StartBytes
<1>b. /\ a \o s \in Seq(Byte) /\ Len(a \o s) = 8
      /\ \A i \in 1..4 : (a \o s)[i] = a[i] /\ (a \o s)[i + 4] = s[i]
  BY <1>2, ImageData
<1>d. PICK d \in Seq(Byte) : d = a \o s
  BY <1>b
<1>3. Len(d) = 8 /\ \A i \in 1..4 : d[i] = a[i] /\ d[i + 4] = s[i]
  BY <1>b, <1>d
<1>m. PICK m \in Nat : m = 12
  OBVIOUS
<1>c. PICK c \in Byte : c = 1
  BY DEF Byte
<1> DEFINE f == Frame(t, c, d)
<1>4. /\ f \in Seq(Byte) /\ Len(f) = m + 4 /\ f[2] = 0 /\ f[3] = 1 /\ f[4] = 0 /\ f[5] = 8
      /\ SubSeq(f, 6, 13) = d /\ sprd_verify_frame(t, f)
  <2>1. /\ f \in Seq(Byte) /\ Len(f) = Len(d) + 8 /\ f[2] = 0 /\ f[3] = c
        /\ f[4] = High(Len(d)) /\ f[5] = Low(Len(d))
        /\ SubSeq(f, 6, Len(d) + 5) = d /\ sprd_verify_frame(t, f)
    BY FrameIs
  <2> HIDE DEF f
  <2>2. High(8) = 0 /\ Low(8) = 8 /\ 8 + 5 = 13
    BY DEF High, Low
  <2> QED BY <1>3, <1>m, <1>c, <2>1, <2>2
<1> HIDE DEF f
<1>5. \A i \in 1..8 : f[i + 5] = d[i]
  <2>0. PICK n \in Nat : n = 8
    OBVIOUS
  <2>1. f \in Seq(Byte) /\ Len(f) = n + 8 /\ n + 5 = 13
    BY <1>4, <1>m, <2>0
  <2>2. \A i \in 1..n : SubSeq(f, 6, n + 5)[i] = f[i + 5]
    BY <2>1, DataIs
  <2> QED BY <1>4, <2>0, <2>1, <2>2
<1> DEFINE b == SubSeq(f, 2, m + 1)
<1>6. b \in Seq(Byte) /\ Len(b) = m /\ \A i \in 1..m : b[i] = f[i + 1]
  BY <1>4, BodyIs
<1> HIDE DEF b
<1>7. /\ Len(b) = 12 /\ b[1] = 0 /\ b[2] = 1 /\ b[3] = 0 /\ b[4] = 8
      /\ b[5] = a[1] /\ b[6] = a[2] /\ b[7] = a[3] /\ b[8] = a[4]
      /\ b[9] = s[1] /\ b[10] = s[2] /\ b[11] = s[3] /\ b[12] = s[4]
  <2>1. /\ b[1] = f[2] /\ b[2] = f[3] /\ b[3] = f[4] /\ b[4] = f[5]
        /\ b[5] = f[6] /\ b[6] = f[7] /\ b[7] = f[8] /\ b[8] = f[9]
        /\ b[9] = f[10] /\ b[10] = f[11] /\ b[11] = f[12] /\ b[12] = f[13]
    BY <1>6, <1>m
  <2>2. /\ f[6] = d[1] /\ f[7] = d[2] /\ f[8] = d[3] /\ f[9] = d[4]
        /\ f[10] = d[5] /\ f[11] = d[6] /\ f[12] = d[7] /\ f[13] = d[8]
    BY <1>5
  <2>3. /\ d[1] = a[1] /\ d[2] = a[2] /\ d[3] = a[3] /\ d[4] = a[4]
        /\ d[5] = s[1] /\ d[6] = s[2] /\ d[7] = s[3] /\ d[8] = s[4]
    BY <1>3
  <2> QED BY <1>4, <1>6, <1>m, <2>1, <2>2, <2>3
<1>8. PlainWord(checksum(t, b)) /\ \A i \in 1..12 : b[i] # \h7d /\ b[i] # \h7e
  <2>1. CASE t = "crc" /\ a = <<\h50, 0, 0, 0>> /\ s = <<0, 0, \h50, \h9d>>
    <3>1. /\ b[5] = \h50 /\ b[6] = 0 /\ b[7] = 0 /\ b[8] = 0
          /\ b[9] = 0 /\ b[10] = 0 /\ b[11] = \h50 /\ b[12] = \h9d
      BY <1>7, <2>1
    <3>2. PlainWord(crc16(0, b))
      BY <1>6, <1>7, <3>1, StartCrc
    <3>3. \A i \in 1..12 : b[i] # \h7d /\ b[i] # \h7e
      BY <1>7, <3>1
    <3> QED BY <2>1, <3>2, <3>3 DEF checksum
  <2>2. CASE t = "ip" /\ a = <<\h9f, 0, 0, 0>> /\ s = <<0, \h06, \h99, \h88>>
    <3>1. /\ b[5] = \h9f /\ b[6] = 0 /\ b[7] = 0 /\ b[8] = 0
          /\ b[9] = 0 /\ b[10] = \h6 /\ b[11] = \h99 /\ b[12] = \h88
      BY <1>7, <2>2
    <3>2. b[1] = 0 /\ b[2] = \h1 /\ b[3] = 0 /\ b[4] = \h8 /\ Len(b) = 12
      BY <1>7
    <3>3. PlainWord(ipcheck(b))
      BY <1>6, <3>1, <3>2, StartSum
    <3>4. \A i \in 1..12 : b[i] # \h7d /\ b[i] # \h7e
      BY ONLY <3>1, <3>2
    <3> QED BY <2>2, <3>3, <3>4 DEF checksum
  <2> QED BY <2>1, <2>2
<1>9. m > 0 /\ \A i \in 1..m : f[i + 1] # \h7d /\ f[i + 1] # \h7e
  BY <1>6, <1>8, <1>m
<1>10. Unmarked(f)
  BY <1>4, <1>8, <1>9, PlainFrame DEF b
<1>11. UnderstoodAs(f, t, c, d)
  <2>1. Len(d) < 65536
    BY <1>3
  <2> QED BY <2>1, <1>10, PlainUnderstood DEF f
<1>12. c = BSL_CMD_START_DATA
  BY <1>c DEF BSL_CMD_START_DATA
<1> QED BY <1>d, <1>11, <1>12 DEF f

\* So is what Image says.
LEMMA DownloadStartPlain ==
  ASSUME NEW x \in DOMAIN Image
  PROVE  UnderstoodAs(Frame(Image[x].type, BSL_CMD_START_DATA, Image[x].addr \o Image[x].size),
                      Image[x].type, BSL_CMD_START_DATA, Image[x].addr \o Image[x].size)
<1>0. PICK t, a, s : t = Image[x].type /\ a = Image[x].addr /\ s = Image[x].size
  OBVIOUS
<1>1. \/ t = "crc" /\ a = <<\h50, 0, 0, 0>> /\ s = <<0, 0, \h50, \h9d>>
      \/ t = "ip" /\ a = <<\h9f, 0, 0, 0>> /\ s = <<0, \h06, \h99, \h88>>
  BY <1>0 DEF Image
<1>2. UnderstoodAs(Frame(t, BSL_CMD_START_DATA, a \o s), t, BSL_CMD_START_DATA, a \o s)
  BY <1>1, StartPlain
<1> QED BY <1>0, <1>2

-----------------------------------------------------------------------------
(* Requests that are written down as arrays *)

\* r is s and then t.
Parts(r, s, t) ==
  /\ r \in Seq(Byte) /\ Len(r) = Len(s) + Len(t)
  /\ \A i \in 1..Len(s) : r[i] = s[i]
  /\ \A i \in 1..Len(t) : r[Len(s) + i] = t[i]

\* What is appended begins where the other ends.
LEMMA PartsIs ==
  ASSUME NEW s \in Seq(Byte), NEW t \in Seq(Byte)
  PROVE  Parts(s \o t, s, t)
<1>1. /\ s \o t \in Seq(Byte) /\ Len(s \o t) = Len(s) + Len(t)
      /\ \A i \in 1..(Len(s) + Len(t)) : (s \o t)[i] = IF i <= Len(s) THEN s[i] ELSE t[i - Len(s)]
  BY ConcatProperties
<1>2. PICK a \in Nat, b \in Nat : a = Len(s) /\ b = Len(t)
  BY BytesOf
<1> DEFINE r == s \o t
<1>3. \A i \in 1..(a + b) : r[i] = IF i <= a THEN s[i] ELSE t[i - a]
  BY <1>1, <1>2
<1> HIDE DEF r
<1>4. \A i \in 1..a : r[i] = s[i]
  BY <1>3
<1>5. \A i \in 1..b : a + i \in 1..(a + b) /\ ~(a + i <= a) /\ (a + i) - a = i
  OBVIOUS
<1>6. \A i \in 1..b : r[a + i] = t[i]
  BY <1>3, <1>5
<1> QED BY <1>1, <1>2, <1>4, <1>6 DEF Parts, r

\* w is h, zeros up to byte 77, and the seven bytes of e.
Filled(w, h, e) ==
  /\ w \in Seq(Byte) /\ Len(w) = 84
  /\ \A i \in 1..Len(h) : w[i] = h[i]
  /\ \A i \in (Len(h) + 1)..77 : w[i] = 0
  /\ \A i \in 1..7 : w[77 + i] = e[i]

\* The arrays are like that.
LEMMA ArrayFilled ==
  ASSUME NEW h \in Seq(Byte), NEW z \in Nat, Len(h) + z = 77, NEW e \in Seq(Byte), Len(e) = 7
  PROVE  Filled(h \o Zeros(z) \o e, h, e)
<1>1. Zeros(z) \in [1..z -> Byte] /\ \A i \in 1..z : Zeros(z)[i] = 0
  BY DEF Zeros, Byte
<1>2. PICK y \in Seq(Byte) : y = Zeros(z) /\ Len(y) = z /\ \A i \in 1..z : y[i] = 0
  <2>1. Zeros(z) \in Seq(Byte) /\ Len(Zeros(z)) = z
    BY <1>1, BytesSeq
  <2> QED BY <1>1, <2>1
<1>3. Parts(h \o y, h, y)
  BY PartsIs
<1>4. PICK x \in Seq(Byte) : x = h \o y
  BY <1>3 DEF Parts
<1>5. Parts(x \o e, x, e)
  BY PartsIs
<1>6. PICK w : w = x \o e
  OBVIOUS
<1>7. Parts(x, h, y) /\ Parts(w, x, e)
  BY <1>3, <1>4, <1>5, <1>6
<1>8. PICK k \in Nat : k = Len(h)
  BY BytesOf
<1>9. /\ k + z = 77 /\ Len(x) = 77
      /\ \A i \in 1..k : x[i] = h[i]
      /\ \A i \in 1..z : x[k + i] = y[i]
  <2>1. /\ Len(x) = Len(h) + Len(y)
        /\ \A i \in 1..Len(h) : x[i] = h[i]
        /\ \A i \in 1..Len(y) : x[Len(h) + i] = y[i]
    BY <1>7 DEF Parts
  <2> QED BY <1>2, <1>8, <2>1
<1>10. /\ w \in Seq(Byte) /\ Len(w) = 84
       /\ \A i \in 1..77 : w[i] = x[i]
       /\ \A i \in 1..7 : w[77 + i] = e[i]
  <2>1. /\ w \in Seq(Byte) /\ Len(w) = Len(x) + Len(e)
        /\ \A i \in 1..Len(x) : w[i] = x[i]
        /\ \A i \in 1..Len(e) : w[Len(x) + i] = e[i]
    BY <1>7 DEF Parts
  <2> QED BY <1>9, <2>1
<1>11. ASSUME NEW i \in 1..k PROVE w[i] = h[i]
  <2>1. i \in 1..77
    BY <1>9
  <2>2. w[i] = x[i]
    BY <1>10, <2>1
  <2>3. x[i] = h[i]
    BY <1>9
  <2> QED BY <2>2, <2>3
<1>12. ASSUME NEW i \in (k + 1)..77 PROVE w[i] = 0
  <2>1. i - k \in 1..z /\ k + (i - k) = i /\ i \in 1..77
    BY <1>9
  <2>2. x[i] = y[i - k]
    BY <1>9, <2>1
  <2> QED BY <1>2, <1>10, <2>1, <2>2
<1>13. Filled(w, h, e)
  BY <1>8, <1>10, <1>11, <1>12 DEF Filled
<1> QED BY <1>2, <1>4, <1>6, <1>13

\* A READ_FLASH_START frame that spells the name and asks for everything.
Spells(w, name) ==
  /\ w \in Seq(Byte) /\ Len(w) = 84
  /\ w[1] = \h7e /\ w[2] = 0 /\ w[3] = \h10 /\ w[4] = 0 /\ w[5] = \h4c
  /\ \A i \in 1..72 : w[i + 5] = Wide(name)[i]
  /\ w[78] = \hff /\ w[79] = \hff /\ w[80] = \hff /\ w[81] = \hff /\ w[84] = \h7e

\* What Wide gives, pair by pair.
LEMMA WidePairs ==
  ASSUME NEW name \in Seq(Byte), NEW j \in 1..36
  PROVE  /\ Wide(name)[2 * j - 1] = IF j <= Len(name) THEN name[j] ELSE 0
         /\ Wide(name)[2 * j] = 0
<1>1. /\ 2 * j - 1 \in 1..72 /\ 2 * j \in 1..72
      /\ (2 * j - 1) % 2 = 1 /\ (2 * j) % 2 = 0 /\ ((2 * j - 1) + 1) \div 2 = j
  OBVIOUS
<1> QED BY <1>1 DEF Wide

\* After the fifth byte come the letters with a zero between each two, and then zeros.
Letters(w, name) ==
  /\ Len(name) \in 1..36
  /\ \A j \in 1..Len(name) : w[4 + 2 * j] = name[j]
  /\ \A j \in 1..(Len(name) - 1) : w[5 + 2 * j] = 0
  /\ \A i \in (5 + 2 * Len(name))..77 : w[i] = 0

\* That is what Wide gives.
LEMMA LettersWide ==
  ASSUME NEW name \in Seq(Byte), NEW w, Letters(w, name), NEW i \in 1..72
  PROVE  w[i + 5] = Wide(name)[i]
<1>1. PICK j \in 1..36 : i = 2 * j - 1 \/ i = 2 * j
  <2>1. (i + 1) \div 2 \in 1..36 /\ (i = 2 * ((i + 1) \div 2) - 1 \/ i = 2 * ((i + 1) \div 2))
    OBVIOUS
  <2> QED BY <2>1
<1>2. PICK p \in 1..36 : p = Len(name)
  BY DEF Letters
<1>3. /\ \A k \in 1..p : w[4 + 2 * k] = name[k]
      /\ \A k \in 1..(p - 1) : w[5 + 2 * k] = 0
      /\ \A k \in (5 + 2 * p)..77 : w[k] = 0
  BY <1>2 DEF Letters
<1>4. /\ Wide(name)[2 * j - 1] = IF j <= p THEN name[j] ELSE 0
      /\ Wide(name)[2 * j] = 0
  BY <1>2, WidePairs
<1>5. CASE i = 2 * j - 1 /\ j <= p
  <2>1. j \in 1..p /\ i + 5 = 4 + 2 * j
    BY <1>5
  <2> QED BY <1>3, <1>4, <1>5, <2>1
<1>6. CASE i = 2 * j - 1 /\ j > p
  <2>1. i + 5 \in (5 + 2 * p)..77 /\ ~(j <= p)
    BY <1>6
  <2> QED BY <1>3, <1>4, <1>6, <2>1
<1>7. CASE i = 2 * j /\ j <= p - 1
  <2>1. j \in 1..(p - 1) /\ i + 5 = 5 + 2 * j
    BY <1>7
  <2> QED BY <1>3, <1>4, <1>7, <2>1
<1>8. CASE i = 2 * j /\ j > p - 1
  <2>1. i + 5 \in (5 + 2 * p)..77
    BY <1>8
  <2> QED BY <1>3, <1>4, <1>8, <2>1
<1> QED BY <1>1, <1>5, <1>6, <1>7, <1>8

\* sum[j] is the sum of the first j letters.
LetterSums(sum, name, p) ==
  /\ p = Len(name) /\ sum \in [0..p -> Nat] /\ sum[0] = 0
  /\ \A j \in 1..p : sum[j] = sum[j - 1] + name[j]

\* The sum of the words of the frame that is checked is what it is for every name, and total.
SumIs(w, total) == WordSum(SubSeq(w, 2, 81)) = 154622 + total

\* Of the words only the letters differ from one frame to another.
LEMMA SpellsSum ==
  ASSUME NEW name \in Seq(Byte), NEW p \in 1..36, NEW w, Spells(w, name),
         NEW sum, LetterSums(sum, name, p)
  PROVE  SumIs(w, sum[p])
<1>0. \A j \in 1..p : name[j] \in Nat
  <2>1. p = Len(name)
    BY DEF LetterSums
  <2> QED BY <2>1, BytesOf
<1>a. /\ sum \in [0..p -> Nat] /\ sum[0] = 0
      /\ \A j \in 1..p : sum[j] = sum[j - 1] + name[j]
  BY DEF LetterSums
<1> DEFINE t == SubSeq(w, 2, 81)
<1>1. /\ t \in Seq(Byte) /\ Len(t) = 80
      /\ \A i \in 1..80 : t[i] = w[i + 1]
  <2>1. PICK m \in Nat : m = 80
    OBVIOUS
  <2>2. w \in Seq(Byte) /\ Len(w) = m + 4 /\ m + 1 = 81
    BY <2>1 DEF Spells
  <2>3. /\ SubSeq(w, 2, m + 1) \in Seq(Byte) /\ Len(SubSeq(w, 2, m + 1)) = m
        /\ \A i \in 1..m : SubSeq(w, 2, m + 1)[i] = w[i + 1]
    BY <2>2, BodyIs
  <2>4. SubSeq(w, 2, m + 1) = t
    BY <2>2
  <2> HIDE DEF t
  <2>5. t \in Seq(Byte) /\ Len(t) = m /\ \A i \in 1..m : t[i] = w[i + 1]
    BY <2>3, <2>4
  <2> QED BY <2>1, <2>5
<1> HIDE DEF t
<1>2. PICK g : Sums(g, t) /\ WordSum(t) = g[Len(t)]
  BY <1>1, WordSumIs
<1>3. g \in [0..80 -> Nat] /\ g[0] = 0 /\ \A i \in 1..80 : g[i] = g[i - 1] + Worth(t, i)
  BY <1>1, <1>2 DEF Sums
<1>4. g[4] = 23552
  <2>1. t[1] = 0 /\ t[2] = \h10 /\ t[3] = 0 /\ t[4] = \h4c
    <3>1. t[1] = w[2] /\ t[2] = w[3] /\ t[3] = w[4] /\ t[4] = w[5]
      BY <1>1
    <3> QED BY <3>1 DEF Spells
  <2>2. Worth(t, 1) = 0 /\ Worth(t, 2) = 4096 /\ Worth(t, 3) = 0 /\ Worth(t, 4) = 19456
    BY <2>1 DEF Worth
  <2>3. /\ g[1] = g[0] + Worth(t, 1) /\ g[2] = g[1] + Worth(t, 2)
        /\ g[3] = g[2] + Worth(t, 3) /\ g[4] = g[3] + Worth(t, 4)
    BY <1>3
  <2>4. g[0] = 0
    BY <1>3
  <2> QED BY <2>2, <2>3, <2>4
<1>5. ASSUME NEW j \in 1..36
      PROVE  g[4 + 2 * j] = g[4 + 2 * (j - 1)] + (IF j <= p THEN name[j] ELSE 0)
  <2>1. /\ 3 + 2 * j \in 1..80 /\ 4 + 2 * j \in 1..80 /\ 2 * j - 1 \in 1..72 /\ 2 * j \in 1..72
        /\ (3 + 2 * j) % 2 = 1 /\ (4 + 2 * j) % 2 = 0
        /\ (3 + 2 * j) - 1 = 4 + 2 * (j - 1) /\ (4 + 2 * j) - 1 = 3 + 2 * j
        /\ (3 + 2 * j) + 1 = (2 * j - 1) + 5 /\ (4 + 2 * j) + 1 = 2 * j + 5
    OBVIOUS
  <2>2. /\ t[3 + 2 * j] = w[(2 * j - 1) + 5] /\ t[4 + 2 * j] = w[2 * j + 5]
    BY <1>1, <2>1
  <2>3. /\ w[(2 * j - 1) + 5] = Wide(name)[2 * j - 1] /\ w[2 * j + 5] = Wide(name)[2 * j]
    BY <2>1 DEF Spells
  <2>4. /\ Wide(name)[2 * j - 1] = IF j <= p THEN name[j] ELSE 0
        /\ Wide(name)[2 * j] = 0
    <3>1. p = Len(name)
      BY DEF LetterSums
    <3> QED BY <3>1, WidePairs
  <2> DEFINE letter == IF j <= p THEN name[j] ELSE 0
  <2>5. t[3 + 2 * j] = letter /\ t[4 + 2 * j] = 0
    BY <2>2, <2>3, <2>4
  <2>6. letter \in Nat
    BY <1>0
  <2> HIDE DEF letter
  <2>7. Worth(t, 3 + 2 * j) = letter /\ Worth(t, 4 + 2 * j) = 0
    BY <2>1, <2>5, <2>6 DEF Worth
  <2>8. /\ g[3 + 2 * j] = g[4 + 2 * (j - 1)] + Worth(t, 3 + 2 * j)
        /\ g[4 + 2 * j] = g[3 + 2 * j] + Worth(t, 4 + 2 * j)
    BY <1>3, <2>1
  <2>9. g[4 + 2 * (j - 1)] \in Nat
    <3>1. 4 + 2 * (j - 1) \in 0..80
      OBVIOUS
    <3> QED BY <1>3, <3>1
  <2> QED BY <2>6, <2>7, <2>8, <2>9 DEF letter
<1>6. g[76] = 23552 + sum[p]
  <2> DEFINE upto(j) == IF j <= p THEN j ELSE p
             P(j) == g[4 + 2 * j] = 23552 + sum[upto(j)]
             G == {j \in 0..36 : P(j)}
  <2>1. 0 \in G
    <3>1. upto(0) = 0 /\ 4 + 2 * 0 = 4
      OBVIOUS
    <3>2. P(0)
      BY <1>4, <1>a, <3>1
    <3> HIDE DEF P
    <3> QED BY <3>2
  <2>2. ASSUME NEW j \in 1..36, P(j - 1) PROVE P(j)
    <3>1. CASE j <= p
      <4>1. j \in 1..p /\ j - 1 \in 0..p /\ upto(j) = j /\ upto(j - 1) = j - 1
        BY <3>1
      <4>2. sum[j] = sum[j - 1] + name[j] /\ sum[j - 1] \in Nat /\ name[j] \in Nat
        BY <1>0, <1>a, <4>1
      <4>3. g[4 + 2 * j] = g[4 + 2 * (j - 1)] + name[j]
        BY <1>5, <3>1
      <4>4. g[4 + 2 * (j - 1)] = 23552 + sum[j - 1]
        BY <2>2, <4>1
      <4>5. g[4 + 2 * j] = 23552 + sum[j]
        BY <4>2, <4>3, <4>4
      <4> QED BY <4>1, <4>5
    <3>2. CASE ~(j <= p)
      <4>1. upto(j) = p /\ upto(j - 1) = p
        BY <3>2
      <4>2. sum[p] \in Nat
        BY <1>a
      <4>3. g[4 + 2 * j] = g[4 + 2 * (j - 1)] + 0
        BY <1>5, <3>2
      <4>4. g[4 + 2 * (j - 1)] = 23552 + sum[p]
        BY <2>2, <4>1
      <4>5. g[4 + 2 * j] = 23552 + sum[p]
        BY <4>2, <4>3, <4>4
      <4> QED BY <4>1, <4>5
    <3> QED BY <3>1, <3>2
  <2>3. PICK n \in Nat : n = 36
    OBVIOUS
  <2>4. ASSUME NEW j \in 1..n, j - 1 \in G PROVE j \in G
    <3>1. j \in 1..36 /\ j \in 0..36
      BY <2>3
    <3> HIDE DEF P
    <3>2. P(j - 1)
      BY <2>4
    <3>3. P(j)
      BY <2>2, <3>1, <3>2
    <3> QED BY <3>1, <3>3
  <2>5. n \in G
    <3> HIDE DEF G
    <3>1. \A i \in 0..n : i \in G
      BY <2>1, <2>4, Induction
    <3> QED BY <3>1
  <2>6. P(36)
    <3> HIDE DEF P
    <3> QED BY <2>3, <2>5
  <2>7. g[4 + 2 * 36] = 23552 + sum[upto(36)]
    BY <2>6
  <2>8. upto(36) = p /\ 4 + 2 * 36 = 76
    OBVIOUS
  <2> HIDE DEF upto, P
  <2> QED BY <2>7, <2>8
<1>7. g[80] = g[76] + 131070
  <2>1. t[77] = \hff /\ t[78] = \hff /\ t[79] = \hff /\ t[80] = \hff
    <3>1. t[77] = w[78] /\ t[78] = w[79] /\ t[79] = w[80] /\ t[80] = w[81]
      BY <1>1
    <3> QED BY <3>1 DEF Spells
  <2>2. Worth(t, 77) = 255 /\ Worth(t, 78) = 65280 /\ Worth(t, 79) = 255 /\ Worth(t, 80) = 65280
    BY <2>1 DEF Worth
  <2>3. /\ g[77] = g[76] + Worth(t, 77) /\ g[78] = g[77] + Worth(t, 78)
        /\ g[79] = g[78] + Worth(t, 79) /\ g[80] = g[79] + Worth(t, 80) /\ g[76] \in Nat
    BY <1>3
  <2> QED BY <2>2, <2>3
<1>8. sum[p] \in Nat
  BY <1>a
<1>9. WordSum(t) = 154622 + sum[p]
  BY <1>1, <1>2, <1>6, <1>7, <1>8
<1> QED BY ONLY <1>9 DEF SumIs, t

\* A byte that needs no escaping.
Clear(b) == b # \h7d /\ b # \h7e

\* None of the letters of the name does.
ClearName(name) == \A j \in 1..Len(name) : Clear(name[j])

\* The checksum of such a frame is the one it carries, and nothing in it has to be escaped.
Carries(w, name) ==
  /\ Spells(w, name)
  /\ ipcheck(SubSeq(w, 2, 81)) = w[82] * 256 + w[83]
  /\ Clear(w[82]) /\ Clear(w[83])
  /\ ClearName(name)

\* A wide name of such letters needs none either.
LEMMA WideClear ==
  ASSUME NEW name \in Seq(Byte), ClearName(name)
  PROVE  \A i \in 1..72 : Clear(Wide(name)[i])
<1> SUFFICES ASSUME NEW i \in 1..72 PROVE Clear(Wide(name)[i])
  OBVIOUS
<1>1. PICK j \in 1..36 : i = 2 * j - 1 \/ i = 2 * j
  <2>1. (i + 1) \div 2 \in 1..36 /\ (i = 2 * ((i + 1) \div 2) - 1 \/ i = 2 * ((i + 1) \div 2))
    OBVIOUS
  <2> QED BY <2>1
<1>2. /\ Wide(name)[2 * j - 1] = IF j <= Len(name) THEN name[j] ELSE 0
      /\ Wide(name)[2 * j] = 0
  BY WidePairs
<1>3. Clear(0)
  BY DEF Clear
<1>4. CASE Wide(name)[i] = 0
  BY <1>3, <1>4
<1>5. CASE i = 2 * j - 1 /\ j <= Len(name)
  <2>1. Wide(name)[i] = name[j]
    BY <1>2, <1>5
  <2>2. Len(name) \in Nat
    BY BytesOf
  <2>3. j \in 1..Len(name)
    BY ONLY <1>5, <2>2
  <2> QED BY <2>1, <2>3 DEF ClearName
<1>6. Wide(name)[i] = 0 \/ (i = 2 * j - 1 /\ j <= Len(name))
  BY <1>1, <1>2
<1> QED BY <1>4, <1>5, <1>6

\* None of the bytes of the name does in the frame.
LEMMA NameClear ==
  ASSUME NEW name \in Seq(Byte), ClearName(name), NEW w, Spells(w, name)
  PROVE  \A i \in 6..77 : Clear(w[i])
<1>1. \A k \in 1..72 : Clear(Wide(name)[k])
  BY WideClear
<1>2. \A k \in 1..72 : w[k + 5] = Wide(name)[k]
  BY DEF Spells
<1>3. ASSUME NEW i \in 6..77 PROVE Clear(w[i])
  <2>1. PICK k \in 1..72 : i = k + 5
    <3>1. i - 5 \in 1..72 /\ i = (i - 5) + 5
      OBVIOUS
    <3> QED BY ONLY <3>1
  <2>2. w[i] = Wide(name)[k]
    BY <1>2, <2>1
  <2> QED BY <1>1, <2>2
<1> QED BY <1>3

\* No byte but the first and the last is a mark.
LEMMA CarriesUnmarked ==
  ASSUME NEW name \in Seq(Byte), NEW w, Carries(w, name)
  PROVE  Unmarked(w)
<1>1. \A i \in 6..77 : Clear(w[i])
  BY NameClear DEF Carries
<1>2. Clear(w[82]) /\ Clear(w[83])
  BY DEF Carries
<1>3. /\ w[2] = 0 /\ w[3] = \h10 /\ w[4] = 0 /\ w[5] = \h4c
      /\ w[78] = \hff /\ w[79] = \hff /\ w[80] = \hff /\ w[81] = \hff
  BY DEF Carries, Spells
<1>4. Clear(0) /\ Clear(\h10) /\ Clear(\h4c) /\ Clear(\hff)
  BY DEF Clear
<1>5. /\ Clear(w[2]) /\ Clear(w[3]) /\ Clear(w[4]) /\ Clear(w[5])
      /\ Clear(w[78]) /\ Clear(w[79]) /\ Clear(w[80]) /\ Clear(w[81])
  BY ONLY <1>3, <1>4
<1>6. Len(w) = 84 /\ w[1] = \h7e /\ w[84] = \h7e
  BY DEF Carries, Spells
<1>7. \A i \in 1..84 : \/ i = 1 \/ i = 84 \/ i \in 6..77 \/ i = 2 \/ i = 3 \/ i = 4 \/ i = 5
                       \/ i = 78 \/ i = 79 \/ i = 80 \/ i = 81 \/ i = 82 \/ i = 83
  OBVIOUS
<1>8. \A i \in 1..84 : i = 1 \/ i = 84 \/ Clear(w[i])
  BY ONLY <1>1, <1>2, <1>5, <1>7
<1>9. ASSUME NEW i \in 1..Len(w) PROVE w[i] # \h7d /\ (w[i] = \h7e => i = 1 \/ i = Len(w))
  <2>1. i \in 1..84
    BY <1>6
  <2>2. i = 1 \/ i = 84 \/ Clear(w[i])
    BY <1>8, <2>1
  <2>3. CASE Clear(w[i])
    BY ONLY <2>3 DEF Clear
  <2>4. CASE i = 1 \/ i = 84
    BY ONLY <1>6, <2>4
  <2> QED BY <2>2, <2>3, <2>4
<1> QED BY ONLY <1>9 DEF Unmarked

\* Then it is what sprd_upload would have sent.
LEMMA CarriesUnderstood ==
  ASSUME NEW name \in Seq(Byte), Len(name) <= 36, NEW w, Carries(w, name)
  PROVE  UnderstoodAs(w, "ip", BSL_CMD_READ_FLASH_START, Wide(name) \o MaxSize)
<1>1. /\ w \in Seq(Byte) /\ Len(w) = 84
      /\ w[1] = \h7e /\ w[2] = 0 /\ w[3] = \h10 /\ w[4] = 0 /\ w[5] = \h4c
      /\ w[78] = \hff /\ w[79] = \hff /\ w[80] = \hff /\ w[81] = \hff /\ w[84] = \h7e
  BY DEF Carries, Spells
<1>2. \A i \in 1..72 : w[i + 5] = Wide(name)[i]
  BY DEF Carries, Spells
<1>3. sprd_verify_frame("ip", w)
  BY <1>1 DEF Carries, sprd_verify_frame, checksum, SPRD_START_BYTE, SPRD_END_BYTE
<1> DEFINE d == Wide(name) \o MaxSize
<1>4. SubSeq(w, 6, 81) = d
  <2>1. PICK v \in Seq(Byte) : v = Wide(name) /\ Len(v) = 72
    BY WideBytes
  <2>2. PICK x \in Seq(Byte) : x = MaxSize /\ Len(x) = 4
    BY WordBytes
  <2>3. Parts(v \o x, v, x)
    BY PartsIs
  <2>4. PICK y : y = v \o x
    OBVIOUS
  <2>5. /\ y \in Seq(Byte) /\ Len(y) = 76
        /\ \A i \in 1..72 : y[i] = v[i]
        /\ \A i \in 1..4 : y[72 + i] = x[i]
    <3>1. /\ y \in Seq(Byte) /\ Len(y) = Len(v) + Len(x)
          /\ \A i \in 1..Len(v) : y[i] = v[i]
          /\ \A i \in 1..Len(x) : y[Len(v) + i] = x[i]
      BY <2>3, <2>4 DEF Parts
    <3>2. Len(v) = 72 /\ Len(x) = 4
      BY <2>1, <2>2
    <3> QED BY <3>1, <3>2
  <2>6. PICK n \in Nat : n = 76
    OBVIOUS
  <2>7. PICK s : s = SubSeq(w, 6, 81)
    OBVIOUS
  <2>8. s \in Seq(Byte) /\ Len(s) = 76 /\ \A i \in 1..76 : s[i] = w[i + 5]
    <3>1. w \in Seq(Byte) /\ Len(w) = n + 8 /\ n + 5 = 81
      BY <1>1, <2>6
    <3>2. /\ SubSeq(w, 6, n + 5) \in Seq(Byte) /\ Len(SubSeq(w, 6, n + 5)) = n
          /\ \A i \in 1..n : SubSeq(w, 6, n + 5)[i] = w[i + 5]
      BY <3>1, DataIs
    <3>3. s = SubSeq(w, 6, n + 5)
      BY <2>7, <3>1
    <3>4. s \in Seq(Byte) /\ Len(s) = n /\ \A i \in 1..n : s[i] = w[i + 5]
      BY <3>2, <3>3
    <3> QED BY <2>6, <3>4
  <2>9. x[1] = \hff /\ x[2] = \hff /\ x[3] = \hff /\ x[4] = \hff
    BY <2>2 DEF MaxSize
  <2>10. ASSUME NEW i \in 1..72 PROVE s[i] = y[i]
    <3>1. s[i] = w[i + 5]
      <4>1. i \in 1..76
        OBVIOUS
      <4> QED BY <2>8, <4>1
    <3>2. w[i + 5] = v[i]
      BY <1>2, <2>1
    <3>3. y[i] = v[i]
      BY <2>5
    <3> QED BY <3>1, <3>2, <3>3
  <2>11. s[73] = y[73] /\ s[74] = y[74] /\ s[75] = y[75] /\ s[76] = y[76]
    <3>1. s[73] = w[78] /\ s[74] = w[79] /\ s[75] = w[80] /\ s[76] = w[81]
      BY <2>8
    <3>2. y[73] = x[1] /\ y[74] = x[2] /\ y[75] = x[3] /\ y[76] = x[4]
      BY <2>5
    <3> QED BY <1>1, <2>9, <3>1, <3>2
  <2>12. \A i \in 1..76 : i \in 1..72 \/ i = 73 \/ i = 74 \/ i = 75 \/ i = 76
    OBVIOUS
  <2>13. \A i \in 1..76 : s[i] = y[i]
    BY <2>10, <2>11, <2>12, ZenonT(40)
  <2>14. s = y
    <3>1. s \in Seq(Byte) /\ y \in Seq(Byte) /\ Len(s) = Len(y) /\ Len(s) = 76
      BY <2>5, <2>8
    <3>2. \A i \in 1..Len(s) : s[i] = y[i]
      BY <2>13, <3>1
    <3> QED BY <3>1, <3>2, SeqEqual
  <2> QED BY <2>1, <2>2, <2>4, <2>7, <2>14
<1>5. Unmarked(w)
  BY CarriesUnmarked
<1>6. Says(w, "ip", BSL_CMD_READ_FLASH_START, d)
  <2>1. Len(w) - 3 = 81 /\ w[3] = BSL_CMD_READ_FLASH_START /\ w[4] * 256 + w[5] = Len(w) - 8
    BY <1>1 DEF BSL_CMD_READ_FLASH_START
  <2> HIDE DEF d
  <2> QED BY <1>3, <1>4, <2>1 DEF Says
<1>7. PICK t, c : t = "ip" /\ c = BSL_CMD_READ_FLASH_START
  OBVIOUS
<1> HIDE DEF d
<1>8. Says(w, t, c, d)
  BY <1>6, <1>7
<1>9. UnderstoodAs(w, t, c, d)
  BY <1>1, <1>5, <1>8, UnmarkedUnderstood
<1> QED BY <1>7, <1>9 DEF d

-----------------------------------------------------------------------------
(* The arrays *)

\* The head of an array: the fields before the data, then the letters of the name.
Heads(h, name) ==
  /\ h \in Seq(Byte) /\ Len(h) = 4 + 2 * Len(name) /\ Len(name) \in 1..36
  /\ h[1] = \h7e /\ h[2] = 0 /\ h[3] = \h10 /\ h[4] = 0 /\ h[5] = \h4c
  /\ \A j \in 1..Len(name) : h[4 + 2 * j] = name[j]
  /\ \A j \in 1..(Len(name) - 1) : h[5 + 2 * j] = 0
  /\ ClearName(name)

\* Its tail: the size, the checksum and the end byte.
Tails(e, a, b) ==
  /\ e \in Seq(Byte) /\ Len(e) = 7
  /\ e[1] = \hff /\ e[2] = \hff /\ e[3] = \hff /\ e[4] = \hff
  /\ e[5] = a /\ e[6] = b /\ e[7] = \h7e

\* The tuple of a tail is one.
LEMMA TailsIs ==
  ASSUME NEW a \in Byte, NEW b \in Byte
  PROVE  Tails(<<\hff, \hff, \hff, \hff, a, b, \h7e>>, a, b)
<1>1. \hff \in Byte /\ \h7e \in Byte
  BY DEF Byte
<1> QED BY <1>1 DEF Tails

\* The sum of the letters, and the checksum that follows from it.
Totals(name, total, ck) ==
  /\ \E sum : LetterSums(sum, name, Len(name)) /\ sum[Len(name)] = total
  /\ \A t : WordSum(t) = 154622 + total => ipcheck(t) = ck

\* The head of internalsd_partition is one for its name.
LEMMA InternalsdHead ==
  ASSUME NEW name, name = <<105, 110, 116, 101, 114, 110, 97, 108, 115, 100>>,
         NEW h, h = <<126, 0, 16, 0, 76, 105, 0, 110, 0, 116, 0, 101, 0, 114,
                      0, 110, 0, 97, 0, 108, 0, 115, 0, 100>>
  PROVE  Heads(h, name)
<1>1. /\ 0 \in Byte /\ 16 \in Byte /\ 76 \in Byte /\ 97 \in Byte /\ 100 \in Byte /\ 101 \in Byte
      /\ 105 \in Byte /\ 108 \in Byte /\ 110 \in Byte /\ 114 \in Byte /\ 115 \in Byte /\ 116 \in Byte
      /\ 126 \in Byte
  BY DEF Byte
<1>2. h \in Seq(Byte)
  BY <1>1
<1>3. Len(h) = 24 /\ Len(name) = 10
  OBVIOUS
<1>4. h[1] = \h7e /\ h[2] = 0 /\ h[3] = \h10 /\ h[4] = 0 /\ h[5] = \h4c
  OBVIOUS
<1>5. \A j \in 1..10 : h[4 + 2 * j] = name[j]
  OBVIOUS
<1>6. \A j \in 1..9 : h[5 + 2 * j] = 0
  OBVIOUS
<1>7. \A j \in 1..10 : Clear(name[j])
  BY DEF Clear
<1>8. 4 + 2 * 10 = 24 /\ 10 - 1 = 9 /\ 10 \in 1..36
  OBVIOUS
<1> QED BY ONLY <1>2, <1>3, <1>4, <1>5, <1>6, <1>7, <1>8 DEF Heads, ClearName

\* Its letters add up to 1076.
LEMMA InternalsdTotal ==
  ASSUME NEW name, name = <<105, 110, 116, 101, 114, 110, 97, 108, 115, 100>>
  PROVE  Totals(name, 1076, 52127)
<1> DEFINE t == <<0, 105, 215, 331, 432, 546, 656, 753, 861, 976, 1076>>
           sum == [j \in 0..10 |-> t[j + 1]]
<1>1. Len(name) = 10
  OBVIOUS
<1>2. sum[10] = 1076
  OBVIOUS
<1>3. sum \in [0..10 -> Nat] /\ sum[0] = 0
  OBVIOUS
<1>4. \A j \in 1..10 : sum[j] = sum[j - 1] + name[j]
  OBVIOUS
<1>5. LetterSums(sum, name, Len(name))
  BY <1>1, <1>3, <1>4 DEF LetterSums
<1>6. ASSUME NEW x, WordSum(x) = 154622 + 1076 PROVE ipcheck(x) = 52127
  BY <1>6 DEF ipcheck
<1> HIDE DEF sum
<1> QED BY <1>1, <1>2, <1>5, <1>6 DEF Totals

\* The head of syberfs_partition is one for its name.
LEMMA SyberfsHead ==
  ASSUME NEW name, name = <<115, 121, 98, 101, 114, 102, 115>>,
         NEW h, h = <<126, 0, 16, 0, 76, 115, 0, 121, 0, 98, 0, 101, 0, 114,
                      0, 102, 0, 115>>
  PROVE  Heads(h, name)
<1>1. /\ 0 \in Byte /\ 16 \in Byte /\ 76 \in Byte /\ 98 \in Byte /\ 101 \in Byte /\ 102 \in Byte
      /\ 114 \in Byte /\ 115 \in Byte /\ 121 \in Byte /\ 126 \in Byte
  BY DEF Byte
<1>2. h \in Seq(Byte)
  BY <1>1
<1>3. Len(h) = 18 /\ Len(name) = 7
  OBVIOUS
<1>4. h[1] = \h7e /\ h[2] = 0 /\ h[3] = \h10 /\ h[4] = 0 /\ h[5] = \h4c
  OBVIOUS
<1>5. \A j \in 1..7 : h[4 + 2 * j] = name[j]
  OBVIOUS
<1>6. \A j \in 1..6 : h[5 + 2 * j] = 0
  OBVIOUS
<1>7. \A j \in 1..7 : Clear(name[j])
  BY DEF Clear
<1>8. 4 + 2 * 7 = 18 /\ 7 - 1 = 6 /\ 7 \in 1..36
  OBVIOUS
<1> QED BY ONLY <1>2, <1>3, <1>4, <1>5, <1>6, <1>7, <1>8 DEF Heads, ClearName

\* Its letters add up to 766.
LEMMA SyberfsTotal ==
  ASSUME NEW name, name = <<115, 121, 98, 101, 114, 102, 115>>
  PROVE  Totals(name, 766, 417)
<1> DEFINE t == <<0, 115, 236, 334, 435, 549, 651, 766>>
           sum == [j \in 0..7 |-> t[j + 1]]
<1>1. Len(name) = 7
  OBVIOUS
<1>2. sum[7] = 766
  OBVIOUS
<1>3. sum \in [0..7 -> Nat] /\ sum[0] = 0
  OBVIOUS
<1>4. \A j \in 1..7 : sum[j] = sum[j - 1] + name[j]
  OBVIOUS
<1>5. LetterSums(sum, name, Len(name))
  BY <1>1, <1>3, <1>4 DEF LetterSums
<1>6. ASSUME NEW x, WordSum(x) = 154622 + 766 PROVE ipcheck(x) = 417
  BY <1>6 DEF ipcheck
<1> HIDE DEF sum
<1> QED BY <1>1, <1>2, <1>5, <1>6 DEF Totals

\* The head of data_partition is one for its name.
LEMMA DataHead ==
  ASSUME NEW name, name = <<100, 97, 116, 97>>,
         NEW h, h = <<126, 0, 16, 0, 76, 100, 0, 97, 0, 116, 0, 97>>
  PROVE  Heads(h, name)
<1>1. /\ 0 \in Byte /\ 16 \in Byte /\ 76 \in Byte /\ 97 \in Byte /\ 100 \in Byte /\ 116 \in Byte
      /\ 126 \in Byte
  BY DEF Byte
<1>2. h \in Seq(Byte)
  BY <1>1
<1>3. Len(h) = 12 /\ Len(name) = 4
  OBVIOUS
<1>4. h[1] = \h7e /\ h[2] = 0 /\ h[3] = \h10 /\ h[4] = 0 /\ h[5] = \h4c
  OBVIOUS
<1>5. \A j \in 1..4 : h[4 + 2 * j] = name[j]
  OBVIOUS
<1>6. \A j \in 1..3 : h[5 + 2 * j] = 0
  OBVIOUS
<1>7. \A j \in 1..4 : Clear(name[j])
  BY DEF Clear
<1>8. 4 + 2 * 4 = 12 /\ 4 - 1 = 3 /\ 4 \in 1..36
  OBVIOUS
<1> QED BY ONLY <1>2, <1>3, <1>4, <1>5, <1>6, <1>7, <1>8 DEF Heads, ClearName

\* Its letters add up to 410.
LEMMA DataTotal ==
  ASSUME NEW name, name = <<100, 97, 116, 97>>
  PROVE  Totals(name, 410, 26018)
<1> DEFINE t == <<0, 100, 197, 313, 410>>
           sum == [j \in 0..4 |-> t[j + 1]]
<1>1. Len(name) = 4
  OBVIOUS
<1>2. sum[4] = 410
  OBVIOUS
<1>3. sum \in [0..4 -> Nat] /\ sum[0] = 0
  OBVIOUS
<1>4. \A j \in 1..4 : sum[j] = sum[j - 1] + name[j]
  OBVIOUS
<1>5. LetterSums(sum, name, Len(name))
  BY <1>1, <1>3, <1>4 DEF LetterSums
<1>6. ASSUME NEW x, WordSum(x) = 154622 + 410 PROVE ipcheck(x) = 26018
  BY <1>6 DEF ipcheck
<1> HIDE DEF sum
<1> QED BY <1>1, <1>2, <1>5, <1>6 DEF Totals

\* A frame with the letters spells the name.
LEMMA LettersSpell ==
  ASSUME NEW name \in Seq(Byte), NEW w, Letters(w, name)
  PROVE  \A i \in 1..72 : w[i + 5] = Wide(name)[i]
BY LettersWide

\* What the sums of the letters end in.
LEMMA TotalsSum ==
  ASSUME NEW name, NEW p, p = Len(name), NEW total, NEW ck, Totals(name, total, ck)
  PROVE  \E sum : LetterSums(sum, name, p) /\ sum[p] = total
BY DEF Totals

\* The checksum of a frame with that sum.
LEMMA TotalsCheck ==
  ASSUME NEW name, NEW total, NEW ck, Totals(name, total, ck), NEW t, WordSum(t) = 154622 + total
  PROVE  ipcheck(t) = ck
BY DEF Totals

\* An array made of a head and a tail, as far as the data goes.
LEMMA FilledLetters ==
  ASSUME NEW name, NEW w, NEW h, NEW e, Filled(w, h, e), Heads(h, name)
  PROVE  Letters(w, name) /\ \A i \in 1..5 : w[i] = h[i]
<1>1. PICK p \in 1..36 : p = Len(name)
  BY DEF Heads
<1>2. Len(h) = 4 + 2 * p
  BY <1>1 DEF Heads
<1>3. /\ \A i \in 1..(4 + 2 * p) : w[i] = h[i]
      /\ \A i \in (5 + 2 * p)..77 : w[i] = 0
  <2>1. (4 + 2 * p) + 1 = 5 + 2 * p
    OBVIOUS
  <2>2. /\ \A i \in 1..Len(h) : w[i] = h[i]
        /\ \A i \in (Len(h) + 1)..77 : w[i] = 0
    BY DEF Filled
  <2> QED BY <1>2, <2>1, <2>2
<1>4. ASSUME NEW j \in 1..p PROVE w[4 + 2 * j] = name[j]
  <2>1. 4 + 2 * j \in 1..(4 + 2 * p)
    OBVIOUS
  <2>2. h[4 + 2 * j] = name[j]
    BY <1>1 DEF Heads
  <2> QED BY <1>3, <2>1, <2>2
<1>5. ASSUME NEW j \in 1..(p - 1) PROVE w[5 + 2 * j] = 0
  <2>1. 5 + 2 * j \in 1..(4 + 2 * p)
    OBVIOUS
  <2>2. h[5 + 2 * j] = 0
    BY <1>1 DEF Heads
  <2> QED BY <1>3, <2>1, <2>2
<1>6. \A i \in 1..5 : i \in 1..(4 + 2 * p)
  OBVIOUS
<1>7. \A i \in 1..5 : w[i] = h[i]
  BY <1>3, <1>6
<1>8. Letters(w, name)
  BY <1>1, <1>3, <1>4, <1>5 DEF Letters
<1> QED BY <1>7, <1>8

\* Its last seven bytes are the tail.
LEMMA FilledTail ==
  ASSUME NEW w, NEW h, NEW e, Filled(w, h, e), NEW a, NEW b, Tails(e, a, b)
  PROVE  /\ w[78] = \hff /\ w[79] = \hff /\ w[80] = \hff /\ w[81] = \hff
         /\ w[82] = a /\ w[83] = b /\ w[84] = \h7e
<1>1. \A i \in 1..7 : w[77 + i] = e[i]
  BY DEF Filled
<1>2. /\ w[78] = e[1] /\ w[79] = e[2] /\ w[80] = e[3] /\ w[81] = e[4]
      /\ w[82] = e[5] /\ w[83] = e[6] /\ w[84] = e[7]
  BY <1>1
<1> QED BY <1>2 DEF Tails

\* It spells the name.
LEMMA FilledSpells ==
  ASSUME NEW name \in Seq(Byte), NEW w, NEW h, NEW e, Filled(w, h, e), Heads(h, name),
         NEW a, NEW b, Tails(e, a, b)
  PROVE  Spells(w, name)
<1>1. \A i \in 1..72 : w[i + 5] = Wide(name)[i]
  BY FilledLetters, LettersSpell
<1>2. w[1] = \h7e /\ w[2] = 0 /\ w[3] = \h10 /\ w[4] = 0 /\ w[5] = \h4c
  <2>1. w[1] = h[1] /\ w[2] = h[2] /\ w[3] = h[3] /\ w[4] = h[4] /\ w[5] = h[5]
    BY FilledLetters
  <2> QED BY <2>1 DEF Heads
<1>3. w \in Seq(Byte) /\ Len(w) = 84
  BY DEF Filled
<1>4. w[78] = \hff /\ w[79] = \hff /\ w[80] = \hff /\ w[81] = \hff /\ w[84] = \h7e
  BY FilledTail
<1> QED BY <1>1, <1>2, <1>3, <1>4 DEF Spells

\* A frame that spells the name has the checksum of its letters.
LEMMA SpellsCheck ==
  ASSUME NEW name \in Seq(Byte), NEW p \in 1..36, p = Len(name), NEW w, Spells(w, name),
         NEW total, NEW ck, Totals(name, total, ck)
  PROVE  ipcheck(SubSeq(w, 2, 81)) = ck
<1>1. PICK sum : LetterSums(sum, name, p) /\ sum[p] = total
  BY TotalsSum
<1>2. SumIs(w, sum[p])
  BY <1>1, SpellsSum
<1>3. SumIs(w, total)
  BY <1>1, <1>2
<1>4. PICK t : t = SubSeq(w, 2, 81)
  OBVIOUS
<1>5. WordSum(t) = 154622 + total
  BY <1>3, <1>4 DEF SumIs
<1>6. ipcheck(t) = ck
  BY <1>5, TotalsCheck
<1> QED BY <1>4, <1>6

\* Two bytes that are the checksum ck and need no escaping.
CheckBytes(a, b, ck) ==
  a * 256 + b = ck /\ Clear(a) /\ Clear(b)

\* It carries the name when the tail has the checksum.
LEMMA ArrayCarries ==
  ASSUME NEW name \in Seq(Byte), NEW w, NEW h, NEW e, Filled(w, h, e), Heads(h, name),
         NEW a, NEW b, Tails(e, a, b), NEW ck, CheckBytes(a, b, ck),
         NEW total, Totals(name, total, ck)
  PROVE  Carries(w, name)
<1>1. Spells(w, name)
  BY FilledSpells
<1>2. PICK p \in 1..36 : p = Len(name)
  BY DEF Heads
<1>3. ipcheck(SubSeq(w, 2, 81)) = ck
  BY <1>1, <1>2, SpellsCheck
<1>4. ClearName(name)
  BY DEF Heads
<1>5. w[82] = a /\ w[83] = b
  BY FilledTail
<1>6. /\ ipcheck(SubSeq(w, 2, 81)) = w[82] * 256 + w[83]
      /\ Clear(w[82]) /\ Clear(w[83])
  BY <1>3, <1>5 DEF CheckBytes
<1> QED BY <1>1, <1>4, <1>6 DEF Carries

\* The array for internalsd carries what it should.
LEMMA InternalsdCarries == Carries(internalsd_partition, Names.internalsd)
<1>1. PICK name : name = <<105, 110, 116, 101, 114, 110, 97, 108, 115, 100>> /\ name = Names.internalsd
  BY DEF Names
<1>2. name \in Seq(Byte)
  <2>1. "internalsd" \in DOMAIN Names
    BY DEF Names
  <2> QED BY <1>1, <2>1, NameBytes
<1>3. PICK h :
        h = <<\h7e, \h00, \h10, \h00, \h4c, \h69, \h00, \h6e, \h00, \h74, \h00, \h65,
               \h00, \h72, \h00, \h6e, \h00, \h61, \h00, \h6c, \h00, \h73, \h00, \h64>>
  OBVIOUS
<1>4. PICK a, b \in Byte : a = \hcb /\ b = \h9f /\ CheckBytes(a, b, 52127)
  BY DEF Byte, CheckBytes, Clear
<1>5. PICK e : e = <<\hff, \hff, \hff, \hff, a, b, \h7e>> /\ Tails(e, a, b)
  BY TailsIs, ZenonT(40)
<1>6. PICK z \in Nat : z = 53
  OBVIOUS
<1>7. Heads(h, name)
  BY <1>1, <1>3, InternalsdHead
<1>8. Totals(name, 1076, 52127)
  BY <1>1, InternalsdTotal
<1>9. Len(h) + z = 77
  BY <1>3, <1>6
<1>10. PICK w : w = h \o Zeros(z) \o e
  OBVIOUS
<1>11. Filled(w, h, e)
  <2>1. h \in Seq(Byte) /\ e \in Seq(Byte) /\ Len(e) = 7
    BY <1>5, <1>7 DEF Heads, Tails
  <2> QED BY <1>9, <1>10, <2>1, ArrayFilled
<1>12. Carries(w, name)
  BY <1>2, <1>4, <1>5, <1>7, <1>8, <1>11, ArrayCarries
<1>13. w = internalsd_partition
  BY <1>3, <1>4, <1>5, <1>6, <1>10 DEF internalsd_partition
<1> QED BY <1>1, <1>12, <1>13

\* The array for syberfs carries what it should.
LEMMA SyberfsCarries == Carries(syberfs_partition, Names.syberfs)
<1>1. PICK name : name = <<115, 121, 98, 101, 114, 102, 115>> /\ name = Names.syberfs
  BY DEF Names
<1>2. name \in Seq(Byte)
  <2>1. "syberfs" \in DOMAIN Names
    BY DEF Names
  <2> QED BY <1>1, <2>1, NameBytes
<1>3. PICK h :
        h = <<\h7e, \h00, \h10, \h00, \h4c, \h73, \h00, \h79, \h00, \h62, \h00, \h65,
               \h00, \h72, \h00, \h66, \h00, \h73>>
  OBVIOUS
<1>4. PICK a, b \in Byte : a = \h01 /\ b = \ha1 /\ CheckBytes(a, b, 417)
  BY DEF Byte, CheckBytes, Clear
<1>5. PICK e : e = <<\hff, \hff, \hff, \hff, a, b, \h7e>> /\ Tails(e, a, b)
  BY TailsIs
<1>6. PICK z \in Nat : z = 59
  OBVIOUS
<1>7. Heads(h, name)
  BY <1>1, <1>3, SyberfsHead
<1>8. Totals(name, 766, 417)
  BY <1>1, SyberfsTotal
<1>9. Len(h) + z = 77
  BY <1>3, <1>6
<1>10. PICK w : w = h \o Zeros(z) \o e
  OBVIOUS
<1>11. Filled(w, h, e)
  <2>1. h \in Seq(Byte) /\ e \in Seq(Byte) /\ Len(e) = 7
    BY <1>5, <1>7 DEF Heads, Tails
  <2> QED BY <1>9, <1>10, <2>1, ArrayFilled
<1>12. Carries(w, name)
  BY <1>2, <1>4, <1>5, <1>7, <1>8, <1>11, ArrayCarries
<1>13. w = syberfs_partition
  BY <1>3, <1>4, <1>5, <1>6, <1>10 DEF syberfs_partition
<1> QED BY <1>1, <1>12, <1>13

\* The array for data carries what it should.
LEMMA DataCarries == Carries(data_partition, Names.data)
<1>1. PICK name : name = <<100, 97, 116, 97>> /\ name = Names.data
  BY DEF Names
<1>2. name \in Seq(Byte)
  <2>1. "data" \in DOMAIN Names
    BY DEF Names
  <2> QED BY <1>1, <2>1, NameBytes
<1>3. PICK h :
        h = <<\h7e, \h00, \h10, \h00, \h4c, \h64, \h00, \h61, \h00, \h74, \h00, \h61>>
  OBVIOUS
<1>4. PICK a, b \in Byte : a = \h65 /\ b = \ha2 /\ CheckBytes(a, b, 26018)
  BY DEF Byte, CheckBytes, Clear
<1>5. PICK e : e = <<\hff, \hff, \hff, \hff, a, b, \h7e>> /\ Tails(e, a, b)
  BY TailsIs
<1>6. PICK z \in Nat : z = 65
  OBVIOUS
<1>7. Heads(h, name)
  BY <1>1, <1>3, DataHead
<1>8. Totals(name, 410, 26018)
  BY <1>1, DataTotal
<1>9. Len(h) + z = 77
  BY <1>3, <1>6
<1>10. PICK w : w = h \o Zeros(z) \o e
  OBVIOUS
<1>11. Filled(w, h, e)
  <2>1. h \in Seq(Byte) /\ e \in Seq(Byte) /\ Len(e) = 7
    BY <1>5, <1>7 DEF Heads, Tails
  <2> QED BY <1>9, <1>10, <2>1, ArrayFilled
<1>12. Carries(w, name)
  BY <1>2, <1>4, <1>5, <1>7, <1>8, <1>11, ArrayCarries
<1>13. w = data_partition
  BY <1>3, <1>4, <1>5, <1>6, <1>10 DEF data_partition
<1> QED BY <1>1, <1>12, <1>13

\* Each of the three arrays carries its name.
LEMMA OpenArraysCarry ==
  ASSUME NEW name \in DOMAIN OpenArrays
  PROVE  name \in DOMAIN Names /\ Carries(OpenArrays[name], Names[name])
<1>1. name = "internalsd" \/ name = "syberfs" \/ name = "data"
  BY DEF OpenArrays
<1>2. /\ OpenArrays["internalsd"] = internalsd_partition
      /\ OpenArrays["syberfs"] = syberfs_partition
      /\ OpenArrays["data"] = data_partition
  BY DEF OpenArrays
<1>3. \A n \in {"internalsd", "syberfs", "data"} : n \in DOMAIN Names
  BY DEF Names
<1> QED BY <1>1, <1>2, <1>3, InternalsdCarries, SyberfsCarries, DataCarries

\* So what USB_disk_initialize and blockdev_open send is understood.
LEMMA OpenDeviceUnderstood ==
  ASSUME NEW name \in DOMAIN OpenArrays
  PROVE  UnderstoodAs(OpenArrays[name], "ip", BSL_CMD_READ_FLASH_START, Wide(Names[name]) \o MaxSize)
<1>1. PICK n : n = Names[name]
  OBVIOUS
<1>2. n \in Seq(Byte) /\ Len(n) <= 36
  <2>1. name \in DOMAIN Names
    BY OpenArraysCarry
  <2>2. n \in Seq(Byte) /\ Len(n) <= 10
    BY <1>1, <2>1, NameBytes
  <2>3. Len(n) \in Nat
    BY <2>2, BytesOf
  <2> QED BY <2>2, <2>3
<1>3. Carries(OpenArrays[name], n)
  BY <1>1, OpenArraysCarry
<1> QED BY <1>1, <1>2, <1>3, CarriesUnderstood

-----------------------------------------------------------------------------
(* The theorem *)

\* Every request keeps Understood.
LEMMA StepUnderstood == Understood /\ [Next]_vars => Understood'
<1> SUFFICES ASSUME Understood, [Next]_vars PROVE Understood'
  OBVIOUS
<1>1. ASSUME NEW t \in {"crc", "ip"}, NEW c \in NoDataCommands, sprd_com_nodata(t, c)
      PROVE  Understood'
  <2>1. UnderstoodAs(Frame(t, c, <<>>), t, c, <<>>)
    BY NoDataPlain
  <2>2. Send(t, c, <<>>, Frame(t, c, <<>>))
    BY <1>1 DEF sprd_com_nodata, SendPlain
  <2> QED BY <2>1, <2>2 DEF Send, Understood
<1>2. ASSUME NEW f \in DOMAIN Image, DownloadStart(f) PROVE Understood'
  <2>1. UnderstoodAs(Frame(Image[f].type, BSL_CMD_START_DATA, Image[f].addr \o Image[f].size),
                     Image[f].type, BSL_CMD_START_DATA, Image[f].addr \o Image[f].size)
    BY DownloadStartPlain
  <2> QED BY <1>2, <2>1 DEF DownloadStart, SendPlain, Send, Understood
<1>3. ASSUME NEW name \in DOMAIN Names, NEW size \in Words, NEW sum \in Words,
             PartitionStart(name, size, sum)
      PROVE  Understood'
  <2>1. PICK end \in Words \cup {<<>>} : end = IF name = "l_fixnv1" THEN sum ELSE <<>>
    OBVIOUS
  <2>2. PICK d : d = Wide(Names[name]) \o size \o end
    OBVIOUS
  <2>3. d \in Seq(Byte) /\ Len(d) < 65536
    BY <2>2, PartitionStartData
  <2>4. UnderstoodAs(Escape(Frame("ip", BSL_CMD_START_DATA, d)), "ip", BSL_CMD_START_DATA, d)
    BY <2>3, CommandBytes, EscapedUnderstood
  <2>5. Send("ip", BSL_CMD_START_DATA, d, Escape(Frame("ip", BSL_CMD_START_DATA, d)))
    BY <1>3, <2>1, <2>2 DEF PartitionStart, SendEscaped
  <2> QED BY <2>4, <2>5 DEF Send, Understood
<1>4. ASSUME NEW name \in DOMAIN Names, UploadStart(name) PROVE Understood'
  <2>1. PICK d : d = Wide(Names[name]) \o MaxSize
    OBVIOUS
  <2>2. d \in Seq(Byte) /\ Len(d) < 65536
    <3>1. d \in Seq(Byte) /\ Len(d) = 76
      BY <2>1, UploadStartData
    <3> QED BY <3>1
  <2>3. UnderstoodAs(Escape(Frame("ip", BSL_CMD_READ_FLASH_START, d)), "ip",
                     BSL_CMD_READ_FLASH_START, d)
    BY <2>2, CommandBytes, EscapedUnderstood
  <2>4. Send("ip", BSL_CMD_READ_FLASH_START, d, Escape(Frame("ip", BSL_CMD_READ_FLASH_START, d)))
    BY <1>4, <2>1 DEF UploadStart, SendEscaped
  <2> QED BY <2>3, <2>4 DEF Send, Understood
<1>5. ASSUME NEW size \in Words, NEW offset \in Words, ReadMidst(size, offset)
      PROVE  Understood'
  <2>1. PICK d : d = size \o offset
    OBVIOUS
  <2>2. d \in Seq(Byte) /\ Len(d) < 65536
    BY <2>1, ReadMidstData
  <2>3. UnderstoodAs(Escape(Frame("ip", BSL_CMD_READ_FLASH_MIDST, d)), "ip",
                     BSL_CMD_READ_FLASH_MIDST, d)
    BY <2>2, CommandBytes, EscapedUnderstood
  <2>4. Send("ip", BSL_CMD_READ_FLASH_MIDST, d, Escape(Frame("ip", BSL_CMD_READ_FLASH_MIDST, d)))
    BY <1>5, <2>1 DEF ReadMidst, SendEscaped
  <2> QED BY <2>3, <2>4 DEF Send, Understood
<1>6. ASSUME NEW t \in {"crc", "ip"}, NEW chunk \in Chunks, MidstData(t, chunk)
      PROVE  Understood'
  <2>1. chunk \in Seq(Byte) /\ Len(chunk) < 65536
    BY MidstDataData
  <2>2. UnderstoodAs(Escape(Frame(t, BSL_CMD_MIDST_DATA, chunk)), t, BSL_CMD_MIDST_DATA, chunk)
    BY <2>1, CommandBytes, EscapedUnderstood
  <2> QED BY <1>6, <2>2 DEF MidstData, SendEscaped, Send, Understood
<1>7. ASSUME NEW name \in DOMAIN OpenArrays, OpenDevice(name) PROVE Understood'
  <2>1. UnderstoodAs(OpenArrays[name], "ip", BSL_CMD_READ_FLASH_START, Wide(Names[name]) \o MaxSize)
    BY OpenDeviceUnderstood
  <2> QED BY <1>7, <2>1 DEF OpenDevice, Send, Understood
<1>8. CASE Sent
  BY <1>8 DEF Sent, Understood
<1>9. CASE UNCHANGED vars
  BY <1>9 DEF vars, Understood
<1> QED BY <1>1, <1>2, <1>3, <1>4, <1>5, <1>6, <1>7, <1>8, <1>9 DEF Next

\* Every request is understood by the phone as the command and the data that were meant:
\* for all sizes, offsets and data, from the functions that escape, from those that do
\* not, and from the three arrays.
THEOREM UnderstoodAlways == Spec => []Understood
<1>1. Init => Understood
  BY DEF Init, Understood
<1> QED BY <1>1, StepUnderstood, PTL DEF Spec

-----------------------------------------------------------------------------
(* The CRC of every request *)

\* A request with a CRC is sent as bytes.
CrcBytes == type = "crc" => wire \in Seq(Byte)

\* What is sent for a frame of bytes are bytes.
LEMMA FrameSentBytes ==
  ASSUME NEW t, NEW c \in Byte, NEW d \in Seq(Byte)
  PROVE  Frame(t, c, d) \in Seq(Byte) /\ Escape(Frame(t, c, d)) \in Seq(Byte)
<1>1. PICK f \in Seq(Byte) : f = Frame(t, c, d)
  BY FrameIs
<1>2. PICK g : Escapes(g, f) /\ Escape(f) = g[Len(f)]
  BY EscapeIs
<1>3. g[Len(f)] \in Seq(Byte)
  BY <1>2, BytesOf DEF Escapes
<1> QED BY <1>1, <1>2, <1>3

\* What is unescaped of bytes are bytes.
LEMMA UnescapeBytes ==
  ASSUME NEW w \in Seq(Byte)
  PROVE  Unescape(w, 0) \in Seq(Byte)
<1>1. PICK f : /\ Unescapes(f, w)
               /\ Unescape(w, 0) = f[Len(w)].out \o (IF f[Len(w)].esc THEN Unescaped(0) ELSE <<>>)
  BY UnescapeIs
<1>2. f[Len(w)].out \in Seq(Byte)
  BY <1>1, BytesOf DEF Unescapes, Unescaping
<1>3. Unescaped(0) = <<>>
  BY DEF Unescaped
<1>4. Unescape(w, 0) = f[Len(w)].out \o <<>>
  BY <1>1, <1>3
<1> QED BY <1>2, <1>4

\* Every step keeps it so.
LEMMA StepCrcBytes == CrcBytes /\ [Next]_vars => CrcBytes'
<1> SUFFICES ASSUME CrcBytes, [Next]_vars PROVE CrcBytes'
  OBVIOUS
<1>1. ASSUME NEW t \in {"crc", "ip"}, NEW c \in NoDataCommands, sprd_com_nodata(t, c)
      PROVE  CrcBytes'
  <2>1. c \in Byte /\ <<>> \in Seq(Byte)
    BY CommandBytes
  <2>2. Frame(t, c, <<>>) \in Seq(Byte)
    BY <2>1, FrameSentBytes
  <2> QED BY <1>1, <2>2 DEF sprd_com_nodata, SendPlain, Send, CrcBytes
<1>2. ASSUME NEW f \in DOMAIN Image, DownloadStart(f) PROVE CrcBytes'
  <2>1. PICK t, a, s : t = Image[f].type /\ a = Image[f].addr /\ s = Image[f].size
    OBVIOUS
  <2>2. \/ a = <<\h50, 0, 0, 0>> /\ s = <<0, 0, \h50, \h9d>>
        \/ a = <<\h9f, 0, 0, 0>> /\ s = <<0, \h06, \h99, \h88>>
    BY <2>1 DEF Image
  <2>3. a \in Seq(Byte) /\ s \in Seq(Byte)
    BY <2>2, StartBytes
  <2>d. PICK d : d = a \o s
    OBVIOUS
  <2>e. d \in Seq(Byte)
    BY <2>3, <2>d, ConcatProperties
  <2>4. Frame(t, BSL_CMD_START_DATA, a \o s) \in Seq(Byte)
    BY <2>d, <2>e, CommandBytes, FrameSentBytes
  <2>5. wire' = Frame(t, BSL_CMD_START_DATA, a \o s)
    BY <1>2, <2>1 DEF DownloadStart, SendPlain, Send
  <2> QED BY <2>4, <2>5 DEF CrcBytes
<1>3. ASSUME NEW name \in DOMAIN Names, NEW size \in Words, NEW sum \in Words,
             PartitionStart(name, size, sum)
      PROVE  CrcBytes'
  BY <1>3 DEF PartitionStart, SendEscaped, Send, CrcBytes
<1>4. ASSUME NEW name \in DOMAIN Names, UploadStart(name) PROVE CrcBytes'
  BY <1>4 DEF UploadStart, SendEscaped, Send, CrcBytes
<1>5. ASSUME NEW size \in Words, NEW offset \in Words, ReadMidst(size, offset)
      PROVE  CrcBytes'
  BY <1>5 DEF ReadMidst, SendEscaped, Send, CrcBytes
<1>6. ASSUME NEW t \in {"crc", "ip"}, NEW chunk \in Chunks, MidstData(t, chunk)
      PROVE  CrcBytes'
  <2>1. chunk \in Seq(Byte)
    BY MidstDataData
  <2>2. Escape(Frame(t, BSL_CMD_MIDST_DATA, chunk)) \in Seq(Byte)
    BY <2>1, CommandBytes, FrameSentBytes
  <2> QED BY <1>6, <2>2 DEF MidstData, SendEscaped, Send, CrcBytes
<1>7. ASSUME NEW name \in DOMAIN OpenArrays, OpenDevice(name) PROVE CrcBytes'
  BY <1>7 DEF OpenDevice, Send, CrcBytes
<1>8. CASE Sent
  BY <1>8 DEF Sent, CrcBytes
<1>9. CASE UNCHANGED vars
  BY <1>9 DEF vars, CrcBytes
<1> QED BY <1>1, <1>2, <1>3, <1>4, <1>5, <1>6, <1>7, <1>8, <1>9 DEF Next

\* A request that is understood has the checksum that the division gives.
LEMMA UnderstoodDivided == Understood /\ CrcBytes => CrcIsDivision
<1> SUFFICES ASSUME Understood, CrcBytes, wire # <<>>, type = "crc"
             PROVE  LET frame == Unescape(wire, 0)
                        n     == Len(frame)
                    IN Remainder(SubSeq(frame, 2, n - 3)) = frame[n - 2] * 256 + frame[n - 1]
  BY DEF CrcIsDivision
<1>1. PICK frame \in Seq(Byte) : frame = Unescape(wire, 0)
  BY UnescapeBytes DEF CrcBytes
<1>2. PICK n \in Nat : n = Len(frame)
  BY BytesOf
<1>3. sprd_verify_frame(type, frame)
  BY <1>1 DEF Understood, UnderstoodAs, Says
<1>4. PICK body : body = SubSeq(frame, 2, n - 3)
  OBVIOUS
<1>5. body \in Seq(Byte)
  BY <1>2, <1>4
<1>6. checksum("crc", body) = frame[n - 2] * 256 + frame[n - 1]
  BY <1>2, <1>3, <1>4 DEF sprd_verify_frame
<1>7. checksum("crc", body) = Remainder(body)
  BY <1>5, CrcIsRemainder DEF checksum
<1> QED BY <1>1, <1>2, <1>4, <1>6, <1>7

\* The CRC of every request is the remainder of its division by the polynomial: of START_DATA
\* and of the commands without data, and of every block of FDL1, whatever its bytes.
THEOREM CrcIsDivisionAlways == Spec => []CrcIsDivision
<1>1. Init => Understood /\ CrcBytes
  BY DEF Init, Understood, CrcBytes
<1>2. Understood /\ CrcBytes /\ [Next]_vars => (Understood /\ CrcBytes)'
  BY StepUnderstood, StepCrcBytes
<1> QED BY <1>1, <1>2, UnderstoodDivided, PTL DEF Spec

=============================================================================
