-------------------------- MODULE FrameStreamProofs --------------------------
(***************************************************************************)
(* The receive loop of sprd_upload, USB_disk_read and blockdev_bread, for  *)
(* data of any length and any bytes, cut into packets in any way.          *)
(***************************************************************************)
EXTENDS FrameStream, SprdFrameProofs

-----------------------------------------------------------------------------
(* Pieces of a sequence *)

\* t is what s holds from a + 1 to z.
IsPiece(t, s, a, z) ==
  t \in Seq(Byte) /\ Len(t) = z - a /\ \A i \in 1..(z - a) : t[i] = s[a + i]

\* SubSeq gives it.
LEMMA PieceIs ==
  ASSUME NEW s \in Seq(Byte), NEW a \in Nat, NEW z \in Nat, a <= z, z <= Len(s)
  PROVE  IsPiece(SubSeq(s, a + 1, z), s, a, z)
<1> DEFINE t == SubSeq(s, a + 1, z)
<1>1. Len(s) \in Nat /\ \A i \in 1..Len(s) : s[i] \in Byte
  BY BytesOf
<1>2. \A i \in (a + 1)..z : s[i] \in Byte
  BY <1>1
<1>3. /\ t \in Seq(Byte)
      /\ Len(t) = IF a + 1 <= z THEN z - (a + 1) + 1 ELSE 0
      /\ \A i \in 1..(z - (a + 1) + 1) : t[i] = s[(a + 1) + i - 1]
  BY <1>2, SubSeqProperties
<1> HIDE DEF t
<1>4. Len(t) = z - a /\ \A i \in 1..(z - a) : t[i] = s[a + i]
  BY <1>3
<1> QED BY <1>3, <1>4 DEF IsPiece, t

\* There is only one.
LEMMA OnePiece ==
  ASSUME NEW t, NEW u, NEW s, NEW a \in Nat, NEW z \in Nat, a <= z,
         IsPiece(t, s, a, z), IsPiece(u, s, a, z)
  PROVE  t = u
<1>1. t \in Seq(Byte) /\ u \in Seq(Byte) /\ Len(t) = z - a /\ Len(u) = z - a
  BY DEF IsPiece
<1>2. \A i \in 1..Len(t) : t[i] = u[i]
  BY DEF IsPiece
<1> QED BY <1>1, <1>2, SeqEqual

\* A piece of a piece.
LEMMA PieceOfPiece ==
  ASSUME NEW t, NEW r, NEW s, NEW a \in Nat, NEW z \in Nat, NEW b \in Nat, NEW c \in Nat,
         a <= z, b <= c, c <= z - a, IsPiece(r, s, a, z), IsPiece(t, r, b, c)
  PROVE  IsPiece(t, s, a + b, a + c)
<1>1. t \in Seq(Byte) /\ Len(t) = c - b /\ (a + c) - (a + b) = c - b
  BY DEF IsPiece
<1>2. ASSUME NEW i \in 1..(c - b) PROVE t[i] = s[(a + b) + i]
  <2>1. b + i \in 1..(z - a) /\ a + (b + i) = (a + b) + i
    OBVIOUS
  <2>2. t[i] = r[b + i] /\ r[b + i] = s[a + (b + i)]
    BY <2>1 DEF IsPiece
  <2> QED BY <2>1, <2>2
<1> QED BY <1>1, <1>2 DEF IsPiece

\* The rest of a sequence, cut once more.
LEMMA CutRest ==
  ASSUME NEW s \in Seq(Byte), NEW p \in Nat, NEW n \in Nat, p + n <= Len(s),
         NEW r, r = SubSeq(s, p + 1, Len(s))
  PROVE  /\ r \in Seq(Byte) /\ Len(r) = Len(s) - p
         /\ SubSeq(r, 1, n) = SubSeq(s, p + 1, p + n)
         /\ SubSeq(r, n + 1, Len(r)) = SubSeq(s, (p + n) + 1, Len(s))
<1> DEFINE m == Len(s)
<1>0. m \in Nat
  BY BytesOf
<1> HIDE DEF m
<1>1. p <= m /\ p + n <= m /\ m - p \in Nat /\ n <= m - p /\ p + n \in Nat
  BY <1>0 DEF m
<1>2. IsPiece(r, s, p, m)
  BY <1>0, <1>1, PieceIs DEF m
<1>a. PICK o \in Nat, l \in Nat, q \in Nat : o = 0 /\ l = m - p /\ q = p + n
  BY <1>1
<1>3. r \in Seq(Byte) /\ Len(r) = l
  BY <1>2, <1>a DEF IsPiece
<1>b. /\ n <= l /\ o <= n /\ p <= q /\ q <= m /\ l <= m - p /\ n <= m - p /\ l <= Len(r) /\ n <= Len(r)
      /\ q <= Len(s) /\ m <= Len(s) /\ p + o = p /\ p + n = q /\ p + l = m
  BY <1>0, <1>1, <1>a, <1>3 DEF m
<1>4. SubSeq(r, o + 1, n) = SubSeq(s, p + 1, q)
  <2> DEFINE t == SubSeq(r, o + 1, n)
             u == SubSeq(s, p + 1, q)
  <2>1. IsPiece(t, r, o, n)
    BY <1>3, <1>b, PieceIs
  <2>2. IsPiece(u, s, p, q)
    BY <1>b, PieceIs
  <2> HIDE DEF t, u
  <2>3. IsPiece(t, s, p + o, p + n)
    BY <1>0, <1>1, <1>2, <1>b, <2>1, PieceOfPiece
  <2>4. IsPiece(t, s, p, q)
    BY <1>b, <2>3
  <2>5. t = u
    BY <1>b, <2>2, <2>4, OnePiece
  <2> QED BY <2>5 DEF t, u
<1>5. SubSeq(r, n + 1, l) = SubSeq(s, q + 1, m)
  <2> DEFINE t == SubSeq(r, n + 1, l)
             u == SubSeq(s, q + 1, m)
  <2>1. IsPiece(t, r, n, l)
    BY <1>3, <1>b, PieceIs
  <2>2. IsPiece(u, s, q, m)
    BY <1>0, <1>b, PieceIs
  <2> HIDE DEF t, u
  <2>3. IsPiece(t, s, p + n, p + l)
    BY <1>0, <1>1, <1>2, <1>b, <2>1, PieceOfPiece
  <2>4. IsPiece(t, s, q, m)
    BY <1>b, <2>3
  <2>5. t = u
    BY <1>0, <1>b, <2>2, <2>4, OnePiece
  <2> QED BY <2>5 DEF t, u
<1>6. o + 1 = 1 /\ q = p + n
  BY <1>a
<1>7. l = m - p
  BY <1>a
<1> QED BY <1>3, <1>4, <1>5, <1>6, <1>7 DEF m

\* Two pieces that meet are one piece.
LEMMA Glue ==
  ASSUME NEW s \in Seq(Byte), NEW p \in 0..Len(s), NEW a \in 0..p, NEW q \in p..Len(s)
  PROVE  SubSeq(s, a + 1, p) \o SubSeq(s, p + 1, q) = SubSeq(s, a + 1, q)
<1>1. Len(s) \in Nat
  BY BytesOf
<1>2. a + 1 \in 1..(Len(s) + 1) /\ p \in ((a + 1) - 1)..Len(s) /\ q \in p..Len(s)
  BY <1>1
<1> QED BY <1>2, ConcatAdjacentSubSeq

-----------------------------------------------------------------------------
(* The loop *)

\* The frame is one that the phone sends: a good reply, which its end byte ends.
Sent ==
  /\ frame \in Seq(Byte) /\ frame # <<>> /\ frame[Len(frame)] # \h7d
  /\ sprd_verify_frame(type, frame) /\ frame[3] = BSL_REP_READ_FLASH

\* Where the loop stands: p bytes of w, the escaped frame, have come, j of the frame have been
\* unescaped from those up to off[j], and while the loop runs something is still to come.
Stands(w, off, p, j) ==
  /\ Marks(frame, w, off)
  /\ j \in 0..Len(frame) /\ p \in 0..Len(w) /\ off[j] <= p
  /\ wire = SubSeq(w, p + 1, Len(w))
  /\ s_buffer = SubSeq(w, off[j] + 1, p)
  /\ data_buffer = SubSeq(frame, 1, j)
  /\ result = "none" => p < Len(w)
  /\ result # "none" => result = "ok" /\ data_buffer = frame

\* Nothing is said of a reply that was damaged.
IInv == Sent /\ (~faulty => \E w, off, p, j : Stands(w, off, p, j))

\* What Init chooses is a frame of bytes.
LEMMA InitSent ==
  ASSUME FrameStreamAssumption, Init
  PROVE  Sent
<1>1. PICK data \in BoundedSeq(Alphabet, MaxData) : frame = Frame(type, BSL_REP_READ_FLASH, data)
  BY DEF Init
<1>2. data \in Seq(Byte)
  <2>1. PICK m \in 0..MaxData : data \in [1..m -> Alphabet]
    BY <1>1 DEF BoundedSeq, SeqOf
  <2>2. m \in Nat /\ Alphabet \subseteq Byte
    BY DEF FrameStreamAssumption, Byte
  <2>3. data \in [1..m -> Byte]
    BY <2>1, <2>2
  <2> QED BY <2>2, <2>3, SeqDef
<1>3. PICK cmd \in Byte : cmd = BSL_REP_READ_FLASH
  BY DEF BSL_REP_READ_FLASH, Byte
<1> DEFINE n == Len(data)
<1>4. /\ frame \in Seq(Byte) /\ Len(frame) = n + 8 /\ frame[n + 8] = \h7e
      /\ frame[3] = cmd /\ sprd_verify_frame(type, frame)
  BY <1>1, <1>2, <1>3, FrameIs
<1>5. n \in Nat
  BY <1>2, BytesOf
<1> HIDE DEF n
<1>6. frame # <<>> /\ frame[Len(frame)] # \h7d
  BY <1>4, <1>5
<1> QED BY <1>3, <1>4, <1>6 DEF Sent

\* The marks go up, and only the last one stands at the end.
LEMMA MarksOrder ==
  ASSUME NEW src \in Seq(Byte), NEW w, NEW off, Marks(src, w, off)
  PROVE  \A k \in 0..Len(src) :
           /\ off[k] \in 0..Len(w)
           /\ off[k] = Len(w) => k = Len(src)
           /\ \A i \in 0..Len(src) : off[i] <= off[k] => i <= k
<1> DEFINE n == Len(src)
           m == Len(w)
<1>1. n \in Nat /\ m \in Nat /\ off \in [0..n -> Nat] /\ off[n] = m
  <2>1. w \in Seq(Byte) /\ off \in [0..Len(src) -> Nat] /\ off[Len(src)] = Len(w)
    BY DEF Marks
  <2> QED BY <2>1, BytesOf
<1>2. \A k \in 0..n : \A i \in 0..k : i < k => off[i] < off[k]
  BY MarksGrow
<1> HIDE DEF n, m
<1>3. ASSUME NEW k \in 0..n
      PROVE  /\ off[k] \in 0..m
             /\ off[k] = m => k = n
             /\ \A i \in 0..n : off[i] <= off[k] => i <= k
  <2>1. off[k] \in Nat /\ k <= n /\ k \in Nat /\ n \in 0..n /\ k \in 0..n
    BY <1>1
  <2>2. k < n => off[k] < off[n]
    BY <1>2, <2>1
  <2>3. off[k] <= m /\ (off[k] = m => k = n)
    BY <1>1, <2>1, <2>2
  <2>4. ASSUME NEW i \in 0..n, off[i] <= off[k], k < i PROVE FALSE
    <3>1. k \in 0..i
      BY <2>1, <2>4
    <3>2. off[k] < off[i] /\ off[i] \in Nat
      BY <1>1, <1>2, <2>4, <3>1
    <3> QED BY <2>1, <2>4, <3>2
  <2> QED BY <1>1, <2>1, <2>3, <2>4
<1> QED BY <1>3 DEF n, m

\* The bytes from the last mark to q end where a byte of src ends, unless the last is 0x7d.
EndsByte(src, w, off, j, q, chunk) ==
  IF chunk # <<>> /\ Last(chunk) = \h7d
  THEN q # Len(w)
  ELSE \E k \in j..Len(src) : off[k] = q /\ (k = Len(src) <=> q = Len(w))

\* So they can be unescaped, or the loop goes on and more is to come.
LEMMA ChunkEnds ==
  ASSUME NEW src \in Seq(Byte), src # <<>>, src[Len(src)] # \h7d,
         NEW w, NEW off, Marks(src, w, off),
         NEW j \in 0..Len(src), NEW q \in 0..Len(w), off[j] <= q,
         NEW chunk, chunk = SubSeq(w, off[j] + 1, q)
  PROVE  EndsByte(src, w, off, j, q, chunk)
<1> DEFINE n == Len(src)
           m == Len(w)
           a == off[j]
<1>1. /\ w \in Seq(Byte) /\ n \in Nat /\ m \in Nat /\ j \in Nat /\ q \in Nat /\ off[n] = m
  <2>1. w \in Seq(Byte) /\ off[Len(src)] = Len(w)
    BY DEF Marks
  <2> QED BY <2>1, BytesOf
<1>2. /\ a \in Nat /\ n \in 0..n
      /\ \A k \in 0..n : /\ off[k] = m => k = n
                         /\ \A i \in 0..n : off[i] <= off[k] => i <= k
  <2>1. \A k \in 0..n : /\ off[k] \in 0..m
                        /\ off[k] = m => k = n
                        /\ \A i \in 0..n : off[i] <= off[k] => i <= k
    BY MarksOrder
  <2> HIDE DEF n, m
  <2> QED BY <1>1, <2>1 DEF n
<1>3. w[m] # \h7d /\ m > 0
  BY MarksLast
<1>4. IsPiece(chunk, w, a, q)
  <2>1. a \in Nat /\ q \in Nat /\ a <= q /\ q <= Len(w)
    BY <1>1, <1>2
  <2> HIDE DEF a
  <2> QED BY <1>1, <2>1, PieceIs DEF a
<1>5. chunk \in Seq(Byte) /\ Len(chunk) = q - a /\ \A i \in 1..(q - a) : chunk[i] = w[a + i]
  BY <1>4 DEF IsPiece
<1>6. CASE chunk = <<>>
  <2>1. q = a
    <3>1. q - a = 0
      BY <1>5, <1>6, EmptySeq
    <3> HIDE DEF a
    <3> QED BY <1>1, <1>2, <3>1
  <2>2. j \in j..n /\ j \in 0..n
    BY <1>1
  <2>3. off[j] = q /\ (j = n <=> q = m)
    BY <1>1, <1>2, <2>1, <2>2
  <2> QED BY <1>6, <2>2, <2>3 DEF EndsByte
<1>7. CASE chunk # <<>>
  <2>1. a < q /\ q - a \in 1..(q - a) /\ a + (q - a) = q /\ q \in 1..m
    <3>1. q - a # 0
      BY <1>1, <1>2, <1>5, <1>7, EmptySeq
    <3> HIDE DEF a
    <3> QED BY <1>1, <1>2, <3>1 DEF a
  <2>2. Last(chunk) = w[q]
    BY <1>5, <2>1 DEF Last
  <2>3. CASE Last(chunk) = \h7d
    <3>1. q # m
      BY <1>3, <2>2, <2>3
    <3> QED BY <1>7, <2>3, <3>1 DEF EndsByte
  <2>4. CASE Last(chunk) # \h7d
    <3>1. PICK k \in 1..n : off[k] = q
      BY <2>1, <2>2, <2>4, MarksEnd
    <3>2. k \in 0..n /\ off[j] <= off[k]
      BY <1>1, <3>1
    <3>3. j <= k
      BY <1>2, <3>2
    <3>4. k \in j..n /\ (k = n <=> q = m)
      BY <1>1, <1>2, <3>1, <3>2, <3>3
    <3> QED BY <1>7, <2>4, <3>1, <3>4 DEF EndsByte
  <2> QED BY <2>3, <2>4
<1> QED BY <1>6, <1>7

\* A packet is taken whole: what is now in s_buffer and what is left on the wire are pieces.
LEMMA PacketTaken ==
  ASSUME NEW w \in Seq(Byte), NEW p \in 0..Len(w), NEW a \in 0..p, NEW n \in 0..(Len(w) - p),
         NEW r, r = SubSeq(w, p + 1, Len(w))
  PROVE  /\ SubSeq(w, a + 1, p) \o SubSeq(r, 1, n) = SubSeq(w, a + 1, p + n)
         /\ SubSeq(r, n + 1, Len(r)) = SubSeq(w, (p + n) + 1, Len(w))
<1>1. Len(w) \in Nat
  BY BytesOf
<1>2. p \in Nat /\ n \in Nat /\ p + n <= Len(w) /\ p + n \in p..Len(w)
  BY <1>1
<1>3. /\ SubSeq(r, 1, n) = SubSeq(w, p + 1, p + n)
      /\ SubSeq(r, n + 1, Len(r)) = SubSeq(w, (p + n) + 1, Len(w))
  BY <1>2, CutRest
<1>4. PICK q \in p..Len(w) : q = p + n
  BY <1>2
<1>5. SubSeq(w, a + 1, p) \o SubSeq(w, p + 1, q) = SubSeq(w, a + 1, q)
  BY Glue
<1> QED BY <1>3, <1>4, <1>5

\* How many bytes are left.
LEMMA RestLength ==
  ASSUME NEW w \in Seq(Byte), NEW p \in 0..Len(w)
  PROVE  Len(SubSeq(w, p + 1, Len(w))) = Len(w) - p /\ Len(w) \in Nat
<1>1. Len(w) \in Nat
  BY BytesOf
<1>2. PICK m \in Nat : m = Len(w)
  BY <1>1
<1>3. IsPiece(SubSeq(w, p + 1, m), w, p, m)
  BY <1>2, PieceIs
<1>4. Len(SubSeq(w, p + 1, m)) = m - p
  BY <1>3 DEF IsPiece
<1> QED BY <1>1, <1>2, <1>4

\* A packet is unescaped together with what was left: the frame grows by whole bytes.
LEMMA GrowsBy ==
  ASSUME NEW src \in Seq(Byte), NEW w, NEW off, Marks(src, w, off),
         NEW j \in 0..Len(src), NEW k \in j..Len(src)
  PROVE  /\ SubSeq(src, 1, j) \o Unescape(SubSeq(w, off[j] + 1, off[k]), 0) = SubSeq(src, 1, k)
         /\ Len(SubSeq(src, 1, k)) = k
<1>1. Len(src) \in Nat
  BY BytesOf
<1>2. PICK beyond : beyond = 0
  OBVIOUS
<1>3. Unescape(SubSeq(w, off[j] + 1, off[k]), beyond) = SubSeq(src, j + 1, k)
  <2>1. PiecesUnescape(src, w, off, beyond)
    BY UnescapePiece
  <2> QED BY <2>1 DEF PiecesUnescape
<1>4. PICK z \in Nat : z = 0
  OBVIOUS
<1>5. z \in 0..j /\ z <= k /\ k \in Nat /\ k <= Len(src) /\ j \in 0..Len(src) /\ k \in j..Len(src)
  BY <1>1, <1>4
<1>6. SubSeq(src, z + 1, j) \o SubSeq(src, j + 1, k) = SubSeq(src, z + 1, k)
  BY <1>5, Glue
<1>7. IsPiece(SubSeq(src, z + 1, k), src, z, k)
  BY <1>4, <1>5, PieceIs
<1>8. z + 1 = 1 /\ k - z = k
  BY <1>4, <1>5
<1> QED BY <1>2, <1>3, <1>6, <1>7, <1>8 DEF IsPiece

\* In the first state nothing has come.
LEMMA InitStands ==
  ASSUME FrameStreamAssumption, Init
  PROVE  IInv
<1>1. Sent
  BY InitSent
<1> DEFINE w == Escape(frame)
<1>2. PICK off : Marks(frame, w, off)
  BY <1>1, EscapeMarks DEF Sent
<1> HIDE DEF w
<1>3. Len(w) \in Nat /\ Len(w) > 0
  BY <1>1, <1>2, MarksLast DEF Sent
<1>4. w \in Seq(Byte) /\ off[0] = 0 /\ Len(frame) \in Nat
  BY <1>1, <1>2, BytesOf DEF Sent, Marks
<1>5. SubSeq(w, 1, Len(w)) = w /\ SubSeq(w, 1, 0) = <<>> /\ SubSeq(frame, 1, 0) = <<>>
  BY <1>4, SubSeqFull, SubSeqEmpty
<1>6. wire = w /\ s_buffer = <<>> /\ data_buffer = <<>> /\ result = "none"
  BY DEF Init, w
<1>7. PICK z : z = 0
  OBVIOUS
<1>8. z + 1 = 1 /\ off[z] + 1 = 1 /\ z \in 0..Len(frame) /\ z \in 0..Len(w) /\ off[z] <= z /\ z < Len(w)
  BY <1>3, <1>4, <1>7
<1>9. Stands(w, off, z, z)
  BY <1>2, <1>5, <1>6, <1>7, <1>8 DEF Stands
<1> QED BY <1>1, <1>9 DEF IInv

\* A packet takes the loop from one stand to another.
LEMMA ReceiveStands ==
  ASSUME Sent, NEW w, NEW off, NEW p, NEW j, Stands(w, off, p, j),
         NEW n \in 0..Len(wire), Receive(n)
  PROVE  \E k : Stands(w, off, p + n, k)'
<1> DEFINE a == off[j]
           q == p + n
<1>1. /\ frame \in Seq(Byte) /\ frame # <<>> /\ frame[Len(frame)] # \h7d
      /\ Marks(frame, w, off) /\ w \in Seq(Byte) /\ j \in 0..Len(frame) /\ p \in 0..Len(w)
      /\ a <= p /\ wire = SubSeq(w, p + 1, Len(w)) /\ s_buffer = SubSeq(w, a + 1, p)
      /\ data_buffer = SubSeq(frame, 1, j)
  BY DEF Sent, Stands, Marks
<1>2. /\ result = "none" /\ p < Len(w)
      /\ wire' = SubSeq(wire, n + 1, Len(wire))
      /\ frame' = frame /\ type' = type
  BY DEF Receive, Stands
<1>3. Len(wire) = Len(w) - p /\ Len(w) \in Nat
  BY <1>1, RestLength
<1>4. n \in 0..(Len(w) - p) /\ n \in Nat /\ q \in 0..Len(w) /\ p <= q
  BY <1>1, <1>3
<1>5. a \in 0..p /\ a <= q
  <2>1. a \in 0..Len(w)
    BY <1>1, MarksOrder
  <2> HIDE DEF a, q
  <2> QED BY <1>1, <1>3, <1>4, <2>1
<1> DEFINE chunk == SubSeq(w, a + 1, q)
<1>6. /\ s_buffer \o SubSeq(wire, 1, n) = chunk
      /\ wire' = SubSeq(w, q + 1, Len(w))
  <2> HIDE DEF a
  <2>1. /\ SubSeq(w, a + 1, p) \o SubSeq(wire, 1, n) = SubSeq(w, a + 1, p + n)
        /\ SubSeq(wire, n + 1, Len(wire)) = SubSeq(w, (p + n) + 1, Len(w))
    BY <1>1, <1>4, <1>5, PacketTaken, ZenonT(40)
  <2> QED BY <1>1, <1>2, <2>1
<1>7. EndsByte(frame, w, off, j, q, chunk)
  <2> HIDE DEF q
  <2> QED BY <1>1, <1>4, <1>5, ChunkEnds
<1>8. PICK junk \in BOOLEAN :
        IF Continues(chunk, junk)
        THEN s_buffer' = chunk /\ UNCHANGED <<data_buffer, result>>
        ELSE /\ s_buffer' = <<>>
             /\ data_buffer' = data_buffer \o Unescape(chunk, 0)
             /\ result' = IF Len(data_buffer') = Len(frame) THEN Verdict(data_buffer') ELSE "none"
  <2> HIDE DEF chunk
  <2> QED BY <1>6 DEF Receive
<1> HIDE DEF chunk
<1>9. CASE Continues(chunk, junk)
  <2>1. q < Len(w)
    <3>1. CASE chunk = <<>>
      <4>1. IsPiece(chunk, w, a, q)
        <5>1. a \in Nat /\ q \in Nat /\ q <= Len(w)
          BY <1>3, <1>4, <1>5
        <5> HIDE DEF a, q
        <5> QED BY <1>1, <1>5, <5>1, PieceIs DEF chunk
      <4>2. q - a = 0
        BY <3>1, <4>1, EmptySeq DEF IsPiece
      <4> HIDE DEF a, q
      <4>3. q = p
        BY <1>1, <1>3, <1>4, <1>5, <4>2
      <4> QED BY <1>2, <4>3
    <3>2. CASE chunk # <<>>
      <4>1. Last(chunk) = \h7d
        BY <1>9, <3>2 DEF Continues
      <4>2. q # Len(w)
        BY <1>7, <3>2, <4>1 DEF EndsByte
      <4> HIDE DEF q
      <4> QED BY <1>3, <1>4, <4>2
    <3> QED BY <3>1, <3>2
  <2>2. s_buffer' = chunk /\ data_buffer' = data_buffer /\ result' = "none"
    BY <1>2, <1>8, <1>9
  <2> HIDE DEF q
  <2>3. a <= q
    BY <1>5
  <2>4. Stands(w, off, q, j)'
    BY <1>1, <1>2, <1>4, <1>6, <2>1, <2>2, <2>3 DEF Stands, chunk
  <2> QED BY <2>4 DEF q
<1>10. CASE ~Continues(chunk, junk)
  <2>1. PICK k \in j..Len(frame) : off[k] = q /\ (k = Len(frame) <=> q = Len(w))
    <3>1. ~(chunk # <<>> /\ Last(chunk) = \h7d)
      BY <1>10 DEF Continues
    <3> QED BY <1>7, <3>1 DEF EndsByte
  <2>2. /\ data_buffer \o Unescape(chunk, 0) = SubSeq(frame, 1, k)
        /\ Len(SubSeq(frame, 1, k)) = k
    <3>1. /\ SubSeq(frame, 1, j) \o Unescape(SubSeq(w, off[j] + 1, off[k]), 0) = SubSeq(frame, 1, k)
          /\ Len(SubSeq(frame, 1, k)) = k
      BY <1>1, <2>1, GrowsBy
    <3>2. chunk = SubSeq(w, off[j] + 1, off[k])
      BY <2>1 DEF chunk
    <3> QED BY <1>1, <3>1, <3>2
  <2>3. /\ s_buffer' = <<>> /\ data_buffer' = SubSeq(frame, 1, k)
        /\ result' = IF k = Len(frame) THEN Verdict(SubSeq(frame, 1, k)) ELSE "none"
    BY <1>8, <1>10, <2>2
  <2>4. k = Len(frame) => SubSeq(frame, 1, k) = frame /\ Verdict(frame) = "ok"
    BY <1>1, SubSeqFull DEF Sent, Verdict
  <2>5. /\ k \in 0..Len(frame) /\ off[k] <= q
        /\ SubSeq(w, off[k] + 1, q) = <<>>
        /\ k # Len(frame) => q < Len(w)
    <3> HIDE DEF q
    <3>1. Len(frame) \in Nat
      BY <1>1, BytesOf
    <3>2. q < q + 1 /\ q \in Int /\ q + 1 \in Int /\ q <= q
      BY <1>4
    <3>3. SubSeq(w, q + 1, q) = <<>>
      BY <3>2, SubSeqEmpty
    <3> QED BY <1>1, <1>3, <1>4, <2>1, <3>1, <3>2, <3>3
  <2>6. /\ result' = "none" => k # Len(frame)
        /\ result' # "none" => k = Len(frame) /\ result' = "ok" /\ data_buffer' = frame
    BY <2>3, <2>4
  <2> HIDE DEF q
  <2>7. Stands(w, off, q, k)'
    BY <1>1, <1>2, <1>4, <1>6, <2>3, <2>5, <2>6 DEF Stands
  <2> QED BY <2>7 DEF q
<1> QED BY <1>9, <1>10

\* Every step keeps the invariant.
LEMMA StepStands ==
  ASSUME IInv, [Next]_vars
  PROVE  IInv'
<1>1. Sent'
  BY DEF IInv, Sent, Next, Receive, Timeout, Fault, vars
<1>2. CASE \E n \in 0..Len(wire) : Receive(n)
  <2>1. PICK n \in 0..Len(wire) : Receive(n)
    BY <1>2
  <2>2. ASSUME ~faulty' PROVE \E w, off, p, j : Stands(w, off, p, j)'
    <3>1. PICK w, off, p, j : Stands(w, off, p, j)
      BY <2>1, <2>2 DEF Receive, IInv
    <3>2. \E k : Stands(w, off, p + n, k)'
      BY <2>1, <3>1, ReceiveStands DEF IInv
    <3> QED BY <3>2
  <2> QED BY <1>1, <2>2 DEF IInv
<1>3. CASE Timeout
  <2>1. ASSUME ~faulty' PROVE FALSE
    <3>1. PICK w, off, p, j : Stands(w, off, p, j)
      BY <1>3, <2>1 DEF Timeout, IInv
    <3>2. /\ w \in Seq(Byte) /\ p \in 0..Len(w) /\ p < Len(w)
          /\ SubSeq(w, p + 1, Len(w)) = <<>>
      BY <1>3, <3>1 DEF Stands, Marks, Timeout
    <3>3. Len(w) \in Nat /\ Len(w) - p = 0
      BY <3>2, RestLength, EmptySeq
    <3> QED BY <3>2, <3>3
  <2> QED BY <1>1, <2>1 DEF IInv
<1>4. CASE Fault
  BY <1>1, <1>4 DEF Fault, IInv
<1>5. CASE UNCHANGED vars
  <2>1. ASSUME NEW w, NEW off, NEW p, NEW j, Stands(w, off, p, j)
        PROVE  Stands(w, off, p, j)'
    BY <1>5, <2>1 DEF vars, Stands
  <2>2. ~faulty' => ~faulty
    BY <1>5 DEF vars
  <2> QED BY <1>1, <2>1, <2>2 DEF IInv
<1> QED BY <1>2, <1>3, <1>4, <1>5 DEF Next

\* The invariant says more than the property.
LEMMA StandsReassembly ==
  ASSUME IInv
  PROVE  Reassembly
<1> SUFFICES ASSUME ~faulty PROVE IsPrefix(data_buffer, frame) /\
                                  (result # "none" => result = "ok" /\ data_buffer = frame)
  BY DEF Reassembly
<1>1. PICK w, off, p, j : Stands(w, off, p, j)
  BY DEF IInv
<1>2. /\ frame \in Seq(Byte) /\ Marks(frame, w, off) /\ j \in 0..Len(frame)
      /\ data_buffer = SubSeq(frame, 1, j)
      /\ result # "none" => result = "ok" /\ data_buffer = frame
  BY <1>1 DEF IInv, Sent, Stands
<1>3. Len(frame) \in Nat /\ j \in j..Len(frame) /\ j <= Len(frame)
  BY <1>2, BytesOf
<1>4. Len(data_buffer) = j
  BY <1>2, <1>3, GrowsBy
<1>5. data_buffer \in Seq(Byte)
  <2>1. PICK z \in Nat : z = 0
    OBVIOUS
  <2>2. j \in Nat /\ z <= j /\ z + 1 = 1
    BY <1>2, <2>1
  <2>3. IsPiece(SubSeq(frame, z + 1, j), frame, z, j)
    BY <1>2, <1>3, <2>2, PieceIs
  <2> QED BY <1>2, <2>2, <2>3 DEF IsPiece
<1>6. SubSeq(data_buffer, 1, Len(data_buffer)) = data_buffer
  BY <1>5, SubSeqFull
<1> QED BY <1>2, <1>3, <1>4, <1>6 DEF IsPrefix

\* Whatever the reply carries and however it is cut into packets (the receive loops of
\* sprd_upload, USB_disk_read and blockdev_bread), no byte of an undamaged reply is lost,
\* doubled or changed, and the loop ends with the frame and its verdict.
THEOREM ReassemblyHolds == Spec => []Reassembly
<1>1. Init => IInv
  BY InitStands, FrameStreamAssumption
<1>2. IInv /\ [Next]_vars => IInv'
  BY StepStands
<1>3. IInv => Reassembly
  BY StandsReassembly
<1> QED BY <1>1, <1>2, <1>3, PTL DEF Spec

=============================================================================
