---------------------------- MODULE ReadSizeProofs ----------------------------
(***************************************************************************)
(* For every width of a word, every window and every argument: a size that *)
(* fits in a word is read to the byte, window after window without a gap.  *)
(***************************************************************************)
EXTENDS ReadSize, TLAPS

\* A value that fits in a word is not changed by the reduction to a word.
LEMMA NoWrap ==
  ASSUME NEW w \in Nat \ {0}, NEW x \in 0..(w - 1)
  PROVE  x % w = x
BY Z3

\* The reduction to a word always fits in it.
LEMMA Wraps ==
  ASSUME NEW w \in Nat \ {0}, NEW x \in Nat
  PROVE  x % w \in 0..(w - 1)
BY Z3

\* The suffix stands for a natural number of bytes.
LEMMA UnitNat ==
  ASSUME NEW s \in Suffixes
  PROVE  Unit(s) \in Nat
BY ReadSizeAssumption DEF Unit, Suffixes

\* The argument counts a natural number of bytes.
LEMMA ProductNat ==
  ASSUME NEW a \in Nat, NEW b \in Nat
  PROVE  a * b \in Nat
OBVIOUS

\* The window is not empty and no larger than what is left (s_size).
LEMMA WindowFits ==
  ASSUME NEW n \in 0..(Word - 1), n # 0
  PROVE  s_size(n) \in 1..n
BY ReadSizeAssumption DEF s_size

\* Every step of main and of sprd_upload keeps the account of what was saved.
LEMMA SizeStep ==
  ASSUME SizeInv, [Next]_vars
  PROVE  SizeInv'
<1> USE ReadSizeAssumption
<1>a. /\ number \in Nat /\ number \in Numbers /\ suffix \in Suffixes
      /\ i_size(number, suffix) \in 0..(Word - 1)
  <2>1. number \in Nat /\ suffix \in Suffixes /\ number \in Numbers
    BY DEF SizeInv
  <2>2. number * Unit(suffix) \in Nat
    BY <2>1, UnitNat, ProductNat
  <2> QED BY <2>1, <2>2, Wraps DEF i_size
<1>1. CASE Parse
  <2>1. /\ up_size' = i_size(number, suffix) /\ up_size' \in 0..(Word - 1)
        /\ pc = "parse" /\ pc' = "middle"
        /\ number' = number /\ suffix' = suffix /\ offset' = offset /\ saved' = saved
    BY <1>1, <1>a DEF Parse
  <2>2. saved = 0 /\ offset = 0
    BY <2>1 DEF SizeInv, Contiguous
  <2>3. i_size(number, suffix)' = i_size(number, suffix)
    BY <2>1 DEF i_size, Unit
  <2> QED BY <1>a, <2>1, <2>2, <2>3 DEF SizeInv, Contiguous
<1>2. CASE Middle
  <2> DEFINE s == s_size(up_size)
  <2>1. /\ up_size \in 0..(Word - 1) /\ up_size # 0 /\ saved \in Nat
        /\ offset = saved /\ saved + up_size < Word
        /\ pc = "middle" /\ saved + up_size = i_size(number, suffix)
    BY <1>2 DEF Middle, SizeInv, Contiguous
  <2>2. s \in 1..up_size
    BY <2>1, WindowFits
  <2>3. /\ saved' = saved + s /\ offset' = (offset + s) % Word
        /\ up_size' = (up_size - s) % Word
        /\ number' = number /\ suffix' = suffix /\ pc' = pc
    BY <1>2 DEF Middle
  <2> HIDE DEF s
  <2>4. offset + s \in 0..(Word - 1) /\ up_size - s \in 0..(Word - 1)
    BY <2>1, <2>2
  <2>5. offset' = offset + s /\ up_size' = up_size - s
    BY <2>3, <2>4, NoWrap
  <2>6. i_size(number, suffix)' = i_size(number, suffix)
    BY <2>3 DEF i_size, Unit
  <2> QED BY <1>a, <2>1, <2>2, <2>3, <2>4, <2>5, <2>6 DEF SizeInv, Contiguous
<1>3. CASE End
  <2>1. /\ pc' = "done" /\ pc = "middle" /\ up_size = 0
        /\ UNCHANGED <<number, suffix, up_size, offset, saved>>
    BY <1>3 DEF End
  <2>2. i_size(number, suffix)' = i_size(number, suffix)
    BY <2>1 DEF i_size, Unit
  <2> QED BY <2>1, <2>2 DEF SizeInv, Contiguous
<1>4. CASE UNCHANGED vars
  <2>1. i_size(number, suffix)' = i_size(number, suffix)
    BY <1>4 DEF vars, i_size, Unit
  <2> QED BY <1>4, <2>1 DEF vars, SizeInv, Contiguous
<1> QED BY <1>1, <1>2, <1>3, <1>4 DEF Next

\* SizeInv holds in every state of every behaviour.
LEMMA SizeAlways == Spec => []SizeInv
<1>1. Init => SizeInv
  BY ReadSizeAssumption DEF Init, SizeInv, Contiguous
<1> QED BY <1>1, SizeStep, PTL DEF Spec

\* sprd_upload: the windows are contiguous and the 32-bit offset never wraps,
\* whatever the size and the window.
THEOREM ContiguousAlways == Spec => []Contiguous
<1>1. SizeInv => Contiguous
  BY DEF SizeInv
<1> QED BY <1>1, SizeAlways, PTL

\* main and sprd_upload: when "read" is done, a size that fits in 32 bits has been
\* read to the byte.
THEOREM SizeCorrect == Spec => []FittingSizeIsRead
<1>1. SizeInv => FittingSizeIsRead
  <2> SUFFICES ASSUME SizeInv, pc = "done", Asked < Word PROVE saved = Asked
    BY DEF FittingSizeIsRead
  <2>1. number \in Nat /\ suffix \in Suffixes /\ saved \in Nat
        /\ up_size = 0 /\ saved + up_size = i_size(number, suffix)
    BY ReadSizeAssumption DEF SizeInv
  <2>2. number * Unit(suffix) \in Nat
    BY <2>1, UnitNat, ProductNat
  <2>3. Asked \in 0..(Word - 1)
    BY <2>2, ReadSizeAssumption DEF Asked
  <2>4. i_size(number, suffix) = Asked
    BY <2>3, NoWrap, ReadSizeAssumption DEF i_size, Asked
  <2>5. Asked \in Int
    BY <2>3
  <2> QED BY <2>1, <2>4, <2>5
<1> QED BY <1>1, SizeAlways, PTL

=============================================================================
