------------------------------- MODULE ReadSize -------------------------------
(***************************************************************************)
(* The size argument of "read" and the window arithmetic of sprd_upload,   *)
(* in the 32-bit words that main and sprd_upload keep it in (src/main.c).  *)
(* SprdHost counts in unbounded integers; here the width matters.          *)
(***************************************************************************)
EXTENDS Integers

CONSTANTS
  Word,      \* values of a uint32_t, 2^32
  Kilo,      \* 1024
  win_size,  \* 0x3000
  Numbers    \* what atoi may return

ASSUME ReadSizeAssumption ==
  /\ Word \in Nat \ {0}
  /\ Kilo \in Nat \ {0}
  /\ win_size \in 1..(Word - 1)
  /\ Numbers \subseteq 0..(Word - 1)

Suffixes == {"m", "k", "none"}

VARIABLES
  number, suffix,  \* the argument
  pc,
  up_size,         \* bytes still to be read
  offset,          \* of the next READ_FLASH_MIDST
  saved            \* bytes written to the local file

vars == <<number, suffix, pc, up_size, offset, saved>>

\* Bytes that the suffix stands for.
Unit(s) == CASE s = "m" -> Kilo * Kilo [] s = "k" -> Kilo [] OTHER -> 1

\* What the user asked for.
Asked == number * Unit(suffix)

Init ==
  /\ number \in Numbers /\ suffix \in Suffixes
  /\ pc = "parse"
  /\ up_size = 0 /\ offset = 0 /\ saved = 0

\* Mutant: 'm' falls through to 'k'.
i_size_fall(n, s) == (n * (IF s = "m" THEN Kilo * Kilo * Kilo ELSE Unit(s))) % Word

\* i_size after the switch on the last character.
i_size(n, s) == (n * Unit(s)) % Word

Parse ==
  /\ pc = "parse"
  /\ up_size' = i_size(number, suffix)
  /\ pc' = "middle"
  /\ UNCHANGED <<number, suffix, offset, saved>>

\* Mutant: a full window every time.
s_size_full(n) == win_size

\* Mutant: nothing but whole windows.
s_size_whole(n) == IF n >= win_size THEN win_size ELSE 0

s_size(n) == IF n > win_size THEN win_size ELSE n

\* One turn of while(up_size): a window is read, checked and written.
Middle ==
  /\ pc = "middle" /\ up_size # 0
  /\ saved' = saved + s_size(up_size)
  /\ offset' = (offset + s_size(up_size)) % Word
  /\ up_size' = (up_size - s_size(up_size)) % Word
  /\ UNCHANGED <<number, suffix, pc>>

\* The transfer is closed and success reported.
End ==
  /\ pc = "middle" /\ up_size = 0
  /\ pc' = "done"
  /\ UNCHANGED <<number, suffix, up_size, offset, saved>>

Next == Parse \/ Middle \/ End

Spec == Init /\ [][Next]_vars /\ WF_vars(Next)

-----------------------------------------------------------------------------

\* Every window is asked for at the place where it goes in the file: offset and
\* up_size never wrap, also when the last window ends at the highest offset.
Contiguous == offset = saved /\ saved + up_size < Word

\* A size that fits in 32 bits is read to the byte.
FittingSizeIsRead == pc = "done" /\ Asked < Word => saved = Asked

\* The loop ends: up_size reaches 0 and is not stepped over.
LoopEnds == <>(pc = "done")

\* What makes FittingSizeIsRead inductive.
SizeInv ==
  /\ number \in Numbers /\ suffix \in Suffixes
  /\ pc \in {"parse", "middle", "done"}
  /\ up_size \in 0..(Word - 1) /\ saved \in Nat
  /\ Contiguous
  /\ pc = "parse" => up_size = 0 /\ saved = 0
  /\ pc = "done" => up_size = 0
  /\ pc # "parse" => saved + up_size = i_size(number, suffix)

=============================================================================
