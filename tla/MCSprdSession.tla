---------------------------- MODULE MCSprdSession ----------------------------
(* Small instances of SprdSession: one or two partitions of two or three units, frames
   of one or two, a file of as many units as a partition. *)
EXTENDS SprdSession

Size(n) == [t \in Memories |-> n]
Capacity3 == Size(3)
Capacity2 == Size(2)
FileLen3 == [f \in Files |-> 3]
FileLen2 == [f \in Files |-> 2]

Line(op, p, n) == [op |-> op, part |-> p, src |-> CHOOSE f \in Files : TRUE, size |-> n]

\* Commands given to FDL2: transfers, the file systems of the camera and of ext4fs, and leaving
\* download mode.
CommandMenu ==
  {Line(op, p, 3) : op \in {"read", "write"}, p \in Partitions} \cup
  {Line(op, p, 2) : op \in {"camera", "ext4fs", "reset", "shutdown"}, p \in Partitions}

\* The demo, and single commands given to the boot ROM.
DemoMenu == {Line(op, p, 1) : op \in {"demo", "ready", "reset"}, p \in Partitions}

\* One window is read or a file of two written.
StaleMenu == {Line(op, p, 1) : op \in {"read", "write"}, p \in Partitions}

=============================================================================
