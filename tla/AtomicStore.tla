----------------------------- MODULE AtomicStore -----------------------------
(***************************************************************************)
(* What a journal promises: a store of blocks that is changed by whole     *)
(* transactions. A crash loses the transaction that is open and nothing    *)
(* else. A block that is given up by a transaction is free, and what it    *)
(* holds does not matter; it may then be written without a transaction.    *)
(***************************************************************************)
CONSTANTS Blocks, Values, Free   \* Free is none of the Values

VARIABLES
  store,   \* the contents of the blocks, or Free
  txn      \* what the open transaction changes: a function on some blocks

TypeOK ==
  /\ store \in [Blocks -> Values \cup {Free}]
  /\ txn \in UNION {[S -> Values \cup {Free}] : S \in SUBSET Blocks}

Empty == [b \in {} |-> Free]

Init == store \in [Blocks -> Values] /\ txn = Empty

Change(b, v) ==
  /\ txn' = [c \in DOMAIN txn \cup {b} |-> IF c = b THEN v ELSE txn[c]]
  /\ UNCHANGED store

Commit ==
  /\ txn' = Empty
  /\ \E s \in {store} : store' = [b \in Blocks |-> IF b \in DOMAIN txn THEN txn[b] ELSE s[b]]

\* An abort, or a crash.
Drop == txn' = Empty /\ UNCHANGED store

WriteFree(b) ==
  /\ UNCHANGED txn
  /\ \E s \in {store} : s[b] = Free /\ \E v \in Values : store' = [s EXCEPT ![b] = v]

Next ==
  \/ \E b \in Blocks, v \in Values \cup {Free} : Change(b, v)
  \/ Commit
  \/ Drop
  \/ \E b \in Blocks : WriteFree(b)

Spec == Init /\ [][Next]_<<store, txn>>
=============================================================================
