------------------------------ MODULE MCJournal ------------------------------
(* Instances of Journal *)
EXTENDS Journal

\* Transactions that are aborted, transactions that give up blocks, and a session that ends.
AbortFreeOrStop == {{"abort"}, {"free"}, {"stop"}}

\* Sessions that begin after one that ended with jbd_journal_stop.
StopAndRestart == {{"stop", "restart"}}
=============================================================================
