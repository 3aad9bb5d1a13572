------------------------- MODULE MCTransactionReplay -------------------------
(* TransactionReplay for TLC: keys alternate between two partitions. *)
EXTENDS TransactionReplay

MCPartitionOf(t) == IF t = 2 THEN "raw1" ELSE "raw0"
=============================================================================
