------------------------ MODULE MCTransactionConsumer ------------------------
(* TransactionConsumer for TLC: all records parse, or the last one of p1 does *)
(* not.                                                                       *)
EXTENDS TransactionConsumer

MCPoisons == {{}, {<<"p1", Len - 1>>}}
=============================================================================
