-------------------------- MODULE MCTransactionCQRS -------------------------
(* TransactionCQRS on small instances. *)
EXTENDS TransactionCQRS, TLC

CONSTANTS r1, r2, r3, tx1, tx2

=============================================================================
