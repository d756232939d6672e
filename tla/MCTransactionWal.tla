------------------------- MODULE MCTransactionWal -------------------------
(* TransactionWal on transactions that share the key b: an upsert of three *)
(* records, one of them without an `_id`, and a delete.                    *)
EXTENDS TransactionWal, TLC

CONSTANTS t1, t2, a, b

MCTx == {t1, t2}
MCKeys == {a, b}
MCWrites == (t1 :> <<a, b, Generated>>) @@ (t2 :> <<b>>)
MCDeletes == {t2}
===========================================================================
