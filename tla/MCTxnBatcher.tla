--------------------------- MODULE MCTxnBatcher ---------------------------
(* TxnBatcher on small limits: three operations fit a batch, or four units *)
(* of length, and the operation "big" fits no transaction at all.          *)
EXTENDS TxnBatcher

MCOp == {"small", "medium", "big"}

MCSize == [op \in MCOp |-> CASE op = "small"  -> 1
                             [] op = "medium" -> 2
                             [] op = "big"    -> 5]
=============================================================================
