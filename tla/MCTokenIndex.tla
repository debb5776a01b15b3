---------------------------- MODULE MCTokenIndex ----------------------------
(***************************************************************************)
(* Instances of TokenIndex for TLC.                                        *)
(***************************************************************************)
EXTENDS TokenIndex

CONSTANTS t1, t2, t3

TwoTxs == {t1, t2}
ThreeTxs == {t1, t2, t3}

\* The first transaction logs both events, every other one a transfer.
BothThenTransfer ==
    [t \in Txs |-> IF t = t1 THEN {"Transfer", "Approval"} ELSE {"Transfer"}]

=============================================================================
