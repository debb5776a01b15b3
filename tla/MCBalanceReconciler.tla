------------------------ MODULE MCBalanceReconciler ------------------------
(***************************************************************************)
(* Values for TLC: a transfer that mints a unit to the payroll contract.   *)
(***************************************************************************)
EXTENDS BalanceReconciler

CONSTANTS zero, payroll

FromZero == [t \in Transfers |-> zero]
ToPayroll == [t \in Transfers |-> payroll]

=============================================================================
