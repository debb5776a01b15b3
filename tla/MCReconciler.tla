---------------------------- MODULE MCReconciler ----------------------------
(***************************************************************************)
(* Values for TLC.  The groups of compared columns are treated alike, so   *)
(* one beside the block number already gives a pass two mismatches of one  *)
(* log.                                                                    *)
(***************************************************************************)
EXTENDS Reconciler

Columns == {"amount_mismatch"}

=============================================================================
