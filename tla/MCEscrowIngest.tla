--------------------------- MODULE MCEscrowIngest ---------------------------
(***************************************************************************)
(* Instances of EscrowIngest for TLC.                                      *)
(***************************************************************************)
EXTENDS EscrowIngest, TLC

Symmetry == Permutations(Logs) \cup Permutations(Handlers)

=============================================================================
