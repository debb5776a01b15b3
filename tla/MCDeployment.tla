--------------------------- MODULE MCDeployment ---------------------------
(***************************************************************************)
(* Values for TLC.                                                         *)
(***************************************************************************)
EXTENDS Deployment

BothStreams == {"payroll", "token"}
LongRunning == {"indexer", "api"}

===========================================================================
