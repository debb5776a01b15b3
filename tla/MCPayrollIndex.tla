--------------------------- MODULE MCPayrollIndex ---------------------------
(***************************************************************************)
(* Instances of PayrollIndex for TLC.                                      *)
(***************************************************************************)
EXTENDS PayrollIndex

Membership == {"EmployerAdded", "EmployerRemoved", "EmployeeAdded", "EmployeeRemoved"}
AllKinds == Membership \cup {"PayrollFunded", "SalaryClaimed", "OwnershipTransferred", "none"}

=============================================================================
