-------------------------- MODULE MCEmployeeAccounts --------------------------
(***************************************************************************)
(* Instances of EmployeeAccounts for TLC.                                  *)
(***************************************************************************)
EXTENDS EmployeeAccounts, TLC

Symmetry == Permutations(People) \cup Permutations(Browsers)
=============================================================================
