------------------------- MODULE MCSupplierOnboarding -------------------------
(***************************************************************************)
(* Chains of a supplier type and the steps of the definition, for TLC.      *)
(***************************************************************************)
EXTENDS SupplierOnboarding

CONSTANTS q1, f1, f2, r1, r2, d1, s1, s2

OneRole == <<"legal">>
TwoRoles == <<"legal", "finance">>
OneStep == <<"buyer">>
TwoSteps == <<"buyer", "finance">>

=============================================================================
