-------------------------- MODULE MCStaffAccounts --------------------------
(* One employee, an address that is free and one that is not, two requests. *)
EXTENDS StaffAccounts
CONSTANTS e1, r1, r2, a1, a2
=============================================================================
