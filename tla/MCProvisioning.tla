-------------------------- MODULE MCProvisioning --------------------------
(* Two firms that ask for the same name, two provision calls at a time and *)
(* one call of the members service.                                        *)
EXTENDS Provisioning, TLC
CONSTANTS t1, t2, s1, s2, r1, e1, e2

Interchangeable == Permutations(Tenants) \cup Permutations(Sagas) \cup Permutations(Emails)
=============================================================================
