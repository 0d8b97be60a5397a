---------------------------- MODULE MCWorkOrder ----------------------------
(* One order of two materials, two requests, and two completions.          *)
EXTENDS WorkOrder, TLC
CONSTANTS o1, b1, m1, m2, r1, r2

Interchangeable == Permutations(Materials) \cup Permutations(Requests)
=============================================================================
