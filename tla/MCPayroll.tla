----------------------------- MODULE MCPayroll -----------------------------
(* Two employees, two advances, two periods and two requests.  Where the    *)
(* properties ask for an orderly use, what follows a disorder is not        *)
(* explored.                                                                *)
EXTENDS Payroll, TLC
CONSTANTS e1, e2, a1, a2, r1, r2

InOrder == orderly /\ contested = {}

Interchangeable ==
    Permutations(Employees) \cup Permutations(Advances) \cup Permutations(Requests)
=============================================================================
