------------------------------- MODULE Totals -------------------------------
(* The sum of a list of numbers, as the services reduce their lists.        *)
EXTENDS Integers, Sequences

Total(v) ==
    LET sum[n \in 0 .. Len(v)] == IF n = 0 THEN 0 ELSE sum[n - 1] + v[n]
    IN  sum[Len(v)]
=============================================================================
