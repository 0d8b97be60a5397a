---------------------------- MODULE MCWaybillGib ----------------------------
(* One or two waybills, overlapping cron runs and concurrent requests.     *)
EXTENDS WaybillGib, TLC
CONSTANTS w1, p1, p2, c1, c2

Interchangeable == Permutations(Runs) \cup Permutations(Clients)
=============================================================================
