-------------------------- MODULE MCRefreshToken --------------------------
(* One session with four tokens, and three requests that interleave.       *)
EXTENDS RefreshToken, TLC
CONSTANTS u1, s1, k1, k2, k3, k4, r1, r2, r3

Interchangeable ==
    Permutations(Sessions) \cup Permutations(Tokens) \cup Permutations(Requests)
=============================================================================
