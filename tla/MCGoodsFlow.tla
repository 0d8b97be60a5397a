----------------------------- MODULE MCGoodsFlow -----------------------------
(* One order with two lines, two clients, and a product that was not ordered. *)
EXTENDS GoodsFlow, TLC
CONSTANTS o1, c1, c2, p1, p2, p3

\* Nothing, a whole line, parts of both lines, and a line with what was not ordered.
SomeItems == {(p1 :> 0 @@ p2 :> 0 @@ p3 :> 0), (p1 :> 2 @@ p2 :> 0 @@ p3 :> 0),
              (p1 :> 1 @@ p2 :> 2 @@ p3 :> 0), (p1 :> 0 @@ p2 :> 2 @@ p3 :> 1)}
Interchangeable == Permutations(Clients)
=============================================================================
