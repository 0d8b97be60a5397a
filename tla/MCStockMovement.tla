-------------------------- MODULE MCStockMovement --------------------------
(* One product, two warehouses, two requests at a time.                    *)
EXTENDS StockMovement, TLC
CONSTANTS a, b, c1, c2

Interchangeable == Permutations(Warehouses) \cup Permutations(Clients)
=============================================================================
