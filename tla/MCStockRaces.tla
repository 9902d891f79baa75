---------------------------- MODULE MCStockRaces ----------------------------
(* StockRaces on small instances: two customers after the same few units.    *)
EXTENDS StockRaces, TLC

\* Customers are interchangeable.
Symmetry == Permutations(Customers)
=============================================================================
