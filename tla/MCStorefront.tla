---------------------------- MODULE MCStorefront ----------------------------
(* Storefront on small instances: two customers competing for one SKU, and  *)
(* one customer whose cart mixes two SKUs.                                   *)
EXTENDS Storefront, TLC

\* Customers, idempotency keys and SKUs are interchangeable.
Symmetry == Permutations(Customers) \union Permutations(Keys) \union Permutations(Skus)
=============================================================================
