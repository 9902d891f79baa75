------------------------- MODULE MCServiceWorkflow -------------------------
(* ServiceWorkflow on a small instance: two requests of one technician.     *)
EXTENDS ServiceWorkflow, TLC

\* Requests are interchangeable.
Symmetry == Permutations(Requests)
=============================================================================
