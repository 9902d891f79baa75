---------------------------- MODULE MCAdminConsole ---------------------------
(* AdminConsole on small instances: two administrators and a technician     *)
(* with overlapping appointments; a record of each kind and pictures for    *)
(* it; an order's page in two browsers; two technicians to choose from.     *)
EXTENDS AdminConsole, TLC

CONSTANTS ann, ben, tim, m1, m2, p1, p2, kim, lou

RolesOfTwo == (ann :> "admin") @@ (ben :> "admin") @@ (tim :> "technician")

\* Access taken away and access given.
Deactivation == [role |-> "technician", active |-> FALSE]
Promotion == [role |-> "admin", active |-> TRUE]

BothWays == {Deactivation, Promotion}

\* A long appointment and one inside it.
Appointments == {<<0, 3>>, <<1, 2>>}

\* A product's form and gallery lose no answer, the other records' one.
Mishaps == [k \in Kinds |-> IF k = "product" THEN 0 ELSE 1]

\* Handlers, requests and pictures are interchangeable.
Symmetry == Permutations(Transactions) \union Permutations(Jobs)
              \union Permutations(Media)
=============================================================================
