---------------------------- MODULE MCWebSession ----------------------------
(* WebSession on small instances: two tabs of one browser, a request and an *)
(* upload in the first.                                                     *)
EXTENDS WebSession, TLC

CONSTANTS t1, t2, c1, c2

FirstTab == [c \in Calls |-> t1]
OneOfEach == [c \in Calls |-> IF c = c1 THEN "request" ELSE "upload"]
Symmetry == Permutations(Users)
=============================================================================
