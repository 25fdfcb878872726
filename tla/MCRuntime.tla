------------------------------ MODULE MCRuntime ------------------------------
(* Runtime on small instances.  Ids are random strings, so their order is
   fixed for the instance and creations happen in either order. *)
EXTENDS Runtime, TLC

CONSTANTS p1, p2

Rank == p1 :> 1 @@ p2 :> 2
IdOrder(p, q) == Rank[p] < Rank[q]
=============================================================================
