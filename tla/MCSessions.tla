----------------------------- MODULE MCSessions -----------------------------
(* Model checking Sessions: requests are interchangeable.                   *)
EXTENDS Sessions, TLC

Symmetry == Permutations(Requests)
=============================================================================
