----------------------------- MODULE MCAllocPool ------------------------------
(***************************************************************************)
(* Small instances of AllocPool.                                           *)
(***************************************************************************)
EXTENDS AllocPool, TLC

\* Requests are interchangeable.
Symmetry == Permutations(Requests)
===============================================================================
