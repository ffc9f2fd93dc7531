------------------------------- MODULE MCBalloc -------------------------------
(***************************************************************************)
(* Small instances of Balloc: the mapping starts at address 64, the        *)
(* metadata area has room for a few nodes and slots, the payload for a few *)
(* blocks.                                                                 *)
(***************************************************************************)
EXTENDS BallocInv, TLC

\* Goroutines are interchangeable.
Symmetry == Permutations(Threads)
===============================================================================
