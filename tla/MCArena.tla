-------------------------------- MODULE MCArena --------------------------------
(***************************************************************************)
(* Small instances of Arena.                                               *)
(***************************************************************************)
EXTENDS Arena, TLC

\* Goroutines are interchangeable, and so are addresses.
Symmetry == Permutations(Threads) \cup Permutations(Addrs)
===============================================================================
