------------------------------- MODULE MCSecure -------------------------------
(***************************************************************************)
(* Small instances of Secure: every combination of options, and a buffer   *)
(* of a few bytes.                                                         *)
(***************************************************************************)
EXTENDS Secure, TLC

\* Goroutines are interchangeable.
Symmetry == Permutations(Threads)
===============================================================================
