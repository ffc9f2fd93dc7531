------------------------------ MODULE MCPureArena ------------------------------
(***************************************************************************)
(* Small instances of PureArena: 5-bit integers, a slab of a few bytes.    *)
(***************************************************************************)
EXTENDS PureArena, TLC

\* Requests are interchangeable, and so are arenas.
Symmetry == Permutations(Requests) \cup Permutations(Arenas)

MCSizes == {-1, 0, 1, 2, 15}
===============================================================================
