------------------------------- MODULE MCHybrid -------------------------------
(***************************************************************************)
(* Small instances of Hybrid: goroutines that share a shard, and one that  *)
(* uses another shard too.                                                 *)
(***************************************************************************)
EXTENDS Hybrid, TLC

CONSTANTS t1, t2, s1, s2

Roaming == (t1 :> {s1}) @@ (t2 :> {s1, s2})
OneShard == [t \in Threads |-> {s1}]
===============================================================================
