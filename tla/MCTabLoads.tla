------------------------------- MODULE MCTabLoads -------------------------------
(* Instances of TabLoads for TLC. *)
EXTENDS TabLoads, TLC

Symmetry == Permutations(Conns) \cup Permutations(Tables)
===============================================================================
