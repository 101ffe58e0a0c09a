------------------------------ MODULE MCDriverRuns ------------------------------
(* Instances of DriverRuns for TLC: editor runs, loads and a few connections. *)
EXTENDS DriverRuns, TLC

\* Neither the connections nor the calls of one sort are told apart.
Symmetry == Permutations(Conns) \cup Permutations(Editors) \cup Permutations(Loads)

\* No action reads the history, so runs that ask nothing of it leave it out.
WithoutHistory == <<sess, console, idle, closed, run, batch, stop, late>>
===============================================================================
