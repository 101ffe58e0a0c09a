------------------------------ MODULE MCStagedWork ------------------------------
(* Instances of StagedWork for TLC. *)
EXTENDS StagedWork, TLC

CONSTANTS c1, c2, t1, t2

\* One connection on its own, or two, with both tables.
Alone == c1 :> {t1, t2}
Both  == c1 :> {t1, t2} @@ c2 :> {t1, t2}

\* Bound: two tabs where one connection was ever opened, one to a connection where
\* both were.
Narrow ==
  \/ \E c \in Conns : \A d \in Conns \ {c} : d \notin open /\ list[d] = 0 /\ tabs[d].next = 0
  \/ \A c \in Conns : tabs[c].next <= 1

NarrowSpec == Init /\ [][Next /\ Narrow']_vars

\* Nothing tells connections or tables apart that the instances give alike.
Alike == Permutations({c1, c2}) \cup Permutations({t1, t2})
===============================================================================
