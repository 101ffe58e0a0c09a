------------------------------- MODULE Leftovers -------------------------------
(* What is left of a sequence, in its order, when some values are left out of it *)
(* (Vec::retain, Iterator::filter).                                              *)
EXTENDS Integers, Sequences

LeftOf(s, out) ==
    LET kept[k \in 0..Len(s)] ==
          IF k = 0 THEN <<>>
          ELSE IF s[k] \in out THEN kept[k - 1] ELSE Append(kept[k - 1], s[k])
    IN  kept[Len(s)]
================================================================================
