------------------------------- MODULE Timeline -------------------------------
(* What undo and redo promise: the texts of a field lie on a line, the user    *)
(* stands at one of them, writing goes on from there and forgets what was       *)
(* ahead, and going back and forth changes nothing.  Only so much is kept.      *)
EXTENDS Integers, Sequences

CONSTANTS Texts, Limit

VARIABLES line, at

vars == <<line, at>>

Init == Len(line) = 1 /\ line[1] \in Texts /\ at = 1

\* At most Limit texts are kept behind the new one.
Write(t) ==
    LET kept == IF at < Limit THEN at ELSE Limit
    IN  /\ line' = Append(SubSeq(line, at - kept + 1, at), t)
        /\ at' = kept + 1

Back == at > 1 /\ at' = at - 1 /\ line' = line

Forth == at < Len(line) /\ at' = at + 1 /\ line' = line

\* Another text altogether, which the user did not write.
StartOver(t) == line' = <<t>> /\ at' = 1

\* The text the user is left at is the one written, or started over with.
Next ==
    \/ Back \/ Forth
    \/ line'[at'] \in Texts /\ (Write(line'[at']) \/ StartOver(line'[at']))

Spec == Init /\ [][Next]_vars
===============================================================================
