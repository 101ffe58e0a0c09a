------------------------------ MODULE AddressBook ------------------------------
(* What the store of connections promises, with none of its mechanism: the     *)
(* user's word on connections and their secrets (`said`), and what would be    *)
(* found at the next launch (`file`, `chain`). What is kept only ever moves    *)
(* to what the user said; in particular no secret is forgotten that the user   *)
(* did not clear and whose connection the user did not remove.                 *)
EXTENDS Naturals, FiniteSets

CONSTANTS Ids, Whos, Secrets, Values, NoSecret

VARIABLES open, said, file, chain
vars == <<open, said, file, chain>>

Keys  == Ids \X Secrets
\* An id of zero is a connection written by hand that has none yet.
Lines == [id : Ids \cup {0}, who : Whos]
Facts == [id : Ids, who : Whos, secret : [Secrets -> Values]]

Named(facts) == {m.id : m \in facts}
Listed(facts) == {[id |-> m.id, who |-> m.who] : m \in facts}

TypeOK ==
  /\ open \in BOOLEAN
  /\ said \in SUBSET Facts
  /\ file \in SUBSET Lines
  /\ chain \in [Keys -> Values]

Init ==
  /\ open = FALSE
  /\ said = {}
  /\ file = {}
  /\ chain = [k \in Keys |-> NoSecret]

\* The launch finds every connection that is kept, each with its secrets; one
\* without an id is given one.
Open ==
  /\ open' = TRUE
  /\ said' \in SUBSET Facts
  /\ \A f \in file : \E m \in said' : m.who = f.who /\ f.id \in {0, m.id}
  /\ \A m \in said' :
        /\ \E f \in file : m.who = f.who /\ f.id \in {0, m.id}
        /\ \A s \in Secrets : m.secret[s] = chain[<<m.id, s>>]
  /\ UNCHANGED <<file, chain>>

Close == open' = FALSE /\ said' = {} /\ UNCHANGED <<file, chain>>

\* The user makes a connection, changes the secrets of one, or removes one.
Say ==
  /\ open
  /\ \E m \in Facts :
        \/ m.id \notin Named(said) /\ said' = said \cup {m}
        \/ \E n \in said : m.id = n.id /\ m.who = n.who /\ said' = (said \ {n}) \cup {m}
        \/ m \in said /\ said' = said \ {m}
  /\ UNCHANGED <<open, file, chain>>

KeepFile ==
  /\ open
  /\ file' = Listed(said)
  /\ UNCHANGED <<open, said, chain>>

KeepSecret ==
  /\ open
  /\ \E m \in said, s \in Secrets : chain' = [chain EXCEPT ![<<m.id, s>>] = m.secret[s]]
  /\ UNCHANGED <<open, said, file>>

ForgetSecret ==
  /\ open
  /\ \E id \in Ids \ Named(said), s \in Secrets :
        chain' = [chain EXCEPT ![<<id, s>>] = NoSecret]
  /\ UNCHANGED <<open, said, file>>

\* Somebody adds a connection to the file by hand.
WriteByHand ==
  /\ \E who \in Whos : file' = file \cup {[id |-> 0, who |-> who]}
  /\ UNCHANGED <<open, said, chain>>

Next == Open \/ Close \/ Say \/ KeepFile \/ KeepSecret \/ ForgetSecret \/ WriteByHand

Spec == Init /\ [][Next]_vars
===============================================================================
