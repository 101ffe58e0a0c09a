------------------------------ MODULE AtomicTable ------------------------------
(* What a commit promises of the table it is for, other clients beside it: the *)
(* whole batch lands in one step or nothing of it does, it changes the rows it *)
(* names and no others, one for each key, and it misses none that stayed as    *)
(* it was from the moment the batch was sent.                                  *)
CONSTANTS
  Ids,      \* places for rows
  Lines,    \* the rows there may be: records with a key, a value and a mark
  Batches,  \* sets of statements
  Absent,
  Default, Initial   \* left to the server, and what it makes of that

VARIABLES table, batch, steady

vars == <<table, batch, steady>>

Init == table \in [Ids -> Lines \cup {Absent}] /\ batch = {} /\ steady = {}

\* What becomes of a row the batch comes across: inserts run first, deletes last.
Named(verb, k) == {s \in batch : s.verb = verb /\ s.key = k}

Given(v) == IF v = Default THEN Initial ELSE v

After(line) ==
  IF Named("delete", line.key) # {} THEN Absent
  ELSE IF Named("update", line.key) = {} THEN line
  ELSE [line EXCEPT !.value = Given((CHOOSE s \in Named("update", line.key) : TRUE).value)]

\* A row of the table before, and the same place after.
Stored(i, now) ==
  /\ now \in {table[i], After(table[i])}
  /\ i \in steady => now = After(table[i])

\* A place that was free: a row of the batch's own, or free still.
Free(now) == now # Absent =>
  \E s \in batch : s.verb = "insert" /\ now.from = s.mark /\ s.key \in {now.key, Default}

\* Every row to insert is there, once, or is one the batch takes away again.
Inserted(s) ==
  \/ \E i \in Ids : /\ table[i] = Absent /\ table'[i] # Absent /\ table'[i].from = s.mark
                    /\ \A j \in Ids : table[j] = Absent /\ table'[j] # Absent /\ table'[j].from = s.mark
                        => j = i
  \/ \E d \in batch : d.verb = "delete" /\ s.key \in {d.key, Default}

OnePerKey == \A i, j \in Ids :
  /\ table[i] # Absent /\ table'[i] # table[i]
  /\ table[j] # Absent /\ table'[j] # table[j]
  /\ table[i].key = table[j].key
  => i = j

Lands ==
  /\ batch # {} /\ batch' = {}
  /\ \A i \in Ids : IF table[i] # Absent THEN Stored(i, table'[i]) ELSE Free(table'[i])
  /\ \A s \in batch : s.verb = "insert" => Inserted(s)
  /\ OnePerKey
  /\ steady' = {}

Send ==
  /\ batch = {} /\ batch' \in Batches \ {{}}
  /\ steady' = {i \in Ids : table[i] # Absent} /\ UNCHANGED table

GivesUp == batch # {} /\ batch' = {} /\ steady' = {} /\ UNCHANGED table

\* Another client's change of one row.
Other == \E i \in Ids, now \in Lines \cup {Absent} :
  /\ table' = [table EXCEPT ![i] = now]
  /\ steady' = steady \ {i} /\ UNCHANGED batch

Next == Send \/ Lands \/ GivesUp \/ Other

Spec == Init /\ [][Next]_vars
================================================================================
