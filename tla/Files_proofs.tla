----------------------------- MODULE Files_proofs -----------------------------
(***************************************************************************)
(* Theorems about what dbui keeps and writes.                              *)
(* ConnectionStore, for any number of ids, connections and secrets and     *)
(* whatever may go wrong: the variables keep their types, a number stands  *)
(* for one connection, and the file and the keychain follow AddressBook.   *)
(* Exports, for any tables and pages: a file that is done is the table.    *)
(***************************************************************************)
EXTENDS ConnectionStore, Exports, FiniteSetTheorems, WellFoundedInduction, TLAPS

-----------------------------------------------------------------------------
(* The store of connections *)

Unique(records) == \A f, g \in records : f.id = g.id /\ f.id # 0 => f = g

Finite == IsFiniteSet(file) /\ IsFiniteSet(temp) /\ IsFiniteSet(mem)

(***************************************************************************)
(* The counter is above every id that is, or may yet be, a connection's.   *)
(***************************************************************************)
Numbered ==
  Loaded =>
    /\ Unique(mem)
    /\ \A m \in mem : m.id < counter /\ m.id # form
    /\ \A f \in file : f.id < counter /\ (f.id = form => form = 0)
    /\ form < counter
    /\ \A m \in mem, f \in file : m.id = f.id => m.who = f.who

(***************************************************************************)
(* What save and the removal before it rely on at each of their steps.     *)
(***************************************************************************)
AtStage ==
  /\ ~running => stage = "idle" /\ mem = {} /\ form = 0
  /\ ~Loaded => stage \in {"idle", "forget", "begin"}
  /\ ~Loaded /\ stage = "forget" => left = {}
  /\ stage = "forget" => \A k \in left, m \in mem : k[1] # m.id
  /\ stage = "rename" => temp = Book!Listed(mem)
  /\ temp # {} => stage = "rename"

IInv == TypeOK /\ Finite /\ Unique(file) /\ Numbered /\ AtStage

-----------------------------------------------------------------------------
(* Numbers. *)

LEMMA ObservedBound ==
    ASSUME NEW lines \in SUBSET Book!Lines
    PROVE  /\ Observed(lines) \in 1..MaxId + 1
           /\ \A f \in lines : f.id < Observed(lines)
<1> DEFINE T == {n \in 1..MaxId + 1 : \A f \in lines : f.id < n}
<1>1. \A f \in lines : f.id \in 0..MaxId
  BY StoreAssumption DEF Book!Lines, Ids
<1>2. T \subseteq Nat /\ T # {}
  <2>1. MaxId + 1 \in T
    BY <1>1, StoreAssumption
  <2> QED
    BY <2>1, StoreAssumption
<1>3. PICK n \in T : \A y \in T : ~ (y < n)
  <2> DEFINE R == OpToRel(<, Nat)
  <2>1. IsWellFoundedOn(R, Nat)
    BY NatLessThanWellFounded, Zenon
  <2>2. \A x, y \in Nat : x < y => <<x, y>> \in R
    BY DEF OpToRel
  <2> HIDE DEF R, T
  <2>3. \E n \in T : \A y \in T : ~ (<<y, n>> \in R)
    BY <1>2, <2>1, WFMin, Zenon
  <2> QED
    BY <1>2, <2>2, <2>3
<1>5. n = 1 \/ \E f \in lines : f.id = n - 1
  <2> SUFFICES ASSUME n # 1 PROVE \E f \in lines : f.id = n - 1
    OBVIOUS
  <2>1. n - 1 \in 1..MaxId + 1 /\ n - 1 \notin T
    BY <1>3, StoreAssumption
  <2>2. PICK f \in lines : ~ (f.id < n - 1)
    BY <2>1
  <2> QED
    BY <1>1, <2>2, StoreAssumption
<1> QED
  BY <1>5 DEF Observed

(***************************************************************************)
(* What a launch finds has a number of its own each, below the counter.    *)
(***************************************************************************)
LEMMA Minting ==
    ASSUME NEW lines \in SUBSET Book!Lines, IsFiniteSet(lines), Unique(lines),
           NEW ids \in [lines -> Ids], AssignIds(lines, ids)
    PROVE  LET next == Observed(lines) + Cardinality({f \in lines : f.id = 0})
           IN  /\ next \in 1..MaxId + 1
               /\ \A f \in lines : f.id < next /\ ids[f] < next
               /\ \A f, g \in lines : ids[f] = ids[g] => f = g
<1> DEFINE missing == {f \in lines : f.id = 0}
           n == Observed(lines)
           c == Cardinality(missing)
           minted == [f \in missing |-> ids[f]]
<1>1. IsFiniteSet(missing) /\ c \in Nat
  BY FS_Subset, FS_CardinalityType
<1>2. n \in 1..MaxId + 1 /\ n \in Nat /\ \A f \in lines : f.id < n
  BY ObservedBound, StoreAssumption
<1>3. /\ \A f \in lines : f.id # 0 => ids[f] = f.id
      /\ {ids[f] : f \in missing} = n..(n + c - 1)
  BY DEF AssignIds
<1>4. \A f, g \in missing : ids[f] = ids[g] => f = g
  <2>1. minted \in Surjection(missing, n..(n + c - 1))
    BY <1>3 DEF Surjection
  <2>2. Cardinality(n..(n + c - 1)) = c
    BY <1>1, <1>2, FS_Interval
  <2>3. minted \in Injection(missing, n..(n + c - 1))
    <3> HIDE DEF missing, minted, c, n
    <3> QED
      BY <1>1, <2>1, <2>2, FS_Surjection DEF c
  <2> QED
    BY <2>3 DEF Injection, IsInjective
<1>5. \A f \in missing : ids[f] \in n..(n + c - 1)
  BY <1>3
<1>6. n + c \in 1..MaxId + 1
  <2>1. CASE c = 0
    BY <1>2, <2>1
  <2>2. CASE c # 0
    <3> HIDE DEF n, c
    <3>1. n + c - 1 \in n..(n + c - 1)
      BY <1>1, <1>2, <2>2
    <3>2. n + c - 1 \in 1..MaxId
      BY <1>3, <3>1 DEF Ids
    <3> QED
      BY <1>1, <1>2, <3>2, StoreAssumption
  <2> QED
    BY <2>1, <2>2
<1>7. \A f \in lines : f.id \in Nat
  BY StoreAssumption DEF Book!Lines, Ids
<1>8. \A f \in lines : f.id < n + c /\ ids[f] < n + c
  <2> SUFFICES ASSUME NEW f \in lines PROVE f.id < n + c /\ ids[f] < n + c
    OBVIOUS
  <2>1. f.id < n /\ f.id \in Nat /\ ids[f] \in Nat
    BY <1>2, <1>7, StoreAssumption DEF Ids
  <2>2. CASE f.id = 0
    BY <1>1, <1>2, <1>5, <2>1, <2>2
  <2>3. CASE f.id # 0
    BY <1>1, <1>2, <1>3, <2>1, <2>3
  <2> QED
    BY <2>2, <2>3
<1>9. \A f, g \in lines : ids[f] = ids[g] => f = g
  <2> SUFFICES ASSUME NEW f \in lines, NEW g \in lines, ids[f] = ids[g] PROVE f = g
    OBVIOUS
  <2>1. CASE f.id = 0 /\ g.id = 0
    BY <1>4, <2>1
  <2>2. CASE f.id # 0 /\ g.id # 0
    BY <1>3, <2>2 DEF Unique
  <2>3. CASE f.id = 0 /\ g.id # 0
    BY <1>1, <1>2, <1>3, <1>5, <1>7, <2>3
  <2>4. CASE f.id # 0 /\ g.id = 0
    BY <1>1, <1>2, <1>3, <1>5, <1>7, <2>4
  <2> QED
    BY <2>1, <2>2, <2>3, <2>4
<1> QED
  BY <1>6, <1>8, <1>9

-----------------------------------------------------------------------------
(* The invariant. *)

LEMMA ListedRecords ==
    ASSUME NEW S \in SUBSET Book!Facts
    PROVE  /\ Book!Listed(S) \in SUBSET Book!Lines
           /\ IsFiniteSet(S) => IsFiniteSet(Book!Listed(S))
           /\ Unique(S) => Unique(Book!Listed(S))
<1> USE DEF Book!Listed, Book!Facts, Book!Lines
<1>1. Book!Listed(S) \in SUBSET Book!Lines
  OBVIOUS
<1>2. IsFiniteSet(S) => IsFiniteSet(Book!Listed(S))
  <2> DEFINE line == [m \in S |-> [id |-> m.id, who |-> m.who]]
  <2>1. line \in Surjection(S, Book!Listed(S))
    BY DEF Surjection
  <2> QED
    BY <2>1, FS_Surjection
<1>3. Unique(S) => Unique(Book!Listed(S))
  BY DEF Unique
<1> QED
  BY <1>1, <1>2, <1>3

LEMMA InitIInv == Init => IInv
<1> SUFFICES ASSUME Init PROVE IInv
  OBVIOUS
<1> USE DEF Init
<1>1. TypeOK
  <2>1. counter \in 1..MaxId + 1 /\ form \in 0..MaxId /\ made \in 0..MaxWho
    BY StoreAssumption
  <2>2. chain \in [Keys -> Values]
    BY StoreAssumption
  <2> QED
    BY <2>1, <2>2 DEF TypeOK, Stages
<1>2. Finite
  BY FS_EmptySet DEF Finite
<1>3. Unique(file) /\ Numbered /\ AtStage
  BY DEF Unique, Numbered, AtStage, Loaded
<1> QED
  BY <1>1, <1>2, <1>3 DEF IInv

LEMMA LaunchKeeps ==
    ASSUME IInv, Launch
    PROVE  IInv'
<1> USE DEF IInv, Launch, FailsToLoad, process, disk, history
<1>1. CASE ~readable
  <2>1. TypeOK'
    <3>1. counter' \in 1..MaxId + 1
      BY <1>1, StoreAssumption
    <3> QED
      BY <1>1, <3>1 DEF TypeOK, Stages
  <2>2. Finite'
    BY <1>1, FS_EmptySet DEF Finite
  <2>3. (Unique(file) /\ Numbered /\ AtStage)'
    BY <1>1 DEF Unique, Numbered, AtStage, Loaded
  <2> QED
    BY <2>1, <2>2, <2>3
<1>2. CASE readable
  <2>1. PICK ids \in [file -> Ids], denied \in SUBSET Keys : Loads(ids, denied)
    BY <1>2
  <2> USE DEF Loads
  <2>2. file \in SUBSET Book!Lines /\ IsFiniteSet(file)
    BY DEF TypeOK, Finite
  <2>3. /\ counter' \in 1..MaxId + 1
        /\ \A f \in file : f.id < counter' /\ ids[f] < counter'
        /\ \A f, g \in file : ids[f] = ids[g] => f = g
    BY <2>1, <2>2, Minting
  <2>4. \A f \in file : Hydrated(f, ids[f], denied) \in Book!Facts
    BY StoreAssumption DEF TypeOK, Hydrated, Book!Facts, Book!Lines, Keys
  <2>5. TypeOK'
    <3>1. mem' \in SUBSET Book!Facts
      BY <2>1, <2>4
    <3> QED
      BY <2>1, <2>3, <3>1 DEF TypeOK, Stages
  <2>6. Finite'
    <3>1. IsFiniteSet(mem')
      <4> DEFINE hydrate == [f \in file |-> Hydrated(f, ids[f], denied)]
      <4>1. hydrate \in Surjection(file, mem')
        BY <2>1 DEF Surjection
      <4> QED
        BY <2>2, <4>1, FS_Surjection
    <3> QED
      BY <3>1 DEF Finite
  <2>7. \A m \in mem' : \E f \in file : m.id = ids[f] /\ m.who = f.who /\ m = Hydrated(f, ids[f], denied)
    BY <2>1 DEF Hydrated
  <2>8. \A f \in file : f.id # 0 => f.id = ids[f]
    BY <2>1 DEF AssignIds
  <2>9. AtStage'
    BY <1>2 DEF AtStage, Loaded, TypeOK
  <2>10. form = 0 /\ running' /\ ~unloaded'
    BY <2>1 DEF AtStage
  <2>11. \A f \in file : ids[f] \in 1..MaxId /\ f.id \in 0..MaxId
    BY <2>2, StoreAssumption DEF Ids, Book!Lines
  <2>12. Numbered'
    <3>1. Unique(mem')
      BY <2>3, <2>7 DEF Unique
    <3>2. \A m \in mem' : m.id < counter' /\ m.id # form'
      BY <2>3, <2>7, <2>10, <2>11
    <3>3. \A f \in file : f.id < counter'
      BY <2>3
    <3>4. form' < counter'
      BY <2>3, <2>10
    <3>5. \A m \in mem', f \in file' : m.id = f.id => m.who = f.who
      BY <2>3, <2>7, <2>8, <2>11
    <3> QED
      BY <2>10, <3>1, <3>2, <3>3, <3>4, <3>5 DEF Numbered
  <2> QED
    BY <2>5, <2>6, <2>9, <2>12 DEF Unique
<1> QED
  BY <1>1, <1>2

(***************************************************************************)
(* A connection that is made: by the form, or by an import.                *)
(***************************************************************************)
LEMMA AddsKeeps ==
    ASSUME IInv, Handler, NEW id \in Ids, Adds(id),
           form' \in {0, form}, counter' \in 1..MaxId + 1, counter <= counter',
           Loaded => /\ id < counter'
                     /\ \A m \in mem : m.id # id
                     /\ \A f \in file : f.id # id
                     /\ id # form'
    PROVE  IInv'
<1> USE DEF IInv, Handler, Adds, disk, history, Loaded
<1>1. PICK secret \in [Secrets -> Values] :
        mem' = mem \cup {[id |-> id, who |-> made', secret |-> secret]}
  OBVIOUS
<1> DEFINE new == [id |-> id, who |-> made', secret |-> secret]
<1>2. made' \in 1..MaxWho /\ made' \in 0..MaxWho
  BY StoreAssumption DEF TypeOK
<1>3. new \in Book!Facts
  BY <1>2 DEF Book!Facts, Whos
<1>4. TypeOK'
  <2>1. mem' \in SUBSET Book!Facts
    BY <1>1, <1>3 DEF TypeOK
  <2>2. form' \in 0..MaxId
    BY StoreAssumption DEF TypeOK
  <2> QED
    BY <1>2, <2>1, <2>2 DEF TypeOK, Stages
<1>5. Finite'
  BY <1>1, FS_AddElement DEF Finite
<1>6. AtStage'
  BY DEF AtStage
<1>7. /\ counter \in Nat /\ counter' \in Nat /\ id \in Nat /\ form \in Nat
      /\ \A m \in mem : m.id \in Nat /\ m.id # 0
      /\ \A f \in file : f.id \in Nat
  BY StoreAssumption DEF TypeOK, Ids, Book!Facts, Book!Lines
<1>8. Numbered'
  <2> SUFFICES ASSUME Loaded PROVE Numbered'
    BY DEF Numbered
  <2>1. Unique(mem')
    BY <1>1 DEF Numbered, Unique
  <2>2. \A m \in mem' : m.id < counter' /\ m.id # form'
    <3>1. \A m \in mem : m.id < counter' /\ m.id # form'
      BY <1>7 DEF Numbered
    <3>2. new.id = id
      OBVIOUS
    <3> QED
      BY <1>1, <3>1, <3>2
  <2>3. \A f \in file' : f.id < counter' /\ (f.id = form' => form' = 0)
    BY <1>7 DEF Numbered
  <2>4. form' < counter'
    BY <1>7 DEF Numbered
  <2>5. \A m \in mem', f \in file' : m.id = f.id => m.who = f.who
    BY <1>1 DEF Numbered
  <2> QED
    BY <2>1, <2>2, <2>3, <2>4, <2>5 DEF Numbered
<1> QED
  BY <1>4, <1>5, <1>6, <1>8 DEF Unique

LEMMA HandlersKeep ==
    ASSUME IInv,
           \/ OpenForm \/ CloseForm \/ AddConnection \/ Import
           \/ EditConnection \/ RemoveConnection
    PROVE  IInv'
<1> USE DEF IInv, Handler, disk, history, Loaded
<1>1. /\ counter \in 1..MaxId + 1 /\ form \in 0..MaxId /\ MaxId \in Nat
      /\ \A m \in mem : m.id \in 1..MaxId
      /\ \A f \in file : f.id \in 0..MaxId
  BY StoreAssumption DEF TypeOK, Ids, Book!Facts, Book!Lines
<1>2. CASE OpenForm
  <2>1. TypeOK'
    BY <1>1, <1>2 DEF OpenForm, TypeOK, Stages
  <2>2. Finite'
    BY <1>2 DEF OpenForm, Finite
  <2>3. Numbered'
    BY <1>1, <1>2 DEF OpenForm, Numbered, Unique
  <2>4. AtStage'
    BY <1>2 DEF OpenForm, AtStage
  <2> QED
    BY <1>2, <2>1, <2>2, <2>3, <2>4 DEF OpenForm, Unique
<1>3. CASE CloseForm
  <2>1. TypeOK'
    BY <1>1, <1>3 DEF CloseForm, TypeOK, Stages
  <2>2. Numbered'
    BY <1>1, <1>3 DEF CloseForm, Numbered, Unique
  <2> QED
    BY <1>3, <2>1, <2>2 DEF CloseForm, Unique, Finite, AtStage
<1>4. CASE AddConnection
  <2>1. form \in Ids /\ Adds(form)
    BY <1>1, <1>4 DEF AddConnection, Ids
  <2>2. Loaded => /\ form < counter /\ form # 0
                  /\ \A m \in mem : m.id # form
                  /\ \A f \in file : f.id # form
    BY <1>4 DEF AddConnection, Numbered
  <2>3. form' = 0 /\ counter' = counter /\ counter <= counter
    BY <1>1, <1>4 DEF AddConnection
  <2>4. Handler
    BY <1>4 DEF AddConnection
  <2> HIDE DEF IInv, Handler, Loaded
  <2> QED
    BY <1>1, <2>1, <2>2, <2>3, <2>4, AddsKeeps
<1>5. CASE Import
  <2>1. counter \in Ids /\ Adds(counter)
    BY <1>1, <1>5 DEF Import, Ids
  <2>2. /\ counter' \in 1..MaxId + 1 /\ counter <= counter' /\ counter < counter'
        /\ form' = form
    BY <1>1, <1>5 DEF Import
  <2>3. Loaded => /\ \A m \in mem : m.id # counter
                  /\ \A f \in file : f.id # counter
                  /\ counter # form
    BY <1>1 DEF Numbered
  <2> QED
    BY <1>5, <2>1, <2>2, <2>3, AddsKeeps DEF Import
<1>6. CASE EditConnection
  <2>1. PICK m \in mem, secret \in [Secrets -> Values] :
          mem' = (mem \ {m}) \cup {[m EXCEPT !.secret = secret]}
    BY <1>6 DEF EditConnection
  <2> DEFINE new == [m EXCEPT !.secret = secret]
  <2>2. new \in Book!Facts /\ new.id = m.id /\ new.who = m.who
    BY DEF TypeOK, Book!Facts
  <2>3. TypeOK'
    BY <1>6, <2>1, <2>2 DEF EditConnection, TypeOK, Stages
  <2>4. Finite'
    BY <1>6, <2>1, FS_RemoveElement, FS_AddElement DEF EditConnection, Finite
  <2>5. Numbered'
    <3>1. \A n \in mem' : \E o \in mem : n.id = o.id /\ n.who = o.who /\ n = (IF o = m THEN new ELSE o)
      BY <2>1, <2>2
    <3>2. Loaded => Unique(mem')
      BY <1>1, <3>1 DEF Numbered, Unique
    <3> QED
      BY <1>6, <3>1, <3>2 DEF EditConnection, Numbered
  <2>6. AtStage'
    BY <1>6 DEF EditConnection, AtStage
  <2> QED
    BY <1>6, <2>3, <2>4, <2>5, <2>6 DEF EditConnection, Unique
<1>7. CASE RemoveConnection
  <2>1. PICK m \in mem : /\ mem' = mem \ {m}
                         /\ left' = IF unloaded THEN {} ELSE {m.id} \X Secrets
    BY <1>7 DEF RemoveConnection
  <2>2. TypeOK'
    BY <1>1, <1>7, <2>1 DEF RemoveConnection, TypeOK, Stages, Keys, Ids
  <2>3. Finite'
    BY <1>7, <2>1, FS_RemoveElement DEF RemoveConnection, Finite
  <2>4. Numbered'
    BY <1>7, <2>1 DEF RemoveConnection, Numbered, Unique
  <2>5. AtStage'
    <3>1. ~unloaded => \A n \in mem' : n.id # m.id
      BY <1>1, <1>7, <2>1 DEF RemoveConnection, Numbered, Unique
    <3>2. \A k \in left', n \in mem' : k[1] # n.id
      BY <2>1, <3>1
    <3> QED
      BY <1>7, <2>1, <3>2 DEF RemoveConnection, AtStage
  <2> QED
    BY <1>7, <2>2, <2>3, <2>4, <2>5 DEF RemoveConnection, Unique
<1> QED
  BY <1>2, <1>3, <1>4, <1>5, <1>6, <1>7

LEMMA SavingKeeps ==
    ASSUME IInv,
           \/ Forget \/ BeginSave \/ WriteTemp \/ Rename \/ SyncSecret \/ Saved
    PROVE  IInv'
<1> USE DEF IInv, disk, history, Loaded
<1>1. \A m \in mem : m.id \in Ids /\ m.secret \in [Secrets -> Values]
  BY DEF TypeOK, Book!Facts
<1>2. CASE Forget
  <2>1. TypeOK'
    BY <1>2, StoreAssumption DEF Forget, TypeOK, Stages
  <2> QED
    BY <1>2, <2>1 DEF Forget, Finite, Unique, Numbered, AtStage
<1>3. CASE BeginSave
  <2>1. TypeOK'
    BY <1>3 DEF BeginSave, TypeOK, Stages
  <2> QED
    BY <1>3, <2>1 DEF BeginSave, Finite, Unique, Numbered, AtStage
<1>4. CASE WriteTemp
  <2>1. /\ Book!Listed(mem) \in SUBSET Book!Lines
        /\ IsFiniteSet(Book!Listed(mem))
    BY ListedRecords DEF TypeOK, Finite
  <2>2. TypeOK'
    BY <1>4, <2>1 DEF WriteTemp, TypeOK, Stages
  <2>3. Finite'
    BY <1>4, <2>1 DEF WriteTemp, Finite
  <2> QED
    BY <1>4, <2>2, <2>3 DEF WriteTemp, Unique, Numbered, AtStage
<1>5. CASE Rename
  <2>1. CASE file' = file /\ stage' = "idle"
    <3>1. TypeOK'
      BY <1>5, <2>1 DEF Rename, TypeOK, Stages
    <3>2. Finite'
      BY <1>5, <2>1, FS_EmptySet DEF Rename, Finite
    <3> QED
      BY <1>5, <2>1, <3>1, <3>2 DEF Rename, Unique, Numbered, AtStage
  <2>2. CASE file' = temp /\ stage' = "secrets" /\ left' = {<<m.id, s>> : m \in mem, s \in Secrets}
    <3>1. Loaded /\ temp = Book!Listed(mem)
      BY <1>5 DEF Rename, AtStage
    <3>2. Unique(file')
      BY <2>2, <3>1, ListedRecords DEF Numbered, TypeOK
    <3>3. TypeOK'
      <4>1. left' \in SUBSET Keys
        BY <1>1, <2>2 DEF Keys
      <4>2. file' \in SUBSET Book!Lines /\ temp' \in SUBSET Book!Lines
        BY <1>5, <2>2 DEF Rename, TypeOK
      <4>3. readable' = TRUE /\ unsaved' = FALSE
        BY <1>5, <2>2 DEF Rename
      <4>4. UNCHANGED <<running, made, chain, mem, counter, form, unread, unloaded, refused>>
        BY <1>5 DEF Rename
      <4> QED
        BY <2>2, <4>1, <4>2, <4>3, <4>4 DEF TypeOK, Stages
    <3>4. Finite'
      BY <1>5, <2>2, FS_EmptySet DEF Rename, Finite
    <3>5. \A f \in file' : \E m \in mem : f.id = m.id /\ f.who = m.who
      BY <2>2, <3>1 DEF Book!Listed
    <3>6. Numbered'
      <4>1. mem' = mem /\ counter' = counter /\ form' = form
        BY <1>5 DEF Rename
      <4>2. \A f \in file' : f.id < counter /\ f.id # form
        BY <3>1, <3>5 DEF Numbered
      <4>3. \A m \in mem, f \in file' : m.id = f.id => m.who = f.who
        BY <1>1, <3>1, <3>5, StoreAssumption DEF Numbered, Unique, Ids
      <4> QED
        BY <3>1, <4>1, <4>2, <4>3 DEF Numbered, Unique
    <3> QED
      BY <1>5, <2>2, <3>2, <3>3, <3>4, <3>6 DEF Rename, AtStage
  <2> QED
    BY <1>5, <2>1, <2>2 DEF Rename
<1>6. CASE SyncSecret
  <2>1. PICK k \in left, m \in mem :
          /\ left' = left \ {k}
          /\ chain' \in {chain, [chain EXCEPT ![k] = m.secret[k[2]]]}
          /\ unread' \in {unread, unread \ {k}}
          /\ refused' \in {refused, refused \ {k}, refused \cup {k}}
    BY <1>6 DEF SyncSecret
  <2>2. k \in Keys /\ k[2] \in Secrets /\ m.secret[k[2]] \in Values
    BY <1>1 DEF TypeOK, Keys
  <2>3. TypeOK'
    BY <1>6, <2>1, <2>2 DEF SyncSecret, TypeOK, Stages
  <2> QED
    BY <1>6, <2>3 DEF SyncSecret, Finite, Unique, Numbered, AtStage
<1>7. CASE Saved
  <2>1. TypeOK'
    BY <1>7 DEF Saved, TypeOK, Stages
  <2> QED
    BY <1>7, <2>1 DEF Saved, Finite, Unique, Numbered, AtStage
<1> QED
  BY <1>2, <1>3, <1>4, <1>5, <1>6, <1>7

LEMMA OutsideKeeps ==
    ASSUME IInv,
           Quit \/ Crash \/ Break \/ WriteByHand \/ UNCHANGED vars
    PROVE  IInv'
<1> USE DEF IInv, disk, history, process, Loaded
<1>1. CASE Quit \/ Crash
  <2>1. TypeOK'
    <3>1. counter' \in 1..MaxId + 1 /\ form' \in 0..MaxId
      BY <1>1, StoreAssumption DEF Quit, Crash, Ended
    <3> QED
      BY <1>1, <3>1 DEF Quit, Crash, Ended, TypeOK, Stages
  <2>2. Finite'
    BY <1>1, FS_EmptySet DEF Quit, Crash, Ended, Finite
  <2> QED
    BY <1>1, <2>1, <2>2 DEF Quit, Crash, Ended, Unique, Numbered, AtStage
<1>2. CASE Break
  <2>1. TypeOK'
    BY <1>2 DEF Break, TypeOK, Stages
  <2> QED
    BY <1>2, <2>1 DEF Break, Finite, Unique, Numbered, AtStage
<1>3. CASE WriteByHand
  <2> DEFINE line == [id |-> 0, who |-> made + 1]
  <2>1. line \in Book!Lines /\ made' \in 0..MaxWho
    BY <1>3, StoreAssumption DEF WriteByHand, TypeOK, Book!Lines, Whos
  <2>2. TypeOK'
    BY <1>3, <2>1 DEF WriteByHand, TypeOK, Stages
  <2>3. Finite'
    BY <1>3, FS_AddElement DEF WriteByHand, Finite
  <2>4. Unique(file')
    BY <1>3 DEF WriteByHand, Unique
  <2> QED
    BY <1>3, <2>2, <2>3, <2>4 DEF WriteByHand, Numbered, AtStage
<1>4. CASE UNCHANGED vars
  <2>1. TypeOK'
    BY <1>4 DEF vars, TypeOK, Stages
  <2> QED
    BY <1>4, <2>1 DEF vars, Finite, Unique, Numbered, AtStage
<1> QED
  BY <1>1, <1>2, <1>3, <1>4

LEMMA Inductive == Spec => []IInv
<1>1. IInv /\ [Next]_vars => IInv'
  BY LaunchKeeps, HandlersKeep, SavingKeeps, OutsideKeeps DEF Next
<1> QED
  BY InitIInv, <1>1, PTL DEF Spec

-----------------------------------------------------------------------------
(***************************************************************************)
(* The variables keep their types whatever fails and whenever the process  *)
(* ends: no number runs past what was made.                                *)
(***************************************************************************)
THEOREM TypeCorrect == Spec => []TypeOK
<1>1. IInv => TypeOK
  BY DEF IInv
<1> QED
  BY Inductive, <1>1, PTL

(***************************************************************************)
(* A number stands for one connection in the window and in the file,       *)
(* through closed forms, imports, removals, restarts and lines written by  *)
(* hand (ConnectionId::observe, assign_ids).                               *)
(***************************************************************************)
THEOREM OneConnectionCorrect == Spec => []OneConnectionPerId
<1>1. IInv => OneConnectionPerId
  <2> SUFFICES ASSUME IInv, Loaded PROVE OneConnectionPerId
    BY DEF OneConnectionPerId
  <2>1. \A m \in mem : m.id # 0
    BY StoreAssumption DEF IInv, TypeOK, Book!Facts, Ids
  <2> QED
    BY <2>1 DEF IInv, Numbered, Unique, OneConnectionPerId
<1> QED
  BY Inductive, <1>1, PTL

-----------------------------------------------------------------------------
(* The refinement. *)

LEMMA MeantFacts ==
    ASSUME TypeOK, NEW m \in Book!Facts
    PROVE  /\ Meant(m) \in Book!Facts
           /\ Meant(m).id = m.id /\ Meant(m).who = m.who
           /\ \A s \in Secrets : Meant(m).secret[s] =
                IF m.secret[s] = NoSecret /\ <<m.id, s>> \in unread
                THEN chain[<<m.id, s>>] ELSE m.secret[s]
BY DEF Meant, TypeOK, Book!Facts, Keys

LEMMA InitBook == Init => Book!Init
BY DEF Init, Book!Init, Said, Loaded, Keys, Book!Keys

LEMMA SaidStays ==
    ASSUME UNCHANGED <<running, unloaded, mem, unread, chain>>
    PROVE  UNCHANGED <<Loaded, Said>>
BY DEF Loaded, Said, Meant

LEMMA SaidNotLoaded ==
    ASSUME ~Loaded, ~Loaded'
    PROVE  UNCHANGED <<Loaded, Said>>
BY DEF Loaded, Said

LEMMA LaunchOpens ==
    ASSUME IInv, IInv', Launch
    PROVE  [Book!Next]_Book!vars
<1> USE DEF Launch, disk
<1>1. CASE ~readable
  BY <1>1, SaidNotLoaded DEF Loaded, FailsToLoad, Book!vars
<1>2. CASE readable
  <2>1. PICK ids \in [file -> Ids], denied \in SUBSET Keys : Loads(ids, denied)
    BY <1>2
  <2>2. Loaded' /\ UNCHANGED <<file, chain>>
    BY <2>1 DEF Loads, Loaded
  <2>3. mem' \in SUBSET Book!Facts /\ TypeOK'
    BY DEF IInv, TypeOK
  <2>4. Said' = {Meant(m)' : m \in mem'}
    BY <2>2 DEF Said
  <2>5. \A m \in mem' : /\ Meant(m)' \in Book!Facts
                       /\ Meant(m)'.id = m.id /\ Meant(m)'.who = m.who
                       /\ \A s \in Secrets : Meant(m)'.secret[s] =
                            IF m.secret[s] = NoSecret /\ <<m.id, s>> \in denied
                            THEN chain[<<m.id, s>>] ELSE m.secret[s]
    BY <2>1, <2>2, <2>3 DEF Meant, Book!Facts, TypeOK, Keys, Loads
  <2>6. \A m \in mem' : \E f \in file : m = Hydrated(f, ids[f], denied)
    BY <2>1 DEF Loads
  <2>7. \A f \in file : Hydrated(f, ids[f], denied) \in mem' /\ f.id \in {0, ids[f]}
    <3>1. \A f \in file : Hydrated(f, ids[f], denied) \in mem'
      BY <2>1 DEF Loads
    <3>2. AssignIds(file, ids)
      BY <2>1 DEF Loads
    <3>3. \A f \in file : f.id # 0 => ids[f] = f.id
      BY <3>2 DEF AssignIds
    <3> QED
      BY <3>1, <3>3
  <2>8. \A f \in file : \E m \in Said' : m.who = f.who /\ f.id \in {0, m.id}
    <3> SUFFICES ASSUME NEW f \in file
                 PROVE  \E m \in Said' : m.who = f.who /\ f.id \in {0, m.id}
      OBVIOUS
    <3>1. PICK m \in mem' : m = Hydrated(f, ids[f], denied)
      BY <2>7
    <3>2. m.id = ids[f] /\ m.who = f.who
      BY <3>1 DEF Hydrated
    <3>3. Meant(m)' \in Said' /\ Meant(m)'.id = m.id /\ Meant(m)'.who = m.who
      BY <2>4, <2>5
    <3> QED
      BY <2>7, <3>2, <3>3
  <2>9. \A m \in Said' :
          /\ \E f \in file : m.who = f.who /\ f.id \in {0, m.id}
          /\ \A s \in Secrets : m.secret[s] = chain[<<m.id, s>>]
    BY <2>4, <2>5, <2>6, <2>7 DEF Hydrated
  <2>10. Said' \in SUBSET Book!Facts
    BY <2>4, <2>5
  <2> QED
    BY <2>2, <2>8, <2>9, <2>10 DEF Book!Open, Book!Next
<1> QED
  BY <1>1, <1>2

(***************************************************************************)
(* A connection that is made, changed or removed is the user's word on     *)
(* that one and no other.                                                  *)
(***************************************************************************)
LEMMA HandlersSay ==
    ASSUME IInv, IInv',
           \/ OpenForm \/ CloseForm \/ AddConnection \/ Import
           \/ EditConnection \/ RemoveConnection
    PROVE  [Book!Next]_Book!vars
<1> USE DEF disk, history
<1>1. CASE ~Loaded
  <2>1. ~Loaded' /\ UNCHANGED <<file, chain>>
    BY <1>1 DEF Loaded, OpenForm, CloseForm, AddConnection, Import, Adds, EditConnection, RemoveConnection
  <2> QED
    BY <1>1, <2>1, SaidNotLoaded DEF Book!vars
<1>2. ASSUME Loaded, UNCHANGED <<running, unloaded, unread, chain, file>>
      PROVE  /\ Loaded' /\ Said = {Meant(m) : m \in mem} /\ Said' = {Meant(m) : m \in mem'}
             /\ \A m \in mem \cup mem' : /\ Meant(m) \in Book!Facts
                                         /\ Meant(m).id = m.id /\ Meant(m).who = m.who
  <2>1. mem \in SUBSET Book!Facts /\ mem' \in SUBSET Book!Facts /\ TypeOK
    BY DEF IInv, TypeOK
  <2> QED
    BY <1>2, <2>1, MeantFacts DEF Said, Loaded, Meant
<1>3. Loaded => Unique(mem) /\ \A m \in mem : m.id # 0 /\ m.id # form /\ m.id # counter
  BY StoreAssumption DEF IInv, Numbered, TypeOK, Book!Facts, Ids
<1>4. CASE OpenForm \/ CloseForm
  BY <1>4, SaidStays DEF OpenForm, CloseForm, Book!vars
<1>5. ASSUME Loaded, NEW id \in Ids, Adds(id), \A m \in mem : m.id # id
      PROVE  Book!Next
  <2>1. PICK secret \in [Secrets -> Values] :
          mem' = mem \cup {[id |-> id, who |-> made', secret |-> secret]}
    BY <1>5 DEF Adds
  <2> DEFINE new == [id |-> id, who |-> made', secret |-> secret]
  <2>2. UNCHANGED <<running, unloaded, unread, chain, file>>
    BY <1>5 DEF Adds
  <2>3. Said' = Said \cup {Meant(new)}
    BY <1>2, <1>5, <2>1, <2>2
  <2>4. Meant(new) \in Book!Facts /\ Meant(new).id = id
    BY <1>2, <1>5, <2>1, <2>2
  <2>5. id \notin Book!Named(Said)
    BY <1>2, <1>5, <2>2 DEF Book!Named
  <2> QED
    BY <1>2, <1>5, <2>2, <2>3, <2>4, <2>5 DEF Book!Say, Book!Next
<1>6. CASE Loaded /\ AddConnection
  <2>1. form \in Ids
    BY <1>6, StoreAssumption DEF AddConnection, IInv, TypeOK, Ids
  <2> QED
    BY <1>3, <1>5, <1>6, <2>1 DEF AddConnection
<1>7. CASE Loaded /\ Import
  <2>1. counter \in Ids
    BY <1>7, StoreAssumption DEF Import, IInv, TypeOK, Ids
  <2> QED
    BY <1>3, <1>5, <1>7, <2>1 DEF Import
<1>8. CASE Loaded /\ EditConnection
  <2>1. PICK m \in mem, secret \in [Secrets -> Values] :
          mem' = (mem \ {m}) \cup {[m EXCEPT !.secret = secret]}
    BY <1>8 DEF EditConnection
  <2> DEFINE new == [m EXCEPT !.secret = secret]
  <2>2. UNCHANGED <<running, unloaded, unread, chain, file>>
    BY <1>8 DEF EditConnection
  <2>3. new \in mem' /\ new.id = m.id /\ new.who = m.who
    BY <2>1 DEF IInv, TypeOK, Book!Facts
  <2>4. \A o \in mem : o # m => Meant(o) # Meant(m)
    BY <1>2, <1>3, <1>8, <2>2 DEF Unique
  <2>5. Said' = (Said \ {Meant(m)}) \cup {Meant(new)}
    BY <1>2, <1>8, <2>1, <2>2, <2>4
  <2>6. /\ Meant(m) \in Said /\ Meant(new) \in Book!Facts
        /\ Meant(new).id = Meant(m).id /\ Meant(new).who = Meant(m).who
    BY <1>2, <1>8, <2>2, <2>3
  <2> QED
    BY <1>2, <1>8, <2>2, <2>5, <2>6 DEF Book!Say, Book!Next
<1>9. CASE Loaded /\ RemoveConnection
  <2>1. PICK m \in mem : mem' = mem \ {m}
    BY <1>9 DEF RemoveConnection
  <2>2. UNCHANGED <<running, unloaded, unread, chain, file>>
    BY <1>9 DEF RemoveConnection
  <2>3. \A o \in mem : o # m => Meant(o) # Meant(m)
    BY <1>2, <1>3, <1>9, <2>2 DEF Unique
  <2>4. Said' = Said \ {Meant(m)} /\ Meant(m) \in Said /\ Meant(m) \in Book!Facts
    BY <1>2, <1>9, <2>1, <2>2, <2>3
  <2> QED
    BY <1>2, <1>9, <2>2, <2>4 DEF Book!Say, Book!Next
<1> QED
  BY <1>1, <1>4, <1>6, <1>7, <1>8, <1>9

(***************************************************************************)
(* Each write of a save, or of the removal before it, is one thing kept or *)
(* forgotten that the user said.                                           *)
(***************************************************************************)
LEMMA SavingMoves ==
    ASSUME IInv, IInv',
           \/ Forget \/ BeginSave \/ WriteTemp \/ Rename \/ SyncSecret \/ Saved
    PROVE  [Book!Next]_Book!vars
<1> USE DEF disk, history
<1>1. /\ mem \in SUBSET Book!Facts /\ TypeOK
      /\ \A m \in mem : m.id \in Ids /\ m.secret \in [Secrets -> Values]
  BY DEF IInv, TypeOK, Book!Facts
<1>2. Loaded => /\ Said = {Meant(m) : m \in mem}
                /\ \A m \in mem : Meant(m).id = m.id /\ Meant(m).who = m.who
  BY <1>1, MeantFacts DEF Said
<1>3. CASE BeginSave \/ WriteTemp \/ Saved
  BY <1>3, SaidStays DEF BeginSave, WriteTemp, Saved, Book!vars
<1>4. CASE Forget
  <2>1. CASE UNCHANGED chain
    BY <1>4, <2>1, SaidStays DEF Forget, Book!vars
  <2>2. CASE ~ UNCHANGED chain
    <3>1. PICK k \in left : chain' = [chain EXCEPT ![k] = NoSecret]
      BY <1>4, <2>2 DEF Forget
    <3>2. Loaded /\ (\A m \in mem : m.id # k[1]) /\ k \in Keys
      BY <1>4, <3>1 DEF Forget, IInv, AtStage, TypeOK
    <3>3. k[1] \in Ids \ Book!Named(Said) /\ k[2] \in Secrets /\ k = <<k[1], k[2]>>
      BY <1>2, <3>2 DEF Book!Named, Keys
    <3>4. UNCHANGED <<Loaded, Said, file>>
      <4>1. \A m \in mem, s \in Secrets : chain'[<<m.id, s>>] = chain[<<m.id, s>>]
        BY <1>1, <3>1, <3>2 DEF Keys, TypeOK
      <4>2. UNCHANGED <<running, unloaded, mem, unread, file>>
        BY <1>4 DEF Forget
      <4>3. \A m \in mem : Meant(m)' = Meant(m)
        BY <4>1, <4>2 DEF Meant
      <4> QED
        BY <4>2, <4>3 DEF Said, Loaded
    <3> QED
      BY <3>1, <3>2, <3>3, <3>4 DEF Book!ForgetSecret, Book!Next
  <2> QED
    BY <2>1, <2>2
<1>5. CASE Rename
  <2>1. UNCHANGED <<Loaded, Said, chain>>
    BY <1>5, SaidStays DEF Rename
  <2>2. CASE file' = file
    BY <2>1, <2>2 DEF Book!vars
  <2>3. CASE file' = temp
    <3>1. Loaded /\ temp = Book!Listed(mem)
      BY <1>5 DEF Rename, IInv, AtStage
    <3>2. Book!Listed(mem) = Book!Listed(Said)
      BY <1>2, <3>1 DEF Book!Listed
    <3> QED
      BY <2>1, <2>3, <3>1, <3>2 DEF Book!KeepFile, Book!Next
  <2> QED
    BY <1>5, <2>2, <2>3 DEF Rename
<1>6. CASE SyncSecret
  <2>1. Loaded /\ Unique(mem) /\ \A m \in mem : m.id # 0
    BY <1>1, <1>6, StoreAssumption DEF SyncSecret, IInv, AtStage, Numbered, Ids
  <2>2. PICK k \in left, m \in mem :
          /\ m.id = k[1]
          /\ \/ UNCHANGED <<chain, unread>>
             \/ /\ chain' = [chain EXCEPT ![k] = m.secret[k[2]]]
                /\ m.secret[k[2]] = NoSecret => k \notin unread
                /\ unread' = IF m.secret[k[2]] = NoSecret THEN unread ELSE unread \ {k}
    BY <1>6 DEF SyncSecret, PasswordSync
  <2>3. UNCHANGED <<running, unloaded, mem, file>>
    BY <1>6 DEF SyncSecret
  <2>4. CASE UNCHANGED <<chain, unread>>
    BY <2>3, <2>4, SaidStays DEF Book!vars
  <2>5. CASE ~ UNCHANGED <<chain, unread>>
    <3>1. k \in Keys /\ k = <<m.id, k[2]>> /\ k[2] \in Secrets
      BY <1>1, <2>2 DEF TypeOK, Keys
    <3>2. Meant(m).secret[k[2]] = m.secret[k[2]]
      BY <1>1, <2>2, <2>5, <3>1, MeantFacts
    <3>3. \A n \in mem, s \in Secrets :
            (IF n.secret[s] = NoSecret /\ <<n.id, s>> \in unread
             THEN chain[<<n.id, s>>] ELSE n.secret[s])
            = (IF n.secret[s] = NoSecret /\ <<n.id, s>> \in unread'
               THEN chain'[<<n.id, s>>] ELSE n.secret[s])
      <4> SUFFICES ASSUME NEW n \in mem, NEW s \in Secrets
                   PROVE  (IF n.secret[s] = NoSecret /\ <<n.id, s>> \in unread
                           THEN chain[<<n.id, s>>] ELSE n.secret[s])
                          = (IF n.secret[s] = NoSecret /\ <<n.id, s>> \in unread'
                             THEN chain'[<<n.id, s>>] ELSE n.secret[s])
        OBVIOUS
      <4>1. CASE <<n.id, s>> # k
        <5>1. chain'[<<n.id, s>>] = chain[<<n.id, s>>]
          BY <1>1, <2>2, <2>5, <4>1 DEF TypeOK, Keys
        <5>2. <<n.id, s>> \in unread' <=> <<n.id, s>> \in unread
          BY <2>2, <2>5, <4>1
        <5> QED
          BY <5>1, <5>2
      <4>2. CASE <<n.id, s>> = k
        <5>1. n = m /\ s = k[2]
          BY <2>1, <3>1, <4>2 DEF Unique
        <5> QED
          BY <2>2, <2>5, <4>2, <5>1
      <4> QED
        BY <4>1, <4>2
    <3>4. UNCHANGED <<Loaded, Said>>
      <4>1. \A n \in mem : Meant(n)' = Meant(n)
        BY <2>3, <3>3 DEF Meant
      <4> QED
        BY <2>3, <4>1 DEF Said, Loaded
    <3>5. Meant(m) \in Said /\ chain' = [chain EXCEPT ![<<Meant(m).id, k[2]>>] = Meant(m).secret[k[2]]]
      BY <1>2, <2>1, <2>2, <2>5, <3>1, <3>2
    <3> QED
      BY <2>1, <2>3, <3>1, <3>4, <3>5 DEF Book!KeepSecret, Book!Next
  <2> QED
    BY <2>4, <2>5
<1> QED
  BY <1>3, <1>4, <1>5, <1>6

LEMMA OutsideMoves ==
    ASSUME IInv, IInv',
           Quit \/ Crash \/ Break \/ WriteByHand \/ UNCHANGED vars
    PROVE  [Book!Next]_Book!vars
<1> USE DEF disk, history, process
<1>1. CASE Quit \/ Crash
  <2>1. ~Loaded' /\ Said' = {} /\ UNCHANGED <<file, chain>>
    BY <1>1 DEF Quit, Crash, Ended, Loaded, Said
  <2> QED
    BY <2>1 DEF Book!Close, Book!Next
<1>2. CASE Break
  BY <1>2, SaidStays DEF Break, Book!vars
<1>3. CASE WriteByHand
  <2>1. UNCHANGED <<Loaded, Said, chain>>
    BY <1>3, SaidStays DEF WriteByHand
  <2>2. made + 1 \in Whos
    BY <1>3, StoreAssumption DEF WriteByHand, IInv, TypeOK, Whos
  <2> QED
    BY <1>3, <2>1, <2>2 DEF WriteByHand, Book!WriteByHand, Book!Next
<1>4. CASE UNCHANGED vars
  BY <1>4, SaidStays DEF vars, Book!vars
<1> QED
  BY <1>1, <1>2, <1>3, <1>4

(***************************************************************************)
(* The file and the keychain only ever move to what the user said: the     *)
(* store implements AddressBook, whatever is refused and whenever the      *)
(* process ends (save, load, delete_password).                             *)
(***************************************************************************)
THEOREM KeepsCorrect == Spec => Keeps
<1>1. IInv /\ IInv' /\ [Next]_vars => [Book!Next]_Book!vars
  BY LaunchOpens, HandlersSay, SavingMoves, OutsideMoves DEF Next
<1> QED
  BY InitBook, Inductive, <1>1, PTL DEF Spec, Keeps, Book!Spec

-----------------------------------------------------------------------------
(* What is kept, and what is left behind. *)

(***************************************************************************)
(* A secret whose connection is not in the window any more has been        *)
(* forgotten, is about to be, or was refused to be.                        *)
(***************************************************************************)
Forgotten ==
  Loaded => \A k \in Keys :
    \/ chain[k] = NoSecret
    \/ k \in refused
    \/ \E m \in mem : m.id = k[1]
    \/ stage = "forget" /\ k \in left

(***************************************************************************)
(* A secret as it is kept, but for what the keychain refused.              *)
(***************************************************************************)
IsKept(m, s) ==
  \/ <<m.id, s>> \in refused
  \/ m.secret[s] = NoSecret /\ <<m.id, s>> \in unread
  \/ m.secret[s] = chain[<<m.id, s>>]

(***************************************************************************)
(* save goes over every secret of every connection it has written.         *)
(***************************************************************************)
SavedSoFar ==
  stage = "secrets" => /\ ~unsaved
                       /\ file = Book!Listed(mem)
                       /\ \A m \in mem, s \in Secrets : <<m.id, s>> \in left \/ IsKept(m, s)

Kept == NoOrphans /\ Forgotten /\ SavedSoFar /\ Durable

LEMMA InitKept == Init => Kept
BY DEF Init, Kept, NoOrphans, Forgotten, SavedSoFar, Durable, Loaded, Handler, Keys

LEMMA ListedIds ==
    ASSUME NEW S
    PROVE  /\ \A m \in S : \E f \in Book!Listed(S) : f.id = m.id
           /\ {f.who : f \in Book!Listed(S)} = {m.who : m \in S}
<1>1. \A m \in S : \E f \in Book!Listed(S) : f.id = m.id /\ f.who = m.who
  <2> SUFFICES ASSUME NEW m \in S
               PROVE  \E f \in Book!Listed(S) : f.id = m.id /\ f.who = m.who
    OBVIOUS
  <2>1. [id |-> m.id, who |-> m.who] \in Book!Listed(S)
    BY DEF Book!Listed
  <2> QED
    BY <2>1
<1>2. \A f \in Book!Listed(S) : \E m \in S : f.who = m.who
  BY DEF Book!Listed
<1> QED
  BY <1>1, <1>2

LEMMA KeptStep ==
    ASSUME IInv, Kept, [Next]_vars
    PROVE  Kept'
<1> USE DEF Kept, disk, history, process
<1>1. CASE Launch
  <2> USE DEF Launch
  <2>1. CASE ~readable
    BY <1>1, <2>1 DEF FailsToLoad, NoOrphans, Forgotten, SavedSoFar, Durable, Loaded, Handler, IInv, AtStage
  <2>2. CASE readable
    <3>1. PICK ids \in [file -> Ids], denied \in SUBSET Keys : Loads(ids, denied)
      BY <1>1, <2>2
    <3>2. /\ mem' = {Hydrated(f, ids[f], denied) : f \in file} /\ unread' = denied
          /\ refused' = {k \in refused : \A f \in file : k[1] # f.id}
          /\ UNCHANGED <<file, chain, stage, left>> /\ stage = "idle"
      BY <1>1, <3>1 DEF Loads, IInv, AtStage
    <3>3. \A f \in file : f.id # 0 => f.id = ids[f]
      BY <3>1 DEF Loads, AssignIds
    <3>4. NoOrphans'
      BY <3>2 DEF NoOrphans
    <3>5. \A m \in mem' : \E f \in file : m = Hydrated(f, ids[f], denied)
      BY <3>2
    <3>6. \A f \in file : \E m \in mem' : m.id = ids[f] /\ m.who = f.who
      <4>1. \A f \in file : Hydrated(f, ids[f], denied) \in mem'
        BY <3>2
      <4>2. \A f \in file : /\ Hydrated(f, ids[f], denied).id = ids[f]
                           /\ Hydrated(f, ids[f], denied).who = f.who
        BY DEF Hydrated
      <4> QED
        BY <4>1, <4>2
    <3>7. Forgotten'
      <4> SUFFICES ASSUME NEW k \in Keys, chain[k] # NoSecret
                   PROVE  k \in refused' \/ \E m \in mem' : m.id = k[1]
        BY <3>2 DEF Forgotten
      <4>1. CASE \E f \in file : f.id = k[1]
        <5>1. k[1] # 0
          BY StoreAssumption DEF Keys, Ids
        <5> QED
          BY <3>3, <3>6, <4>1, <5>1
      <4>2. CASE ~ \E f \in file : f.id = k[1]
        BY <3>2, <4>2 DEF NoOrphans
      <4> QED
        BY <4>1, <4>2
    <3>8. \A m \in mem', s \in Secrets : IsKept(m, s)'
      BY <3>2, <3>5 DEF IsKept, Hydrated
    <3>9. {f.who : f \in file} = {m.who : m \in mem'}
      BY <3>5, <3>6 DEF Hydrated
    <3> QED
      BY <3>2, <3>4, <3>7, <3>8, <3>9 DEF SavedSoFar, Durable, IsKept
  <2> QED
    BY <2>1, <2>2
<1>2. CASE Quit \/ Crash
  BY <1>2 DEF Quit, Crash, Ended, NoOrphans, Forgotten, SavedSoFar, Durable, Loaded, Handler
<1>3. CASE OpenForm \/ CloseForm
  <2>1. /\ stage = "idle" /\ running
        /\ UNCHANGED <<running, file, chain, mem, unread, unloaded, stage, left, refused, unsaved>>
    BY <1>3 DEF OpenForm, CloseForm, Handler, history
  <2> QED
    BY <2>1 DEF NoOrphans, Forgotten, SavedSoFar, Durable, Loaded, Handler
<1>4. CASE AddConnection \/ Import
  <2>1. \A m \in mem : m \in mem'
    BY <1>4 DEF AddConnection, Import, Adds
  <2>2. /\ stage = "idle" /\ stage' = "begin"
        /\ UNCHANGED <<running, file, chain, unloaded, refused>>
    BY <1>4 DEF AddConnection, Import, Adds, Handler, history
  <2>3. Forgotten'
    BY <2>1, <2>2 DEF Forgotten, Loaded
  <2> QED
    BY <2>2, <2>3 DEF NoOrphans, SavedSoFar, Durable, Handler
<1>5. CASE EditConnection
  <2>1. PICK m \in mem, secret \in [Secrets -> Values] :
          mem' = (mem \ {m}) \cup {[m EXCEPT !.secret = secret]}
    BY <1>5 DEF EditConnection
  <2> DEFINE new == [m EXCEPT !.secret = secret]
  <2>2. \A n \in mem : \E o \in mem' : o.id = n.id
    <3>1. new \in mem' /\ new.id = m.id
      BY <2>1 DEF IInv, TypeOK, Book!Facts
    <3>2. \A n \in mem : n # m => n \in mem'
      BY <2>1
    <3> QED
      BY <3>1, <3>2
  <2> QED
    BY <1>5, <2>2 DEF EditConnection, Handler, NoOrphans, Forgotten, SavedSoFar, Durable, Loaded
<1>6. CASE RemoveConnection
  <2>1. PICK m \in mem : /\ mem' = mem \ {m}
                         /\ left' = IF unloaded THEN {} ELSE {m.id} \X Secrets
    BY <1>6 DEF RemoveConnection
  <2>2. \A k \in Keys : k[1] = m.id /\ ~unloaded => k \in left'
    BY <2>1 DEF Keys
  <2>3. Forgotten'
    BY <1>6, <2>1, <2>2 DEF RemoveConnection, Handler, Forgotten, Loaded
  <2> QED
    BY <1>6, <2>3 DEF RemoveConnection, Handler, NoOrphans, SavedSoFar, Durable
<1>7. CASE Forget
  <2>1. CASE left = {}
    BY <1>7, <2>1 DEF Forget, NoOrphans, Forgotten, SavedSoFar, Durable, Loaded, Handler
  <2>2. CASE left # {}
    <3>1. PICK k \in left :
            /\ left' = left \ {k}
            /\ \/ chain' = [chain EXCEPT ![k] = NoSecret] /\ refused' = refused \ {k}
               \/ refused' = refused \cup {k} /\ UNCHANGED chain
      BY <1>7, <2>2 DEF Forget
    <3>2. \A j \in Keys : \/ chain'[j] = NoSecret \/ j \in refused'
                          \/ j # k /\ chain'[j] = chain[j] /\ (j \in refused => j \in refused')
      BY <3>1 DEF IInv, TypeOK
    <3>3. UNCHANGED <<running, file, mem, unloaded, stage>>
      BY <1>7, <2>2 DEF Forget
    <3>4. NoOrphans'
      BY <3>2, <3>3 DEF NoOrphans
    <3>5. Forgotten'
      BY <3>1, <3>2, <3>3 DEF Forgotten, Loaded
    <3> QED
      BY <1>7, <3>3, <3>4, <3>5 DEF Forget, SavedSoFar, Durable, Handler
  <2> QED
    BY <2>1, <2>2
<1>8. CASE BeginSave \/ WriteTemp
  BY <1>8 DEF BeginSave, WriteTemp, NoOrphans, Forgotten, SavedSoFar, Durable, Loaded, Handler
<1>9. CASE Rename
  <2> DEFINE refuses == file' = file /\ stage' = "idle"
             renames == /\ file' = temp /\ stage' = "secrets" /\ unsaved' = FALSE
                        /\ left' = {<<m.id, s>> : m \in mem, s \in Secrets}
  <2>1. CASE refuses
    BY <1>9, <2>1 DEF Rename, NoOrphans, Forgotten, SavedSoFar, Durable, Loaded, Handler
  <2>2. CASE renames
    <3>1. file' = Book!Listed(mem) /\ Loaded /\ stage = "rename"
          /\ UNCHANGED <<chain, refused, mem, unread, running, unloaded>>
      BY <1>9, <2>2 DEF Rename, IInv, AtStage
    <3>2. NoOrphans'
      BY <3>1, ListedIds DEF NoOrphans, Forgotten
    <3>3. Forgotten'
      BY <3>1 DEF Forgotten
    <3>4. SavedSoFar'
      BY <2>2, <3>1 DEF SavedSoFar
    <3> QED
      BY <2>2, <3>2, <3>3, <3>4 DEF Durable, Handler
  <2>3. refuses \/ renames
    BY <1>9 DEF Rename
  <2> HIDE DEF refuses, renames
  <2> QED
    BY <2>1, <2>2, <2>3
<1>10. CASE SyncSecret
  <2>1. /\ stage = "secrets" /\ stage' = "secrets" /\ Unique(mem)
        /\ UNCHANGED <<running, unloaded, file, mem, unsaved>>
        /\ \A m \in mem : m.id # 0
    BY <1>10, StoreAssumption DEF SyncSecret, IInv, AtStage, Numbered, TypeOK, Book!Facts, Ids
  <2>2. PICK k \in left, m \in mem :
          /\ m.id = k[1] /\ left' = left \ {k}
          /\ \/ m.secret[k[2]] = NoSecret /\ k \in unread /\ UNCHANGED <<chain, unread, refused>>
             \/ /\ chain' = [chain EXCEPT ![k] = m.secret[k[2]]]
                /\ unread' = IF m.secret[k[2]] = NoSecret THEN unread ELSE unread \ {k}
                /\ refused' = refused \ {k}
             \/ refused' = refused \cup {k} /\ UNCHANGED <<chain, unread>>
    BY <1>10 DEF SyncSecret, PasswordSync
  <2>3. k \in Keys /\ k = <<m.id, k[2]>> /\ k[2] \in Secrets
    BY <2>2 DEF IInv, TypeOK, Keys
  <2>4. \A j \in Keys : j # k => /\ chain'[j] = chain[j]
                                 /\ j \in refused' <=> j \in refused
                                 /\ j \in unread' <=> j \in unread
    BY <2>2 DEF IInv, TypeOK
  <2>5. \E f \in file : f.id = k[1]
    BY <2>1, <2>2, ListedIds DEF SavedSoFar
  <2>6. NoOrphans'
    BY <2>1, <2>4, <2>5 DEF NoOrphans
  <2>7. Forgotten'
    BY <2>1, <2>2, <2>4 DEF Forgotten, Loaded
  <2>8. \A n \in mem, s \in Secrets : <<n.id, s>> \in left' \/ IsKept(n, s)'
    <3> SUFFICES ASSUME NEW n \in mem, NEW s \in Secrets
                 PROVE  <<n.id, s>> \in left' \/ IsKept(n, s)'
      OBVIOUS
    <3>1. <<n.id, s>> \in Keys
      BY DEF IInv, TypeOK, Book!Facts, Keys
    <3>2. CASE <<n.id, s>> # k
      BY <2>1, <2>2, <2>4, <3>1, <3>2 DEF SavedSoFar, IsKept
    <3>3. CASE <<n.id, s>> = k
      <4>1. n = m /\ s = k[2]
        BY <2>1, <2>3, <3>3 DEF Unique
      <4>2. chain' = [chain EXCEPT ![k] = m.secret[s]] => chain'[k] = m.secret[s]
        BY <2>3 DEF IInv, TypeOK
      <4> QED
        BY <2>2, <3>3, <4>1, <4>2 DEF IsKept
    <3> QED
      BY <3>2, <3>3
  <2> QED
    BY <2>1, <2>6, <2>7, <2>8 DEF SavedSoFar, Durable, Handler
<1>11. CASE Saved
  <2>1. {f.who : f \in file} = {m.who : m \in mem}
    BY <1>11, ListedIds DEF Saved, SavedSoFar
  <2> QED
    BY <1>11, <2>1 DEF Saved, NoOrphans, Forgotten, SavedSoFar, Durable, Loaded, IsKept
<1>12. CASE Break
  BY <1>12 DEF Break, NoOrphans, Forgotten, SavedSoFar, Durable, Loaded, Handler, IInv, AtStage
<1>13. CASE WriteByHand
  BY <1>13 DEF WriteByHand, NoOrphans, Forgotten, SavedSoFar, Durable, Loaded, Handler, IInv, AtStage
<1>14. CASE UNCHANGED vars
  BY <1>14 DEF vars, NoOrphans, Forgotten, SavedSoFar, Durable, Loaded, Handler, IsKept
<1> QED
  BY <1>1, <1>2, <1>3, <1>4, <1>5, <1>6, <1>7, <1>8, <1>9, <1>10, <1>11, <1>12, <1>13, <1>14 DEF Next

LEMMA AlwaysKept == Spec => []Kept
<1>1. IInv /\ Kept /\ [Next]_vars => Kept'
  BY KeptStep
<1> QED
  BY InitKept, Inductive, <1>1, PTL DEF Spec

(***************************************************************************)
(* No secret outlives its connection, but for those the keychain would not *)
(* let go of, at whatever moment a save or a removal ends (delete_password *)
(* before save, the file before the secrets).                              *)
(***************************************************************************)
THEOREM NoOrphansCorrect == Spec => []NoOrphans
<1>1. Kept => NoOrphans
  BY DEF Kept
<1> QED
  BY AlwaysKept, <1>1, PTL

(***************************************************************************)
(* What a handler that is through shows is what the next launch finds, but *)
(* for what was refused (save, load, password_sync).                       *)
(***************************************************************************)
THEOREM DurableCorrect == Spec => []Durable
<1>1. Kept => Durable
  BY DEF Kept
<1> QED
  BY AlwaysKept, <1>1, PTL

-----------------------------------------------------------------------------
(* Exports *)

\* What is sorted has a key, so that the order is the same for every page; and
\* no two columns have one name.
Definite ==
    \A j \in Jobs :
       /\ j.sorted => j.keyed
       /\ \A c, d \in DOMAIN j.columns : j.columns[c] = j.columns[d] => c = d

(***************************************************************************)
(* Between two pages the file has the rows before the next page, in an     *)
(* order asked for; what is not paged is read from the start.              *)
(***************************************************************************)
Halfway ==
    /\ job \in Jobs
    /\ progress = "reading" =>
         \/ offset = 0 /\ written = <<>>
         \/ /\ Paged
            /\ \E o \in Orders : offset \in 0..Len(o) /\ written = Lines(SubSeq(o, 1, offset))
    /\ progress = "done" => \E o \in Orders : written = Lines(o)

LEMMA JobIs ==
    ASSUME NEW j \in Jobs
    PROVE  /\ j.by \in {"export", "dump", "query"}
           /\ j.sorted => j.by = "export"
           /\ j.rows \subseteq Nat /\ IsFiniteSet(j.rows)
           /\ \A r \in j.rows : j.rank[r] \in Int
           /\ DOMAIN j.columns \subseteq Nat
           /\ \A i \in DOMAIN j.shown : j.shown[i] \in DOMAIN j.columns
BY ExportAssumption

\* An order has every row once, and no row before one it comes after.
LEMMA OrderIs ==
    ASSUME job \in Jobs, NEW o \in Orders
    PROVE  /\ o \in Seq(job.rows) /\ Len(o) = Cardinality(job.rows) /\ Len(o) \in Nat
           /\ DOMAIN o = 1..Len(o)
           /\ \A i, j \in 1..Len(o) : o[i] = o[j] => i = j
           /\ \A r \in job.rows : \E i \in 1..Len(o) : o[i] = r
           /\ \A i, j \in 1..Len(o) : i < j => ~Precedes(o[j], o[i])
<1> DEFINE R == job.rows
           n == Cardinality(R)
           D == 1..n
<1>1. IsFiniteSet(R) /\ n \in Nat
  BY JobIs, FS_CardinalityType
<1>2. /\ o \in Lists!SetToSeqs(R)
      /\ \A i, j \in DOMAIN o : i < j => ~Precedes(o[j], o[i])
  BY DEF Orders
<1>3. o \in [D -> R] /\ \A i, j \in D : i # j => o[i] # o[j]
  <2>1. Lists!Cardinality(R) = n
    BY Zenon DEF Lists!Cardinality, Cardinality
  <2> QED
    BY <1>2, <2>1 DEF Lists!SetToSeqs
<1> HIDE DEF R
<1>4. o \in Injection(D, R)
  BY <1>3 DEF Injection, IsInjective
<1>5. IsFiniteSet(D) /\ Cardinality(D) = n
  BY <1>1, FS_Interval
<1>6. o \in Surjection(D, R)
  BY <1>1, <1>4, <1>5, FS_Injection
<1>7. \A r \in R : \E i \in D : o[i] = r
  BY <1>6 DEF Surjection
<1>8. o \in Seq(R) /\ Len(o) = n /\ DOMAIN o = D
  BY <1>1, <1>3
<1> QED
  BY <1>1, <1>2, <1>3, <1>7, <1>8 DEF R

\* Of two rows of a table with a key one comes before the other.
LEMMA OneIsFirst ==
    ASSUME job \in Jobs, job.keyed, NEW r \in job.rows, NEW q \in job.rows, r # q
    PROVE  Precedes(r, q) \/ Precedes(q, r)
<1>1. r \in Nat /\ q \in Nat /\ job.rank[r] \in Int /\ job.rank[q] \in Int
  BY JobIs
<1>2. r < q \/ q < r
  BY <1>1
<1>3. job.rank[r] < job.rank[q] \/ job.rank[q] < job.rank[r] \/ job.rank[r] = job.rank[q]
  BY <1>1
<1> QED
  BY <1>2, <1>3 DEF Precedes

\* So there is one order such a table can be read in.
LEMMA OneOrder ==
    ASSUME job \in Jobs, job.keyed, NEW o \in Orders, NEW p \in Orders
    PROVE  o = p
<1> DEFINE n == Len(o)
           Apart == {i \in 1..n : o[i] # p[i]}
<1>1. /\ n \in Nat /\ Len(p) = n /\ o \in Seq(job.rows) /\ p \in Seq(job.rows)
      /\ DOMAIN o = 1..n /\ DOMAIN p = 1..n
      /\ \A i \in 1..n : o[i] \in job.rows /\ p[i] \in job.rows
  <2>1. /\ o \in Seq(job.rows) /\ n = Cardinality(job.rows) /\ n \in Nat /\ DOMAIN o = 1..n
    BY OrderIs
  <2>2. /\ p \in Seq(job.rows) /\ Len(p) = Cardinality(job.rows) /\ DOMAIN p = 1..Len(p)
    BY OrderIs
  <2>3. \A q \in Seq(job.rows) : \A i \in 1..Len(q) : q[i] \in job.rows
    OBVIOUS
  <2> QED
    BY <2>1, <2>2, <2>3
<1>2. /\ \A i, j \in 1..n : o[i] = o[j] => i = j
      /\ \A i, j \in 1..n : p[i] = p[j] => i = j
      /\ \A r \in job.rows : (\E i \in 1..n : o[i] = r) /\ \E i \in 1..n : p[i] = r
      /\ \A i, j \in 1..n : i < j => ~Precedes(o[j], o[i]) /\ ~Precedes(p[j], p[i])
  BY <1>1, OrderIs
<1>3. CASE Apart # {}
  <2>1. Apart \subseteq Nat
    OBVIOUS
  <2>2. PICK i \in Apart : \A j \in Apart : ~ (j < i)
    <3> DEFINE R == OpToRel(<, Nat)
    <3>1. IsWellFoundedOn(R, Nat)
      BY NatLessThanWellFounded, Zenon
    <3>2. \A x, y \in Nat : x < y => <<x, y>> \in R
      BY DEF OpToRel
    <3> HIDE DEF R, Apart
    <3>3. \E i \in Apart : \A j \in Apart : ~ (<<j, i>> \in R)
      BY <1>3, <2>1, <3>1, WFMin, Zenon
    <3> QED
      BY <2>1, <3>2, <3>3, Zenon
  <2>3. \A j \in 1..n : j < i => o[j] = p[j]
    BY <2>2
  <2>4. i \in 1..n /\ o[i] # p[i]
    OBVIOUS
  <2> HIDE DEF n, Apart
  <2>5. PICK j \in 1..n : p[j] = o[i]
    BY <1>1, <1>2, <2>4
  <2>6. PICK k \in 1..n : o[k] = p[i]
    BY <1>1, <1>2, <2>4
  <2>7. i < j
    <3>1. CASE j < i
      BY <1>2, <2>3, <2>4, <2>5, <3>1
    <3>2. CASE j = i
      BY <2>4, <2>5, <3>2
    <3> QED
      BY <1>1, <2>4, <3>1, <3>2
  <2>8. i < k
    <3>1. CASE k < i
      BY <1>2, <2>3, <2>4, <2>6, <3>1
    <3>2. CASE k = i
      BY <2>4, <2>6, <3>2
    <3> QED
      BY <1>1, <2>4, <3>1, <3>2
  <2>9. ~Precedes(o[i], p[i]) /\ ~Precedes(p[i], o[i])
    BY <1>2, <2>4, <2>5, <2>6, <2>7, <2>8
  <2> QED
    BY <1>1, <2>4, <2>9, OneIsFirst
<1>4. CASE Apart = {}
  <2>1. \A i \in 1..n : o[i] = p[i]
    BY <1>4
  <2> QED
    BY <1>1, <2>1
<1> QED
  BY <1>3, <1>4

-----------------------------------------------------------------------------
(* The writer *)

LEMMA LinesAre ==
    ASSUME NEW S, NEW s \in Seq(S)
    PROVE  /\ DOMAIN Lines(s) = 1..Len(s) /\ Lines(s) \in Seq({Line(r) : r \in S})
           /\ Len(Lines(s)) = Len(s)
           /\ \A i \in 1..Len(s) : Lines(s)[i] = Line(s[i])
<1>1. Len(s) \in Nat /\ DOMAIN s = 1..Len(s) /\ \A i \in 1..Len(s) : s[i] \in S
  OBVIOUS
<1>2. Lines(s) = [i \in 1..Len(s) |-> Line(s[i])]
  BY <1>1 DEF Lines
<1> QED
  BY <1>1, <1>2

\* A page goes after the rows before it.
LEMMA PageAfter ==
    ASSUME NEW S, NEW o \in Seq(S), NEW b \in 0..Len(o), NEW a \in 0..b
    PROVE  Lines(SubSeq(o, 1, a)) \o Lines(SubSeq(o, a + 1, b)) = Lines(SubSeq(o, 1, b))
<1> DEFINE s == SubSeq(o, 1, a)
           t == SubSeq(o, a + 1, b)
           u == SubSeq(o, 1, b)
<1>1. /\ Len(o) \in Nat /\ a \in Nat /\ b \in Nat /\ a <= b /\ b <= Len(o)
      /\ \A i \in 1..Len(o) : o[i] \in S
  OBVIOUS
<1>2. s \in Seq(S) /\ Len(s) = a /\ \A i \in 1..a : s[i] = o[i]
  BY <1>1
<1>3. t \in Seq(S) /\ Len(t) = b - a /\ \A i \in 1..b - a : t[i] = o[a + i]
  BY <1>1
<1>4. u \in Seq(S) /\ Len(u) = b /\ \A i \in 1..b : u[i] = o[i]
  BY <1>1
<1> HIDE DEF s, t, u
<1> DEFINE T == {Line(r) : r \in S}
           x == Lines(s)
           y == Lines(t)
           z == Lines(u)
<1>5. x \in Seq(T) /\ Len(x) = a /\ \A i \in 1..a : x[i] = Line(o[i])
  <2>1. x \in Seq(T) /\ Len(x) = Len(s) /\ \A i \in 1..Len(s) : x[i] = Line(s[i])
    BY <1>2, LinesAre, Zenon
  <2> HIDE DEF x, T
  <2> QED
    BY <2>1, <1>2
<1>6. y \in Seq(T) /\ Len(y) = b - a /\ \A i \in 1..b - a : y[i] = Line(o[a + i])
  <2>1. y \in Seq(T) /\ Len(y) = Len(t) /\ \A i \in 1..Len(t) : y[i] = Line(t[i])
    BY <1>3, LinesAre, Zenon
  <2> HIDE DEF y, T
  <2> QED
    BY <2>1, <1>3
<1>7. z \in Seq(T) /\ Len(z) = b /\ \A i \in 1..b : z[i] = Line(o[i])
  <2>1. z \in Seq(T) /\ Len(z) = Len(u) /\ \A i \in 1..Len(u) : z[i] = Line(u[i])
    BY <1>4, LinesAre, Zenon
  <2> HIDE DEF z, T
  <2> QED
    BY <2>1, <1>4
<1> HIDE DEF x, y, z, T
<1>8. x \o y \in Seq(T) /\ Len(x \o y) = b
  <2>1. x \in Seq(T) /\ y \in Seq(T)
    BY <1>5, <1>6
  <2>2. x \o y \in Seq(T) /\ Len(x \o y) = Len(x) + Len(y)
    BY <2>1
  <2>3. Len(x) + Len(y) = b
    BY <1>1, <1>5, <1>6
  <2> QED
    BY <2>2, <2>3
<1>9. ASSUME NEW i \in 1..b PROVE (x \o y)[i] = z[i]
  <2>1. CASE i <= a
    <3>1. i \in 1..a
      BY <2>1, <1>1
    <3>2. (x \o y)[i] = x[i]
      BY <3>1, <1>1, <1>5, <1>6
    <3> QED
      BY <3>1, <3>2, <1>5, <1>7
  <2>2. CASE i > a
    <3>1. i - a \in 1..b - a /\ a + (i - a) = i
      BY <2>2, <1>1
    <3>2. (x \o y)[i] = y[i - a]
      BY <2>2, <3>1, <1>1, <1>5, <1>6
    <3> QED
      BY <3>1, <3>2, <1>6, <1>7
  <2>3. i <= a \/ i > a
    BY <1>1
  <2> QED
    BY <2>1, <2>2, <2>3, Zenon
<1>10. x \o y = z
  BY <1>7, <1>8, <1>9
<1> QED
  BY <1>10 DEF s, t, u, x, y, z

\* Looked for by name, a column is found where it is.
LEMMA PicksAre ==
    ASSUME Definite, job \in Jobs
    PROVE  Picks = IF job.by = "dump" THEN [c \in DOMAIN job.columns |-> c]
                   ELSE [i \in DOMAIN job.shown |-> job.shown[i]]
<1> DEFINE Named(i) == {c \in DOMAIN job.columns : job.columns[c] = job.columns[job.shown[i]]}
<1>1. ASSUME NEW i \in DOMAIN job.shown
      PROVE  Min(Named(i)) = job.shown[i]
  <2>1. job.shown[i] \in DOMAIN job.columns /\ job.shown[i] \in Nat
    BY JobIs
  <2>2. Named(i) = {job.shown[i]}
    BY <2>1 DEF Definite
  <2> DEFINE c == job.shown[i]
  <2> HIDE DEF c
  <2>3. c \in Nat
    BY <2>1 DEF c
  <2>4. Min({c}) = c
    BY <2>3 DEF Min
  <2> QED
    BY <2>2, <2>4 DEF c
<1>2. [i \in DOMAIN job.shown |-> Min(Named(i))] = [i \in DOMAIN job.shown |-> job.shown[i]]
  BY <1>1
<1> QED
  BY <1>2 DEF Picks

LEMMA LinesAreTheTable ==
    ASSUME Definite, job \in Jobs, NEW o \in Orders
    PROVE  Lines(o) = [i \in DOMAIN o |->
             IF job.by = "dump" THEN [c \in DOMAIN job.columns |-> <<o[i], c>>]
             ELSE [c \in DOMAIN job.shown |-> <<o[i], job.shown[c]>>]]
<1>1. ASSUME NEW r
      PROVE  Line(r) = IF job.by = "dump" THEN [c \in DOMAIN job.columns |-> <<r, c>>]
                       ELSE [c \in DOMAIN job.shown |-> <<r, job.shown[c]>>]
  <2>1. CASE job.by = "dump"
    <3>1. Picks = [c \in DOMAIN job.columns |-> c]
      BY <2>1, PicksAre
    <3> QED
      BY <2>1, <3>1 DEF Line
  <2>2. CASE job.by # "dump"
    <3>1. Picks = [i \in DOMAIN job.shown |-> job.shown[i]]
      BY <2>2, PicksAre
    <3> QED
      BY <2>2, <3>1 DEF Line
  <2> QED
    BY <2>1, <2>2
<1> QED
  BY <1>1 DEF Lines

-----------------------------------------------------------------------------
(* Reading *)

\* What is paged has a key.
LEMMA PagedHasKey ==
    ASSUME Definite, job \in Jobs, Paged
    PROVE  job.keyed
<1>1. job.by \in {"export", "dump", "query"} /\ (job.sorted => job.keyed)
  BY JobIs DEF Definite
<1> QED
  BY <1>1 DEF Paged

LEMMA ReadHolds ==
    ASSUME Definite, Halfway, Read
    PROVE  Halfway'
<1>1. job \in Jobs /\ progress = "reading" /\ job' = job
  BY DEF Halfway, Read
<1>2. Orders' = Orders /\ Paged' = Paged /\ \A s : Lines(s)' = Lines(s)
  BY <1>1 DEF Orders, Precedes, Paged, Lines, Line, Picks
<1>3. PICK o \in Orders :
         /\ written' = written \o Lines(Page(o))
         /\ offset' = offset + Len(Page(o))
         /\ progress' = IF offset' < Len(o) /\ Page(o) # <<>> THEN "reading" ELSE "done"
  BY DEF Read
<1>4. /\ o \in Seq(job.rows) /\ Len(o) \in Nat
      /\ SubSeq(o, 1, 0) = <<>> /\ Lines(<<>>) = <<>>
  <2>1. o \in Seq(job.rows) /\ Len(o) \in Nat
    BY <1>1, OrderIs
  <2> QED
    BY <2>1 DEF Lines
<1>5. offset \in 0..Len(o) /\ written = Lines(SubSeq(o, 1, offset)) /\ (Paged \/ offset = 0)
  <2>1. CASE offset = 0 /\ written = <<>>
    <3>1. offset \in 0..Len(o) /\ written = Lines(<<>>)
      BY <2>1, <1>4
    <3>2. SubSeq(o, 1, offset) = <<>>
      BY <2>1, <1>4
    <3> QED
      BY <3>1, <3>2, <2>1, Zenon
  <2>2. CASE Paged /\ \E p \in Orders : offset \in 0..Len(p) /\ written = Lines(SubSeq(p, 1, offset))
    BY <2>2, <1>1, PagedHasKey, OneOrder
  <2> QED
    BY <2>1, <2>2, <1>1 DEF Halfway
<1> DEFINE end == IF Paged THEN Min({Len(o), offset + PAGE}) ELSE Len(o)
<1>6. PAGE \in Nat /\ PAGE >= 1
  BY ExportAssumption
<1>7. end \in offset..Len(o) /\ (offset < Len(o) => offset < end)
  <2> DEFINE l == Len(o)
             m == offset + PAGE
  <2>1. l \in Nat /\ m \in Nat /\ offset \in 0..l /\ offset < m
    BY <1>4, <1>5, <1>6
  <2>3. end = IF Paged THEN Min({l, m}) ELSE l
    OBVIOUS
  <2> HIDE DEF l, m, end
  <2>2. Min({l, m}) \in {l, m}
    <3>1. \E x \in {l, m} : \A y \in {l, m} : x <= y
      BY <2>1
    <3> QED
      BY <3>1 DEF Min
  <2>4. end \in {l, m} /\ end <= l
    <3>1. Min({l, m}) <= l
      <4>1. \E x \in {l, m} : \A y \in {l, m} : x <= y
        BY <2>1
      <4> QED
        BY <4>1 DEF Min
    <3>2. l <= l
      BY <2>1
    <3> QED
      BY <2>2, <2>3, <3>1, <3>2, Zenon
  <2>5. end \in offset..l /\ (offset < l => offset < end)
    BY <2>1, <2>4
  <2> QED
    BY <2>5 DEF l
<1>8. Page(o) = SubSeq(o, offset + 1, end) /\ Len(Page(o)) = end - offset
  <2>1. Page(o) = SubSeq(o, offset + 1, end)
    BY DEF Page
  <2> HIDE DEF end
  <2> QED
    BY <2>1, <1>4, <1>5, <1>7
<1>10. ~Paged => end = Len(o)
  OBVIOUS
<1> HIDE DEF end
<1>11. written' = Lines(SubSeq(o, 1, end)) /\ offset' = end
  <2>1. end \in 0..Len(o) /\ offset \in 0..end
    BY <1>4, <1>5, <1>7
  <2>2. offset' = end
    BY <1>3, <1>8, <2>1
  <2>3. Lines(SubSeq(o, 1, offset)) \o Lines(SubSeq(o, offset + 1, end)) = Lines(SubSeq(o, 1, end))
    BY <1>4, <2>1, PageAfter
  <2> QED
    BY <1>3, <1>5, <1>8, <2>2, <2>3
<1>12. CASE end < Len(o)
  <2>1. end \in 0..Len(o) /\ Paged
    BY <1>4, <1>5, <1>7, <1>10, <1>12
  <2>2. Len(Page(o)) # 0
    BY <1>4, <1>5, <1>7, <1>8, <1>12
  <2>3. progress' = "reading"
    BY <1>3, <1>11, <1>12, <2>2
  <2>4. (Paged /\ \E q \in Orders : offset \in 0..Len(q) /\ written = Lines(SubSeq(q, 1, offset)))'
    BY <1>2, <1>11, <2>1
  <2> QED
    BY <1>1, <2>3, <2>4 DEF Halfway
<1>13. CASE end = Len(o)
  <2>1. SubSeq(o, 1, end) = o
    BY <1>4, <1>13
  <2>2. progress' = "done"
    BY <1>3, <1>4, <1>11, <1>13
  <2>3. (\E q \in Orders : written = Lines(q))'
    BY <1>2, <1>11, <2>1
  <2> QED
    BY <1>1, <2>2, <2>3 DEF Halfway
<1> QED
  BY <1>4, <1>5, <1>7, <1>12, <1>13

LEMMA HalfwayStep ==
    ASSUME Definite, Halfway, [ExportNext]_exportVars
    PROVE  Halfway'
<1>1. CASE Read
  BY <1>1, ReadHolds
<1>2. CASE Fail
  BY <1>2 DEF Halfway, Fail
<1>3. CASE UNCHANGED exportVars
  <2>1. job' = job /\ offset' = offset /\ written' = written /\ progress' = progress
    BY <1>3 DEF exportVars
  <2>2. Orders' = Orders /\ Paged' = Paged /\ \A s : Lines(s)' = Lines(s)
    BY <2>1 DEF Orders, Precedes, Paged, Lines, Line, Picks
  <2>3. (\E o \in Orders : written = Lines(o))' <=> \E o \in Orders : written = Lines(o)
    BY <2>1, <2>2
  <2>4. (\E o \in Orders : offset \in 0..Len(o) /\ written = Lines(SubSeq(o, 1, offset)))'
        <=> \E o \in Orders : offset \in 0..Len(o) /\ written = Lines(SubSeq(o, 1, offset))
    BY <2>1, <2>2
  <2> QED
    BY <2>1, <2>2, <2>3, <2>4 DEF Halfway
<1> QED
  BY <1>1, <1>2, <1>3 DEF ExportNext

\* A file that is done has every row once, in an order asked for, with the columns
\* of the grid in the grid's order, for any table, page and number of pages: as
\* long as what is sorted has a key, the end of a page neither loses nor repeats a
\* row (commands::export_table, export_query, dump::write_rows).
THEOREM TableCorrect == Definite => (ExportSpec => []FileIsTheTable)
<1> SUFFICES ASSUME Definite PROVE ExportSpec => []FileIsTheTable
  OBVIOUS
<1>1. ExportInit => Halfway
  BY DEF ExportInit, Halfway
<1>2. Halfway /\ [ExportNext]_exportVars => Halfway'
  BY HalfwayStep
<1>3. Halfway => FileIsTheTable
  BY LinesAreTheTable DEF Halfway, FileIsTheTable
<1> QED
  BY <1>1, <1>2, <1>3, PTL DEF ExportSpec
================================================================================
