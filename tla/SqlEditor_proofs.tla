---------------------------- MODULE SqlEditor_proofs ----------------------------
(***************************************************************************)
(* Theorems about SqlEditor, for any characters, texts and limits: the     *)
(* selection, and every one that undo or redo can bring back, lies inside  *)
(* its text, so that no edit cuts a text where it has no character; and    *)
(* undo and redo keep to the line of texts there were (Timeline).          *)
(***************************************************************************)
EXTENDS SqlEditor, FiniteSetTheorems, SequenceTheorems, TLAPS

\* A text with a selection in it.
Kept == {s \in Snapshots : s.from <= s.to /\ s.to <= Len(s.text)}

BufferOK ==
    /\ Snapshot \in Kept
    /\ undo \in Seq(Kept) /\ redo \in Seq(Kept)
    /\ Len(undo) + Len(redo) <= UNDO_LIMIT

PopupOK == popup = <<>> \/ popup \in Nat \X Nat

IInv == BufferOK /\ PopupOK /\ \A n \in names : n \in Texts

\* The texts behind, the one there is, and those ahead.
PastOf(u, t, r) ==
    [i \in 1..Len(u) + 1 + Len(r) |->
        IF i <= Len(u) THEN u[i].text
        ELSE IF i = Len(u) + 1 THEN t
        ELSE r[Len(u) + Len(r) + 2 - i].text]

-----------------------------------------------------------------------------
(* The least and the greatest of some places *)

LEMMA MinIsLeast ==
    ASSUME NEW S \in SUBSET Nat, NEW n \in Nat, \A x \in S : x <= n, S # {}
    PROVE  Min(S) \in S /\ \A x \in S : Min(S) <= x
<1> DEFINE Below(x) == {y \in S : y < x}
           Chain == {Below(x) : x \in S}
<1>1. IsFiniteSet(S)
  BY FS_BoundedSetOfNaturals
<1>2. IsWellFoundedOn(StrictSubsetOrdering(S), SUBSET S)
  BY <1>1, FS_StrictSubsetOrderingWellFounded, FS_FiniteSubsetsOfFinite
<1>3. Chain \in SUBSET (SUBSET S) /\ Chain # {}
  OBVIOUS
<1>4. PICK cut \in Chain : \A other \in Chain : <<other, cut>> \notin StrictSubsetOrdering(S)
  BY <1>2, <1>3, WFMin
<1>5. PICK x \in S : cut = Below(x)
  BY <1>4
<1>6. ASSUME NEW y \in S, y < x
      PROVE  FALSE
  <2>1. Below(y) \in Chain
    OBVIOUS
  <2>2. \A z \in Below(y) : z \in Below(x)
    BY <1>6
  <2>3. y \in Below(x) /\ y \notin Below(y)
    BY <1>6
  <2> QED
    BY <2>1, <2>2, <2>3, <1>3, <1>4, <1>5 DEF StrictSubsetOrdering
<1>7. \A y \in S : x <= y
  BY <1>6
<1> QED
  BY <1>7 DEF Min

\* The greatest of S is what the least of its mirror image mirrors.
LEMMA MaxIsGreatest ==
    ASSUME NEW S \in SUBSET Nat, NEW n \in Nat, \A x \in S : x <= n, S # {}
    PROVE  Max(S) \in S /\ \A x \in S : x <= Max(S)
<1> DEFINE M == {y \in 0..n : n - y \in S}
<1>1. \A x \in S : x \in 0..n /\ n - x \in 0..n /\ n - (n - x) = x
  OBVIOUS
<1>2. \A x \in S : n - x \in M
  BY <1>1
<1>3. M \in SUBSET Nat /\ M # {} /\ \A y \in M : y <= n
  <2>1. PICK x \in S : TRUE
    OBVIOUS
  <2>2. n - x \in M
    BY <1>2, <2>1
  <2>3. M \subseteq 0..n
    OBVIOUS
  <2> HIDE DEF M
  <2> QED
    BY <2>2, <2>3
<1>4. Min(M) \in M /\ \A y \in M : Min(M) <= y
  BY <1>3, MinIsLeast
<1> DEFINE x == n - Min(M)
<1>5. Min(M) \in 0..n /\ x \in S
  BY <1>4
<1>6. \A y \in S : Min(M) <= n - y
  BY <1>2, <1>4
<1> DEFINE m == Min(M)
<1>7. \A y \in S : y <= x
  <2> HIDE DEF m
  <2>1. m \in 0..n /\ \A y \in S : m <= n - y
    BY <1>5, <1>6 DEF m
  <2> SUFFICES ASSUME NEW y \in S PROVE y <= n - m
    BY DEF m
  <2> QED
    BY <2>1
<1>8. \E z \in S : \A y \in S : z >= y
  <2> HIDE DEF x
  <2>1. x \in Nat
    BY <1>5
  <2> QED
    BY <1>5, <1>7, <2>1
<1>9. Max(S) \in S /\ \A y \in S : Max(S) >= y
  BY <1>8 DEF Max
<1> QED
  BY <1>9

\* Where a property of 0..n fails, it fails first.
LEMMA LeastOf ==
    ASSUME NEW n \in Nat, NEW S \in SUBSET (0..n), S # {}
    PROVE  \E m \in S : \A k \in S : m <= k
<1>1. S \in SUBSET Nat /\ \A x \in S : x <= n
  OBVIOUS
<1> QED
  BY <1>1, MinIsLeast

LEMMA GreatestOf ==
    ASSUME NEW n \in Nat, NEW S \in SUBSET (0..n), S # {}
    PROVE  \E m \in S : \A k \in S : k <= m
<1>1. S \in SUBSET Nat /\ \A x \in S : x <= n
  OBVIOUS
<1> QED
  BY <1>1, MaxIsGreatest

-----------------------------------------------------------------------------
(* Texts *)

LEMMA TextIs ==
    ASSUME NEW t \in Texts
    PROVE  Len(t) \in Nat /\ DOMAIN t = 1..Len(t) /\ \A i \in 1..Len(t) : t[i] \in Chars
BY LenProperties DEF Texts

LEMMA CutIs ==
    ASSUME NEW t \in Texts, NEW a \in Nat, NEW b \in 0..Len(t)
    PROVE  /\ SubSeq(t, a + 1, b) \in Texts
           /\ Len(SubSeq(t, a + 1, b)) = IF a <= b THEN b - a ELSE 0
           /\ \A i \in 1..b - a : SubSeq(t, a + 1, b)[i] = t[a + i]
<1>1. Len(t) \in Nat /\ \A i \in 1..Len(t) : t[i] \in Chars
  BY TextIs
<1>2. a + 1 \in Int /\ b \in Int /\ \A i \in a + 1..b : t[i] \in Chars
  BY <1>1
<1>3. /\ SubSeq(t, a + 1, b) \in Seq(Chars)
      /\ Len(SubSeq(t, a + 1, b)) = IF a + 1 <= b THEN b - (a + 1) + 1 ELSE 0
      /\ \A i \in 1..b - (a + 1) + 1 : SubSeq(t, a + 1, b)[i] = t[a + 1 + i - 1]
  BY <1>2, SubSeqProperties, Z3
<1>4. (IF a + 1 <= b THEN b - (a + 1) + 1 ELSE 0) = IF a <= b THEN b - a ELSE 0
  BY <1>1
<1>5. \A i \in 1..b - a : a + 1 + i - 1 = a + i /\ i \in 1..b - (a + 1) + 1
  BY <1>1
<1> QED
  BY <1>3, <1>4, <1>5 DEF Texts

LEMMA BeforeIs ==
    ASSUME NEW t \in Texts, NEW k \in Places(t)
    PROVE  Before(t, k) \in Texts /\ Len(Before(t, k)) = k
<1>1. Len(t) \in Nat /\ 0 \in Nat /\ k \in 0..Len(t) /\ 0 + 1 = 1 /\ k - 0 = k /\ 0 <= k
  BY TextIs DEF Places
<1>2. SubSeq(t, 0 + 1, k) \in Texts /\ Len(SubSeq(t, 0 + 1, k)) = k
  BY <1>1, CutIs
<1> QED
  BY <1>1, <1>2 DEF Before

LEMMA AfterIs ==
    ASSUME NEW t \in Texts, NEW k \in Nat
    PROVE  /\ After(t, k) \in Texts
           /\ Len(After(t, k)) = IF k <= Len(t) THEN Len(t) - k ELSE 0
           /\ \A i \in 1..Len(t) - k : After(t, k)[i] = t[k + i]
<1>1. Len(t) \in Nat /\ Len(t) \in 0..Len(t)
  BY TextIs
<1> QED
  BY <1>1, CutIs DEF After

LEMMA JoinIs ==
    ASSUME NEW s \in Texts, NEW t \in Texts
    PROVE  s \o t \in Texts /\ Len(s \o t) = Len(s) + Len(t)
BY ConcatProperties DEF Texts

LEMMA OneIs ==
    ASSUME NEW c \in Chars
    PROVE  <<c>> \in Texts /\ Len(<<c>>) = 1
BY DEF Texts

LEMMA NoneIs == <<>> \in Texts /\ Len(<<>>) = 0
BY DEF Texts

LEMMA SpliceIs ==
    ASSUME NEW t \in Texts, NEW b \in Places(t), NEW a \in 0..b, NEW new \in Texts
    PROVE  /\ Splice(t, a, b, new) \in Texts
           /\ Len(Splice(t, a, b, new)) = a + Len(new) + (Len(t) - b)
<1>1. Len(t) \in Nat /\ Len(new) \in Nat /\ a \in Places(t) /\ b \in Nat /\ b <= Len(t)
  BY TextIs DEF Places
<1>2. Before(t, a) \in Texts /\ Len(Before(t, a)) = a
  BY <1>1, BeforeIs
<1>3. After(t, b) \in Texts /\ Len(After(t, b)) = Len(t) - b
  BY <1>1, AfterIs
<1>4. Before(t, a) \o new \in Texts /\ Len(Before(t, a) \o new) = a + Len(new)
  BY <1>2, JoinIs
<1>5. /\ (Before(t, a) \o new) \o After(t, b) \in Texts
      /\ Len((Before(t, a) \o new) \o After(t, b)) = a + Len(new) + (Len(t) - b)
  BY <1>3, <1>4, JoinIs
<1> QED
  BY <1>5 DEF Splice

LEMMA LineStartIs ==
    ASSUME NEW t \in Texts, NEW k \in Places(t)
    PROVE  LineStart(t, k) \in 0..k
<1> DEFINE S == {i \in 0..k : i = 0 \/ t[i] = NL}
<1>1. k \in Nat /\ S \in SUBSET Nat /\ (\A x \in S : x <= k) /\ S # {}
  BY TextIs DEF Places
<1>2. Max(S) \in S
  BY <1>1, MaxIsGreatest
<1> QED
  BY <1>2 DEF LineStart

LEMMA LineEndIs ==
    ASSUME NEW t \in Texts, NEW k \in Places(t)
    PROVE  LineEnd(t, k) \in k..Len(t)
<1> DEFINE S == {i \in k..Len(t) : i = Len(t) \/ t[i + 1] = NL}
<1>1. Len(t) \in Nat /\ k \in 0..Len(t)
  BY TextIs DEF Places
<1>2. S \in SUBSET Nat /\ (\A x \in S : x <= Len(t)) /\ S # {}
  BY <1>1
<1>3. Min(S) \in S
  BY <1>1, <1>2, MinIsLeast
<1> QED
  BY <1>3 DEF LineEnd

LEMMA PrevWordIs ==
    ASSUME NEW t \in Texts, NEW k \in Places(t)
    PROVE  PrevWord(t, k) \in 0..k
<1> DEFINE inWord == {i \in 1..k : ~IsSpace(t[i])}
           last == Max(inWord)
           S == {i \in 0..last - 1 : \A j \in i + 1..last : SameClass(t[j], t[last])}
<1>1. k \in Nat
  BY TextIs DEF Places
<1>2. SUFFICES ASSUME inWord # {} PROVE Min(S) \in 0..k
  BY <1>1 DEF PrevWord
<1>3. last \in 1..k
  <2>1. inWord \in SUBSET Nat /\ \A x \in inWord : x <= k
    BY <1>1
  <2>2. last \in inWord
    BY <2>1, <1>1, <1>2, MaxIsGreatest
  <2> QED
    BY <2>2
<1> HIDE DEF last
<1>4. last - 1 \in S
  <2>1. \A j \in last - 1 + 1..last : j = last
    BY <1>3
  <2>2. \A j \in last - 1 + 1..last : SameClass(t[j], t[last])
    BY <2>1 DEF SameClass
  <2> QED
    BY <2>2, <1>1, <1>3
<1>5. S \in SUBSET Nat /\ (\A x \in S : x <= k) /\ S # {}
  BY <1>1, <1>3, <1>4
<1>6. Min(S) \in S
  BY <1>1, <1>5, MinIsLeast
<1> QED
  BY <1>1, <1>3, <1>6

LEMMA NextWordIs ==
    ASSUME NEW t \in Texts, NEW k \in Places(t)
    PROVE  NextWord(t, k) \in k..Len(t)
<1> DEFINE inWord == {i \in k + 1..Len(t) : ~IsSpace(t[i])}
           first == Min(inWord)
           S == {i \in first..Len(t) : \A j \in first..i : SameClass(t[j], t[first])}
<1>1. Len(t) \in Nat /\ k \in 0..Len(t)
  BY TextIs DEF Places
<1>2. SUFFICES ASSUME inWord # {} PROVE Max(S) \in k..Len(t)
  BY <1>1 DEF NextWord
<1>3. first \in k + 1..Len(t)
  <2>1. inWord \in SUBSET Nat /\ \A x \in inWord : x <= Len(t)
    BY <1>1
  <2>2. first \in inWord
    BY <2>1, <1>1, <1>2, MinIsLeast
  <2> QED
    BY <2>2
<1> HIDE DEF first
<1>4. first \in S
  <2>1. \A j \in first..first : j = first
    BY <1>1, <1>3
  <2>2. \A j \in first..first : SameClass(t[j], t[first])
    BY <2>1 DEF SameClass
  <2> QED
    BY <2>2, <1>1, <1>3
<1>5. S \in SUBSET Nat /\ (\A x \in S : x <= Len(t)) /\ S # {}
  BY <1>1, <1>3, <1>4
<1>6. Max(S) \in S
  BY <1>1, <1>5, MaxIsGreatest
<1> QED
  BY <1>1, <1>3, <1>6

\* The longest run round a place there is: from the first place to the last that
\* the run reaches.
LEMMA WordAtIs ==
    ASSUME NEW t \in Texts, t # <<>>, NEW k \in Places(t)
    PROVE  WordAt(t, k) \in Places(t) \X Places(t) /\ WordAt(t, k)[1] <= WordAt(t, k)[2]
<1> DEFINE probe == IF k = Len(t) THEN k ELSE k + 1
           Alike(j) == SameClass(t[j], t[probe])
           run == {r \in Places(t) \X Places(t) :
                     r[1] < probe /\ probe <= r[2] /\ \A j \in r[1] + 1..r[2] : Alike(j)}
           Widest(r) == \A other \in run : r[1] <= other[1] /\ r[2] >= other[2]
           A == {a \in 0..probe - 1 : \A j \in a + 1..probe : Alike(j)}
           B == {b \in probe..Len(t) : \A j \in probe..b : Alike(j)}
<1>1. Len(t) \in Nat /\ Len(t) # 0 /\ Places(t) = 0..Len(t)
  BY TextIs, EmptySeq DEF Places, Texts
<1>2. probe \in 1..Len(t)
  BY <1>1
<1>3. \A j : j = probe => Alike(j)
  BY DEF SameClass
<1>4. WordAt(t, k) = CHOOSE r \in run : Widest(r)
  BY DEF WordAt
<1> HIDE DEF probe, Alike
<1>5. probe - 1 \in A /\ probe \in B
  BY <1>1, <1>2, <1>3
<1>6. A \in SUBSET Nat /\ B \in SUBSET Nat /\ (\A x \in A : x <= Len(t)) /\ (\A x \in B : x <= Len(t))
  BY <1>1, <1>2
<1>7. Min(A) \in A /\ (\A x \in A : Min(A) <= x) /\ Max(B) \in B /\ \A x \in B : x <= Max(B)
  BY <1>1, <1>5, <1>6, MinIsLeast, MaxIsGreatest
<1> DEFINE r0 == <<Min(A), Max(B)>>
<1>8. \A r \in run : r[1] \in A /\ r[2] \in B
  BY <1>1, <1>2
<1>9. r0 \in run
  <2> DEFINE a == Min(A)
             b == Max(B)
  <2>1. a \in A /\ b \in B
    BY <1>7
  <2> HIDE DEF a, b
  <2>2. a \in 0..probe - 1 /\ b \in probe..Len(t)
    BY <2>1
  <2>3. \A j \in a + 1..b : Alike(j)
    <3> SUFFICES ASSUME NEW j \in a + 1..b PROVE Alike(j)
      OBVIOUS
    <3>1. j \in a + 1..probe \/ j \in probe..b
      BY <1>1, <1>2, <2>2
    <3> QED
      BY <3>1, <2>1
  <2>4. <<a, b>> \in run
    BY <2>2, <2>3, <1>1, <1>2
  <2> QED
    BY <2>4 DEF a, b
<1>10. Widest(r0)
  BY <1>7, <1>8
<1> DEFINE w == CHOOSE r \in run : Widest(r)
<1>11. w \in run
  <2> HIDE DEF run, Widest, r0
  <2> QED
    BY <1>9, <1>10
<1> HIDE DEF w
<1>12. w \in Places(t) \X Places(t) /\ w[1] < probe /\ probe <= w[2]
  BY <1>11
<1>13. w[1] <= w[2]
  BY <1>1, <1>2, <1>12
<1> QED
  BY <1>4, <1>12, <1>13 DEF w

-----------------------------------------------------------------------------
(* Recursion over a text *)

\* What goes over to a place from a later one holds of every place.
LEMMA Descent ==
    ASSUME NEW N \in Nat, NEW nxt, \A k \in 0..N - 1 : nxt[k] \in k + 1..N,
           NEW Good, N \in Good, \A k \in 0..N - 1 : nxt[k] \in Good => k \in Good
    PROVE  \A k \in 0..N : k \in Good
<1> DEFINE Others == {k \in 0..N : k \notin Good}
<1>1. SUFFICES ASSUME Others # {} PROVE FALSE
  OBVIOUS
<1>2. PICK m \in Others : \A k \in Others : k <= m
  BY <1>1, GreatestOf
<1>3. m \in 0..N - 1
  BY <1>2
<1>4. nxt[m] \in 0..N /\ nxt[m] > m
  BY <1>3
<1>5. nxt[m] \in Good
  BY <1>2, <1>4
<1> QED
  BY <1>2, <1>3, <1>5

\* A function that is defined at each place from its value at a later one.
Onward(N, nxt) == \A k \in 0..N - 1 : nxt[k] \in k + 1..N

Within(N, V, F) == \A k \in 0..N - 1, v \in V : F[<<k, v>>] \in V

Unfolded(f, N, nxt, base, F) ==
    f[N] = base /\ \A k \in 0..N - 1 : f[k] = F[<<k, f[nxt[k]]>>]

LEMMA Unfolds ==
    ASSUME NEW N \in Nat, NEW nxt, Onward(N, nxt), NEW V, NEW base \in V, NEW F, Within(N, V, F)
    PROVE  \E f \in [0..N -> V] : Unfolded(f, N, nxt, base, F)
<1> USE DEF Onward, Within, Unfolded
<1> DEFINE Down(f, m) == f[N] = base /\ \A k \in m..N - 1 : f[k] = F[<<k, f[nxt[k]]>>]
           Others == {m \in 0..N : ~\E f \in [m..N -> V] : Down(f, m)}
<1>1. SUFFICES ASSUME Others # {} PROVE FALSE
  <2>1. 0 \notin Others => \E f \in [0..N -> V] : Down(f, 0)
    OBVIOUS
  <2> QED
    BY <2>1
<1>2. PICK m \in Others : \A k \in Others : k <= m
  BY <1>1, GreatestOf
<1>3. CASE m = N
  <2> DEFINE f == [k \in N..N |-> base]
  <2>1. f \in [m..N -> V] /\ Down(f, m)
    BY <1>3
  <2> QED
    BY <1>2, <2>1
<1>4. CASE m < N
  <2>1. m \in 0..N - 1 /\ m + 1 \in 0..N /\ m + 1 \notin Others
    <3>1. m \in 0..N
      BY <1>2
    <3> HIDE DEF Others
    <3>2. m \in 0..N - 1 /\ m + 1 \in 0..N /\ ~(m + 1 <= m)
      BY <3>1, <1>4
    <3> QED
      BY <3>2, <1>2
  <2>2. PICK f \in [m + 1..N -> V] : Down(f, m + 1)
    BY <2>1
  <2> DEFINE g == [k \in m..N |-> IF k = m THEN F[<<m, f[nxt[m]]>>] ELSE f[k]]
  <2>3. f[nxt[m]] \in V
    BY <2>1
  <2>4. g \in [m..N -> V]
    <3> SUFFICES ASSUME NEW k \in m..N
                 PROVE  (IF k = m THEN F[<<m, f[nxt[m]]>>] ELSE f[k]) \in V
      OBVIOUS
    <3>1. k = m \/ k \in m + 1..N
      BY <2>1
    <3> QED
      BY <3>1, <2>1, <2>3
  <2>5. \A k \in m + 1..N : g[k] = f[k]
    BY <2>1
  <2>6. \A k \in m..N - 1 : nxt[k] \in m + 1..N
    BY <2>1
  <2>7. g[m] = F[<<m, f[nxt[m]]>>]
    BY <2>1
  <2> HIDE DEF g
  <2>8. ASSUME NEW k \in m..N - 1
        PROVE  g[k] = F[<<k, g[nxt[k]]>>]
    <3>1. g[nxt[k]] = f[nxt[k]]
      BY <2>5, <2>6
    <3>2. CASE k = m
      BY <3>1, <3>2, <2>7
    <3>3. CASE k # m
      <4>1. k \in m + 1..N - 1 /\ k \in m + 1..N
        BY <3>3, <2>1
      <4>2. f[k] = F[<<k, f[nxt[k]]>>]
        BY <4>1, <2>2
      <4> QED
        BY <4>1, <4>2, <3>1, <2>5
    <3> QED
      BY <3>2, <3>3
  <2>9. g[N] = base
    BY <2>1, <2>2, <2>5
  <2> QED
    BY <1>2, <2>4, <2>8, <2>9
<1> QED
  BY <1>2, <1>3, <1>4

\* Where a needle occurs there is room for it.
LEMMA OccursIs ==
    ASSUME NEW t \in Texts, NEW n \in Texts, NEW k \in Places(t), Occurs(t, n, k)
    PROVE  Len(n) \in Nat \ {0} /\ k + Len(n) \in k + 1..Len(t)
<1>1. Len(t) \in Nat /\ Len(n) \in Nat /\ k \in 0..Len(t)
  BY TextIs DEF Places
<1>2. Len(n) # 0
  BY EmptySeq DEF Occurs, Texts
<1>3. Len(n) <= Len(After(t, k))
  BY DEF Occurs, Seqs!IsPrefix
<1>4. Len(After(t, k)) = Len(t) - k
  BY <1>1, AfterIs
<1> QED
  BY <1>1, <1>2, <1>3, <1>4

LEMMA MatchesIs ==
    ASSUME NEW t \in Texts, NEW n \in Texts
    PROVE  Matches(t, n) \in SUBSET {k \in Places(t) : k + Len(n) \in k + 1..Len(t)}
<1> DEFINE N == Len(t)
           V == SUBSET {k \in Places(t) : k + Len(n) \in k + 1..N}
           nxt == [k \in 0..N - 1 |-> IF Occurs(t, n, k) THEN k + Len(n) ELSE k + 1]
           F == [p \in (0..N - 1) \X V |-> IF Occurs(t, n, p[1]) THEN {p[1]} \cup p[2] ELSE p[2]]
           At(f, k) == IF k = N THEN {}
                       ELSE IF Occurs(t, n, k) THEN {k} \cup f[k + Len(n)] ELSE f[k + 1]
           Runs(f) == f = [k \in 0..N |-> At(f, k)]
           taken == CHOOSE f : Runs(f)
<1>1. Matches(t, n) = taken[0]
  BY DEF Matches
<1>2. N \in Nat /\ Places(t) = 0..N
  BY TextIs DEF Places
<1>3. \A k \in 0..N - 1 : Occurs(t, n, k) => k + Len(n) \in k + 1..N
  BY <1>2, OccursIs
<1>4. \A k \in 0..N - 1 : nxt[k] \in k + 1..N
  <2> SUFFICES ASSUME NEW k \in 0..N - 1
               PROVE  (IF Occurs(t, n, k) THEN k + Len(n) ELSE k + 1) \in k + 1..N
    OBVIOUS
  <2> HIDE DEF N
  <2> QED
    BY <1>2, <1>3
<1>5. \A k \in 0..N - 1, v \in V : F[<<k, v>>] = (IF Occurs(t, n, k) THEN {k} \cup v ELSE v)
  <2> SUFFICES ASSUME NEW k \in 0..N - 1, NEW v \in V
               PROVE  F[<<k, v>>] = (IF Occurs(t, n, k) THEN {k} \cup v ELSE v)
    OBVIOUS
  <2> HIDE DEF V
  <2>1. <<k, v>> \in (0..N - 1) \X V /\ <<k, v>>[1] = k /\ <<k, v>>[2] = v
    OBVIOUS
  <2> QED
    BY <2>1
<1>6. \A k \in 0..N - 1, v \in V : F[<<k, v>>] \in V
  <2> SUFFICES ASSUME NEW k \in 0..N - 1, NEW v \in V
               PROVE  (IF Occurs(t, n, k) THEN {k} \cup v ELSE v) \in V
    BY <1>5
  <2>1. Occurs(t, n, k) => k \in {j \in Places(t) : j + Len(n) \in j + 1..N}
    BY <1>2, <1>3
  <2> QED
    BY <2>1
<1>7. {} \in V
  OBVIOUS
<1> HIDE DEF nxt, F, V
<1>8. PICK f \in [0..N -> V] : f[N] = {} /\ \A k \in 0..N - 1 : f[k] = F[<<k, f[nxt[k]]>>]
  <2> HIDE DEF N
  <2>1. Onward(N, nxt) /\ Within(N, V, F)
    BY <1>4, <1>6 DEF Onward, Within
  <2> QED
    BY <2>1, <1>2, <1>7, Unfolds DEF Unfolded
<1>9. Runs(f)
  <2>1. ASSUME NEW k \in 0..N
        PROVE  f[k] = At(f, k)
    <3>1. CASE k = N
      BY <3>1, <1>8
    <3>2. CASE k # N
      <4>1. k \in 0..N - 1
        BY <3>2, <1>2
      <4>2. nxt[k] \in 0..N
        BY <4>1, <1>2, <1>4
      <4>3. f[k] = (IF Occurs(t, n, k) THEN {k} \cup f[nxt[k]] ELSE f[nxt[k]])
        BY <4>1, <4>2, <1>5, <1>8
      <4>4. nxt[k] = IF Occurs(t, n, k) THEN k + Len(n) ELSE k + 1
        BY <4>1 DEF nxt
      <4> QED
        BY <3>2, <4>3, <4>4
    <3> QED
      BY <3>1, <3>2
  <2> HIDE DEF At
  <2> QED
    BY <2>1
<1>10. \A k \in 0..N : taken[k] = At(taken, k)
  <2>1. Runs(taken)
    <3> HIDE DEF Runs
    <3> QED
      BY <1>9
  <2> HIDE DEF taken, At
  <2> QED
    BY <2>1
<1> HIDE DEF taken
<1> DEFINE Good == {k \in 0..N : taken[k] \in V}
<1>11. N \in Good
  <2> HIDE DEF N
  <2>1. N \in 0..N
    BY <1>2
  <2> QED
    BY <2>1, <1>7, <1>10
<1>12. ASSUME NEW k \in 0..N - 1, nxt[k] \in Good
       PROVE  k \in Good
  <2>1. k \in 0..N /\ k # N
    BY <1>2
  <2>2. nxt[k] = IF Occurs(t, n, k) THEN k + Len(n) ELSE k + 1
    BY DEF nxt
  <2>3. taken[k] = IF Occurs(t, n, k) THEN {k} \cup taken[nxt[k]] ELSE taken[nxt[k]]
    BY <2>1, <2>2, <1>10
  <2>4. taken[nxt[k]] \in V
    BY <1>12
  <2>5. Occurs(t, n, k) => k \in {j \in Places(t) : j + Len(n) \in j + 1..N}
    BY <1>2, <1>3
  <2> QED
    BY <2>1, <2>3, <2>4, <2>5 DEF V
<1>13. \A k \in 0..N : k \in Good
  <2> HIDE DEF N, Good
  <2> QED
    BY <1>2, <1>4, <1>11, <1>12, Descent
<1> QED
  BY <1>1, <1>2, <1>13 DEF V

LEMMA ReplacedIs ==
    ASSUME NEW t \in Texts, NEW n \in Texts, NEW by \in Texts
    PROVE  Replaced(t, n, by) \in Texts
<1> DEFINE N == Len(t)
           nxt == [k \in 0..N - 1 |-> IF Occurs(t, n, k) THEN k + Len(n) ELSE k + 1]
           Put(k) == IF Occurs(t, n, k) THEN by ELSE <<t[k + 1]>>
           F == [p \in (0..N - 1) \X Texts |-> Put(p[1]) \o p[2]]
           At(f, k) == IF k = N THEN <<>>
                       ELSE IF Occurs(t, n, k) THEN by \o f[k + Len(n)] ELSE <<t[k + 1]>> \o f[k + 1]
           Runs(f) == f = [k \in 0..N |-> At(f, k)]
           rest == CHOOSE f : Runs(f)
<1>1. Replaced(t, n, by) = rest[0]
  BY DEF Replaced
<1>2. N \in Nat /\ Places(t) = 0..N
  BY TextIs DEF Places
<1>3. \A k \in 0..N - 1 : Occurs(t, n, k) => k + Len(n) \in k + 1..N
  BY <1>2, OccursIs
<1>4. \A k \in 0..N - 1 : nxt[k] \in k + 1..N
  <2> SUFFICES ASSUME NEW k \in 0..N - 1
               PROVE  (IF Occurs(t, n, k) THEN k + Len(n) ELSE k + 1) \in k + 1..N
    OBVIOUS
  <2> HIDE DEF N
  <2> QED
    BY <1>2, <1>3
<1>5. \A k \in 0..N - 1 : Put(k) \in Texts
  <2> SUFFICES ASSUME NEW k \in 0..N - 1 PROVE Put(k) \in Texts
    OBVIOUS
  <2>1. k + 1 \in 1..N
    BY <1>2
  <2>2. <<t[k + 1]>> \in Texts
    BY <2>1, TextIs, OneIs
  <2> QED
    BY <2>2
<1> HIDE DEF Put
<1>6. \A k \in 0..N - 1, v \in Texts : F[<<k, v>>] = Put(k) \o v /\ F[<<k, v>>] \in Texts
  <2> SUFFICES ASSUME NEW k \in 0..N - 1, NEW v \in Texts
               PROVE  F[<<k, v>>] = Put(k) \o v /\ Put(k) \o v \in Texts
    OBVIOUS
  <2>1. <<k, v>> \in (0..N - 1) \X Texts /\ <<k, v>>[1] = k /\ <<k, v>>[2] = v
    OBVIOUS
  <2>2. Put(k) \o v \in Texts
    BY <1>5, JoinIs
  <2> QED
    BY <2>1, <2>2
<1>7. <<>> \in Texts
  BY NoneIs
<1> HIDE DEF nxt, F
<1>8. PICK f \in [0..N -> Texts] : f[N] = <<>> /\ \A k \in 0..N - 1 : f[k] = F[<<k, f[nxt[k]]>>]
  <2> HIDE DEF N
  <2>1. Onward(N, nxt) /\ Within(N, Texts, F)
    BY <1>4, <1>6 DEF Onward, Within
  <2>2. \E f \in [0..N -> Texts] : Unfolded(f, N, nxt, <<>>, F)
    BY <2>1, <1>2, <1>7, Unfolds
  <2> QED
    BY <2>2 DEF Unfolded
<1>9. \A k \in 0..N - 1 : nxt[k] = IF Occurs(t, n, k) THEN k + Len(n) ELSE k + 1
  BY DEF nxt
<1>10. Runs(f)
  <2>1. ASSUME NEW k \in 0..N
        PROVE  f[k] = At(f, k)
    <3>1. CASE k = N
      BY <3>1, <1>8
    <3>2. CASE k # N
      <4>1. k \in 0..N - 1
        BY <3>2, <1>2
      <4>2. nxt[k] \in 0..N
        BY <4>1, <1>2, <1>4
      <4>3. f[k] = Put(k) \o f[nxt[k]]
        BY <4>1, <4>2, <1>6, <1>8
      <4> QED
        BY <3>2, <4>1, <4>3, <1>9 DEF Put
    <3> QED
      BY <3>1, <3>2
  <2> HIDE DEF At
  <2> QED
    BY <2>1
<1>11. \A k \in 0..N : rest[k] = At(rest, k)
  <2>1. Runs(rest)
    <3> HIDE DEF Runs
    <3> QED
      BY <1>10
  <2> HIDE DEF rest, At
  <2> QED
    BY <2>1
<1> HIDE DEF rest
<1> DEFINE Good == {k \in 0..N : rest[k] \in Texts}
<1>12. N \in Good
  <2> HIDE DEF N
  <2>1. N \in 0..N
    BY <1>2
  <2> QED
    BY <2>1, <1>7, <1>11
<1>13. ASSUME NEW k \in 0..N - 1, nxt[k] \in Good
       PROVE  k \in Good
  <2>1. k \in 0..N /\ k # N
    BY <1>2
  <2>2. rest[k] = Put(k) \o rest[nxt[k]]
    BY <2>1, <1>9, <1>11 DEF Put
  <2>3. rest[nxt[k]] \in Texts
    BY <1>13
  <2>4. Put(k) \o rest[nxt[k]] \in Texts
    BY <2>3, <1>5, JoinIs
  <2> QED
    BY <2>1, <2>2, <2>4
<1>14. \A k \in 0..N : k \in Good
  <2> HIDE DEF N, Good
  <2> QED
    BY <1>2, <1>4, <1>12, <1>13, Descent
<1> QED
  BY <1>1, <1>2, <1>14

\* What a sequence of sequences comes to.
LEMMA FlattenIs ==
    ASSUME NEW S, NEW seqs \in Seq(Seq(S))
    PROVE  Seqs!FlattenSeq(seqs) \in Seq(S)
<1> DEFINE n == Len(seqs)
           At(f, i) == IF i = 1 THEN seqs[i] ELSE f[i - 1] \o seqs[i]
           Runs(f) == f = [i \in 1..n |-> At(f, i)]
           flatten == CHOOSE f : Runs(f)
           nxt == [k \in 0..n - 1 |-> k + 1]
           F == [p \in (0..n - 2) \X Seq(S) |-> p[2] \o seqs[n - p[1]]]
<1>1. n \in Nat /\ \A i \in 1..n : seqs[i] \in Seq(S)
  BY LenProperties
<1>2. CASE n = 0
  <2>1. Seqs!FlattenSeq(seqs) = seqs /\ seqs = <<>>
    BY <1>2, EmptySeq DEF Seqs!FlattenSeq
  <2> QED
    BY <2>1
<1>3. CASE n # 0
  <2>1. Seqs!FlattenSeq(seqs) = flatten[n]
    BY <1>3 DEF Seqs!FlattenSeq
  <2>2. n - 1 \in Nat /\ n - 1 - 1 = n - 2
    BY <1>1, <1>3
  <2>3. Onward(n - 1, nxt)
    <3> HIDE DEF n
    <3> QED
      BY <2>2 DEF Onward
  <2>4. ASSUME NEW k \in 0..n - 2, NEW v \in Seq(S)
        PROVE  F[<<k, v>>] = v \o seqs[n - k] /\ F[<<k, v>>] \in Seq(S)
    <3>1. <<k, v>> \in (0..n - 2) \X Seq(S) /\ <<k, v>>[1] = k /\ <<k, v>>[2] = v
      OBVIOUS
    <3>2. n - k \in 1..n
      BY <1>1
    <3>3. v \o seqs[n - k] \in Seq(S)
      BY <3>2, <1>1, ConcatProperties
    <3> QED
      BY <3>1, <3>3
  <2> HIDE DEF F
  <2>5. Within(n - 1, Seq(S), F)
    BY <2>2, <2>4 DEF Within
  <2>6. seqs[1] \in Seq(S)
    BY <1>1, <1>3
  <2>7. PICK h \in [0..n - 1 -> Seq(S)] : Unfolded(h, n - 1, nxt, seqs[1], F)
    BY <2>2, <2>3, <2>5, <2>6, Unfolds
  <2> DEFINE f == [i \in 1..n |-> h[n - i]]
  <2>8. \A i \in 1..n : i # 1 => h[n - i] = h[n - (i - 1)] \o seqs[i]
    <3> SUFFICES ASSUME NEW i \in 1..n, i # 1
                 PROVE  h[n - i] = h[n - (i - 1)] \o seqs[i]
      OBVIOUS
    <3> DEFINE k == n - i
    <3>1. k \in 0..n - 2 /\ k \in 0..(n - 1) - 1 /\ k + 1 = n - (i - 1) /\ n - k = i
          /\ k + 1 \in 0..n - 1 /\ k \in 0..n - 1
      BY <1>1
    <3>2. nxt[k] = k + 1
      BY <3>1
    <3> HIDE DEF k, nxt
    <3>3. h[k] = F[<<k, h[nxt[k]]>>]
      BY <3>1, <2>7 DEF Unfolded
    <3>4. h[k] = h[k + 1] \o seqs[n - k]
      BY <3>1, <3>2, <3>3, <2>4
    <3> QED
      BY <3>1, <3>4 DEF k
  <2>9. Runs(f)
    <3>1. ASSUME NEW i \in 1..n
          PROVE  f[i] = At(f, i)
      <4>1. f[i] = h[n - i]
        OBVIOUS
      <4>2. i # 1 => i - 1 \in 1..n /\ f[i - 1] = h[n - (i - 1)]
        BY <1>1
      <4>3. i = 1 => h[n - i] = seqs[i]
        BY <2>7 DEF Unfolded
      <4> HIDE DEF f
      <4> QED
        BY <4>1, <4>2, <4>3, <2>8
    <3> HIDE DEF At
    <3> QED
      BY <3>1
  <2>10. \A i \in 1..n : flatten[i] = At(flatten, i)
    <3>1. Runs(flatten)
      <4> HIDE DEF Runs, f
      <4> QED
        BY <2>9
    <3> HIDE DEF flatten, At
    <3> QED
      BY <3>1
  <2> HIDE DEF flatten
  <2> DEFINE Good == {k \in 0..n - 1 : flatten[n - k] \in Seq(S)}
  <2>11. n - 1 \in Good
    <3>1. n - (n - 1) = 1 /\ 1 \in 1..n /\ n - 1 \in 0..n - 1
      BY <1>1, <1>3
    <3>2. flatten[1] = seqs[1]
      BY <3>1, <2>10
    <3> QED
      BY <3>1, <3>2, <2>6
  <2>12. ASSUME NEW k \in 0..(n - 1) - 1, nxt[k] \in Good
         PROVE  k \in Good
    <3>1. k \in 0..n - 1 /\ n - k \in 1..n /\ n - k # 1 /\ n - k - 1 = n - (k + 1)
      BY <1>1
    <3>2. nxt[k] = k + 1
      BY <3>1
    <3>3. flatten[n - (k + 1)] \in Seq(S)
      BY <3>2, <2>12
    <3>4. flatten[n - k] = flatten[n - (k + 1)] \o seqs[n - k]
      BY <3>1, <2>10
    <3>5. seqs[n - k] \in Seq(S)
      BY <3>1, <1>1
    <3>6. flatten[n - (k + 1)] \o seqs[n - k] \in Seq(S)
      BY <3>3, <3>5, ConcatProperties
    <3>7. flatten[n - k] \in Seq(S)
      BY <3>4, <3>6
    <3> QED
      BY <3>1, <3>7
  <2>13. \A k \in 0..n - 1 : k \in Good
    <3> HIDE DEF n, nxt, Good
    <3> QED
      BY <2>2, <2>3, <2>11, <2>12, Descent DEF Onward
  <2>14. 0 \in Good /\ n - 0 = n
    <3>1. 0 \in 0..n - 1 /\ n - 0 = n
      BY <1>1, <1>3
    <3> QED
      BY <3>1, <2>13
  <2>15. flatten[n - 0] \in Seq(S)
    BY <2>14
  <2> QED
    BY <2>1, <2>14, <2>15
<1> QED
  BY <1>2, <1>3

-----------------------------------------------------------------------------
(* Command-slash *)

LEMMA IndentIs ==
    ASSUME NEW l \in Texts
    PROVE  Indent(l) \in 0..Len(l)
<1> DEFINE S == {i \in 0..Len(l) : i = Len(l) \/ l[i + 1] # Space}
<1>1. Len(l) \in Nat
  BY TextIs
<1>2. S \in SUBSET Nat /\ (\A x \in S : x <= Len(l)) /\ S # {}
  BY <1>1
<1>3. Min(S) \in S
  BY <1>1, <1>2, MinIsLeast
<1> QED
  BY <1>3 DEF Indent

LEMMA UncommentedIs ==
    ASSUME NEW l \in Texts
    PROVE  Uncommented(l) \in Texts
<1> DEFINE rest == After(l, Indent(l) + 2)
           left0 == IF rest # <<>> /\ rest[1] = Space THEN Tail(rest) ELSE rest
<1>1. Len(l) \in Nat /\ Indent(l) \in 0..Len(l) /\ Indent(l) \in Places(l) /\ Indent(l) + 2 \in Nat
  BY TextIs, IndentIs DEF Places
<1>2. rest \in Texts
  BY <1>1, AfterIs
<1> HIDE DEF rest
<1>3. rest # <<>> => Tail(rest) \in Texts
  BY <1>2, HeadTailProperties DEF Texts
<1>4. left0 \in Texts
  BY <1>2, <1>3
<1> HIDE DEF left0
<1>5. Before(l, Indent(l)) \in Texts
  BY <1>1, BeforeIs
<1>6. Before(l, Indent(l)) \o left0 \in Texts
  BY <1>4, <1>5, JoinIs
<1> QED
  BY <1>6 DEF Uncommented, left0, rest

LEMMA CommentedIs ==
    ASSUME NEW l \in Texts, NEW n \in Places(l)
    PROVE  Commented(l, n) \in Texts
<1>1. <<Dash, Dash, Space>> \in Texts
  BY EditorAssumption DEF Texts
<1>2. Before(l, n) \in Texts /\ After(l, n) \in Texts
  BY BeforeIs, AfterIs, TextIs DEF Places
<1>3. Before(l, n) \o <<Dash, Dash, Space>> \in Texts
  BY <1>1, <1>2, JoinIs
<1>4. (Before(l, n) \o <<Dash, Dash, Space>>) \o After(l, n) \in Texts
  BY <1>2, <1>3, JoinIs
<1> QED
  BY <1>4 DEF Commented

LEMMA ShallowestIs ==
    ASSUME NEW lines \in Seq(Texts), NEW i \in WithText(lines)
    PROVE  Shallowest(lines) \in Places(lines[i])
<1> DEFINE S == {Indent(lines[j]) : j \in WithText(lines)}
<1>1. \A j \in DOMAIN lines : lines[j] \in Texts
  BY LenProperties
<1>2. WithText(lines) \subseteq DOMAIN lines
  BY DEF WithText
<1>3. \A j \in WithText(lines) : Indent(lines[j]) \in Nat
  BY <1>1, <1>2, IndentIs
<1>4. S \in SUBSET Nat /\ Indent(lines[i]) \in S
  BY <1>3
<1>5. Indent(lines[i]) \in 0..Len(lines[i]) /\ Len(lines[i]) \in Nat
  BY <1>1, <1>2, IndentIs, TextIs
<1> DEFINE m == Indent(lines[i])
           T == {x \in S : x <= m}
<1>6. T \in SUBSET Nat /\ T # {} /\ m \in Nat /\ \A x \in T : x <= m
  BY <1>4, <1>5
<1>7. Min(T) \in T /\ \A x \in T : Min(T) <= x
  <2> HIDE DEF T, m
  <2> QED
    BY <1>6, MinIsLeast
<1>8. Min(T) \in S /\ Min(T) <= m /\ \A x \in S : Min(T) <= x
  <2> DEFINE y == Min(T)
  <2>1. y \in T /\ \A x \in T : y <= x
    BY <1>7
  <2> HIDE DEF y
  <2>2. y \in Nat /\ m \in Nat /\ y <= m
    BY <2>1, <1>6
  <2> HIDE DEF m
  <2>3. \A x \in S : x \in Nat /\ (x <= m => x \in T)
    BY <1>4
  <2>4. \A x \in S : y <= x
    <3> HIDE DEF T, S
    <3> QED
      BY <2>1, <2>2, <2>3
  <2> QED
    BY <2>1, <2>2, <2>4 DEF y
<1>9. Min(S) \in S /\ \A x \in S : Min(S) <= x
  <2> HIDE DEF S, T
  <2>1. \E z \in S : \A x \in S : z <= x
    BY <1>8
  <2> QED
    BY <2>1 DEF Min
<1>10. Min(S) \in 0..Len(lines[i])
  <2>1. Min(S) \in Nat /\ Min(S) <= m
    BY <1>4, <1>9
  <2> QED
    BY <2>1, <1>5
<1>11. Shallowest(lines) = Min(S)
  BY DEF Shallowest
<1> QED
  BY <1>10, <1>11 DEF Places

LEMMA JoinedIs ==
    ASSUME NEW lines \in Seq(Texts)
    PROVE  Joined(lines) \in Texts
<1> DEFINE seqs == [i \in DOMAIN lines |-> IF i = 1 THEN lines[i] ELSE <<NL>> \o lines[i]]
<1>1. Len(lines) \in Nat /\ DOMAIN lines = 1..Len(lines) /\ \A i \in DOMAIN lines : lines[i] \in Texts
  BY LenProperties
<1>2. <<NL>> \in Texts
  BY OneIs, EditorAssumption
<1>3. \A i \in DOMAIN lines : <<NL>> \o lines[i] \in Texts
  BY <1>1, <1>2, JoinIs
<1>4. seqs \in Seq(Texts)
  <2>1. \A i \in 1..Len(lines) : (IF i = 1 THEN lines[i] ELSE <<NL>> \o lines[i]) \in Texts
    BY <1>1, <1>3
  <2> QED
    BY <2>1, <1>1, IsASeq
<1>5. Seqs!FlattenSeq(seqs) \in Seq(Chars)
  <2> HIDE DEF seqs
  <2> QED
    BY <1>4, FlattenIs DEF Texts
<1> QED
  BY <1>5 DEF Joined, Texts

LEMMA BlockIs ==
    ASSUME NEW t \in Texts, NEW e \in Places(t), NEW f \in 0..e
    PROVE  /\ Block(t, f, e).first \in 0..f
           /\ Block(t, f, e).end \in f..Len(t)
           /\ Block(t, f, e).lines \in Seq(Texts)
<1> DEFINE first == LineStart(t, f)
           end == LineEnd(t, LastPlace(t, f, e))
           starts == {k \in first..end : k = first \/ t[k] = NL}
           Line(k) == IF k \in starts THEN <<SubSeq(t, k + 1, LineEnd(t, k))>> ELSE <<>>
           seqs == [i \in 1..end - first + 1 |-> Line(first + i - 1)]
<1>1. Len(t) \in Nat /\ Places(t) = 0..Len(t) /\ e \in 0..Len(t) /\ f \in Places(t)
  BY TextIs DEF Places
<1>2. first \in 0..f
  BY <1>1, LineStartIs
<1>3. LastPlace(t, f, e) \in f..e
  BY <1>1 DEF LastPlace
<1>4. end \in f..Len(t)
  <2>1. LastPlace(t, f, e) \in Places(t)
    BY <1>1, <1>3
  <2>2. end \in LastPlace(t, f, e)..Len(t)
    BY <2>1, LineEndIs
  <2> QED
    BY <2>2, <1>1, <1>3
<1>5. /\ Block(t, f, e).first = first
      /\ Block(t, f, e).end = end
      /\ Block(t, f, e).lines = Seqs!FlattenSeq(seqs)
  BY DEF Block
<1> HIDE DEF first, end, starts
<1>6. \A k \in first..end : Line(k) \in Seq(Texts)
  <2> SUFFICES ASSUME NEW k \in first..end PROVE Line(k) \in Seq(Texts)
    OBVIOUS
  <2>1. k \in Places(t) /\ k \in Nat
    BY <1>1, <1>2, <1>4
  <2>2. LineEnd(t, k) \in 0..Len(t)
    BY <2>1, <1>1, LineEndIs
  <2>3. SubSeq(t, k + 1, LineEnd(t, k)) \in Texts
    BY <2>1, <2>2, CutIs
  <2> QED
    BY <2>3
<1> HIDE DEF Line
<1>7. seqs \in Seq(Seq(Texts))
  <2>1. end - first + 1 \in Nat /\ \A i \in 1..end - first + 1 : first + i - 1 \in first..end
    BY <1>1, <1>2, <1>4
  <2>2. \A i \in 1..end - first + 1 : Line(first + i - 1) \in Seq(Texts)
    BY <2>1, <1>6
  <2> QED
    BY <2>1, <2>2, IsASeq
<1>8. Seqs!FlattenSeq(seqs) \in Seq(Texts)
  <2> HIDE DEF seqs
  <2> QED
    BY <1>7, FlattenIs
<1> QED
  BY <1>2, <1>4, <1>5, <1>8

LEMMA ToggledIs ==
    ASSUME NEW t \in Texts, NEW e \in Places(t), NEW f \in 0..e
    PROVE  LET new == Toggled(t, f, e)
           IN  new.text \in Texts /\ new.from \in 0..new.to /\ new.to \in Places(new.text)
<1> DEFINE b == Block(t, f, e)
           back == AllCommented(b.lines)
           Now(i) == CASE IsBlank(b.lines[i]) -> b.lines[i]
                       [] ~IsBlank(b.lines[i]) /\ back -> Uncommented(b.lines[i])
                       [] OTHER -> Commented(b.lines[i], Shallowest(b.lines))
           lines == [i \in DOMAIN b.lines |-> Now(i)]
           new == Joined(lines)
           caret == Clamp(f + (IF back THEN -3 ELSE 3), b.first, b.first + Len(new))
           kept == IF f = e THEN <<caret, caret>> ELSE SelectedAfter(b, f, e, Len(new))
<1>1. Len(t) \in Nat /\ Places(t) = 0..Len(t) /\ e \in 0..Len(t)
  BY TextIs DEF Places
<1>2. b.first \in 0..f /\ b.end \in f..Len(t) /\ b.lines \in Seq(Texts)
  BY BlockIs
<1>3. /\ Toggled(t, f, e).text = Splice(t, b.first, b.end, new)
      /\ Toggled(t, f, e).from = kept[1]
      /\ Toggled(t, f, e).to = kept[2]
  BY DEF Toggled
<1> HIDE DEF b, back
<1>4. Len(b.lines) \in Nat /\ DOMAIN b.lines = 1..Len(b.lines)
      /\ \A i \in DOMAIN b.lines : b.lines[i] \in Texts
  BY <1>2, LenProperties
<1>5. \A i \in DOMAIN b.lines : Now(i) \in Texts
  <2> SUFFICES ASSUME NEW i \in DOMAIN b.lines PROVE Now(i) \in Texts
    OBVIOUS
  <2>1. b.lines[i] \in Texts
    BY <1>4
  <2>2. Uncommented(b.lines[i]) \in Texts
    BY <2>1, UncommentedIs
  <2>3. ~IsBlank(b.lines[i]) => Commented(b.lines[i], Shallowest(b.lines)) \in Texts
    <3>1. ~IsBlank(b.lines[i]) => i \in WithText(b.lines)
      BY DEF WithText
    <3>2. ~IsBlank(b.lines[i]) => Shallowest(b.lines) \in Places(b.lines[i])
      BY <3>1, <1>2, ShallowestIs
    <3> QED
      BY <3>2, <2>1, CommentedIs
  <2> QED
    BY <2>1, <2>2, <2>3
<1> HIDE DEF Now
<1>6. lines \in Seq(Texts)
  BY <1>4, <1>5, IsASeq
<1> HIDE DEF lines
<1>7. new \in Texts
  BY <1>6, JoinedIs
<1> HIDE DEF new
<1>8. Len(new) \in Nat
  BY <1>7, TextIs
<1>9. b.first \in 0..b.end /\ b.end \in Places(t)
  BY <1>1, <1>2
<1>10. /\ Splice(t, b.first, b.end, new) \in Texts
       /\ Len(Splice(t, b.first, b.end, new)) = b.first + Len(new) + (Len(t) - b.end)
  BY <1>7, <1>9, SpliceIs
<1>11. kept[1] \in 0..kept[2] /\ kept[2] \in 0..b.first + Len(new)
  <2>1. CASE f = e
    <3> DEFINE k == f + (IF back THEN -3 ELSE 3)
    <3>1. f \in Int /\ k \in Int
      BY <1>1
    <3> HIDE DEF k
    <3>2. Clamp(k, b.first, b.first + Len(new)) \in 0..b.first + Len(new)
      BY <3>1, <1>2, <1>8 DEF Clamp
    <3>3. caret \in 0..b.first + Len(new)
      BY <3>2 DEF k
    <3> HIDE DEF caret
    <3>4. kept = <<caret, caret>>
      BY <2>1
    <3> QED
      BY <3>3, <3>4, <1>2, <1>8
  <2>2. CASE f # e
    <3>1. kept = <<b.first, b.first + Len(new)>>
      BY <2>2 DEF SelectedAfter
    <3> QED
      BY <3>1, <1>2, <1>8
  <2> QED
    BY <2>1, <2>2
<1> HIDE DEF kept
<1>12. kept[2] \in Places(Splice(t, b.first, b.end, new))
  BY <1>1, <1>2, <1>8, <1>9, <1>10, <1>11, SMTT(30) DEF Places
<1> QED
  BY <1>3, <1>10, <1>11, <1>12

-----------------------------------------------------------------------------
(* Undo and redo *)

LEMMA BufferIs ==
    ASSUME BufferOK
    PROVE  /\ text \in Texts /\ from \in 0..to /\ to \in Places(text) /\ from \in Places(text)
           /\ backwards \in BOOLEAN
           /\ Len(text) \in Nat /\ Places(text) = 0..Len(text)
           /\ Len(undo) \in Nat /\ Len(redo) \in Nat
           /\ \A i \in 1..Len(undo) : undo[i] \in Kept
           /\ \A i \in 1..Len(redo) : redo[i] \in Kept
<1>1. /\ text \in Texts /\ from \in Nat /\ to \in Nat /\ backwards \in BOOLEAN
      /\ from <= to /\ to <= Len(text)
  BY DEF BufferOK, Kept, Snapshots, Snapshot
<1>2. Len(text) \in Nat
  BY <1>1, TextIs
<1>3. Len(undo) \in Nat /\ Len(redo) \in Nat
      /\ (\A i \in 1..Len(undo) : undo[i] \in Kept)
      /\ (\A i \in 1..Len(redo) : redo[i] \in Kept)
  BY LenProperties DEF BufferOK
<1> QED
  BY <1>1, <1>2, <1>3 DEF Places

LEMMA KeptIs ==
    ASSUME NEW s \in Kept
    PROVE  /\ s.text \in Texts /\ s.to \in Places(s.text) /\ s.from \in 0..s.to
           /\ s.backwards \in BOOLEAN
           /\ s = [text |-> s.text, from |-> s.from, to |-> s.to, backwards |-> s.backwards]
<1>1. s \in Snapshots /\ s.from <= s.to /\ s.to <= Len(s.text)
  BY DEF Kept
<1>2. s.text \in Texts /\ s.to \in Nat /\ s.from \in Nat /\ s.backwards \in BOOLEAN
  BY <1>1 DEF Snapshots
<1>3. Len(s.text) \in Nat
  BY <1>2, TextIs
<1> QED
  BY <1>1, <1>2, <1>3 DEF Snapshots, Places

LEMMA IsKept ==
    ASSUME NEW t \in Texts, NEW e \in Places(t), NEW f \in 0..e, NEW b \in BOOLEAN
    PROVE  [text |-> t, from |-> f, to |-> e, backwards |-> b] \in Kept
<1>1. Len(t) \in Nat
  BY TextIs
<1> QED
  BY <1>1 DEF Kept, Snapshots, Places

\* The stack an edit leaves holds what was there, on top of what it held, without
\* the oldest once it is full.
LEMMA PushedIs ==
    ASSUME BufferOK
    PROVE  LET d == IF Len(undo) < UNDO_LIMIT THEN 0 ELSE 1
           IN  /\ Pushed(undo) \in Seq(Kept)
               /\ Len(Pushed(undo)) = Len(undo) - d + 1
               /\ \A i \in 1..Len(undo) - d : Pushed(undo)[i] = undo[i + d]
               /\ Pushed(undo)[Len(undo) - d + 1] = Snapshot
<1>1. undo \in Seq(Kept) /\ Snapshot \in Kept /\ Len(undo) \in Nat /\ Len(redo) \in Nat
      /\ Len(undo) <= UNDO_LIMIT /\ UNDO_LIMIT \in Nat \ {0}
  BY BufferIs, EditorAssumption DEF BufferOK
<1> HIDE DEF Snapshot
<1>2. CASE Len(undo) < UNDO_LIMIT
  <2>1. Pushed(undo) = Append(undo, Snapshot)
    BY <1>2 DEF Pushed
  <2>2. /\ Append(undo, Snapshot) \in Seq(Kept)
        /\ Len(Append(undo, Snapshot)) = Len(undo) + 1
        /\ \A i \in 1..Len(undo) : Append(undo, Snapshot)[i] = undo[i]
        /\ Append(undo, Snapshot)[Len(undo) + 1] = Snapshot
    BY <1>1, AppendProperties
  <2> QED
    BY <1>1, <1>2, <2>1, <2>2
<1>3. CASE ~(Len(undo) < UNDO_LIMIT)
  <2> DEFINE u == Tail(undo)
  <2>1. Pushed(undo) = Append(u, Snapshot)
    BY <1>3 DEF Pushed
  <2>2. Len(undo) # 0
    BY <1>1, <1>3
  <2>3. undo # <<>>
    BY <2>2, EmptySeq
  <2>4. u \in Seq(Kept) /\ Len(u) = Len(undo) - 1 /\ \A i \in 1..Len(u) : u[i] = undo[i + 1]
    BY <1>1, <2>3, HeadTailProperties
  <2> HIDE DEF u
  <2>5. /\ Append(u, Snapshot) \in Seq(Kept)
        /\ Len(Append(u, Snapshot)) = Len(u) + 1
        /\ \A i \in 1..Len(u) : Append(u, Snapshot)[i] = u[i]
        /\ Append(u, Snapshot)[Len(u) + 1] = Snapshot
    BY <1>1, <2>4, AppendProperties
  <2> QED
    BY <1>1, <1>3, <2>1, <2>4, <2>5
<1> QED
  BY <1>2, <1>3

LEMMA PastIs ==
    ASSUME NEW u \in Seq(Kept), NEW r \in Seq(Kept), NEW t \in Texts
    PROVE  /\ PastOf(u, t, r) \in Seq(Texts)
           /\ Len(PastOf(u, t, r)) = Len(u) + 1 + Len(r)
           /\ \A i \in 1..Len(u) + 1 + Len(r) : PastOf(u, t, r)[i] =
                IF i <= Len(u) THEN u[i].text
                ELSE IF i = Len(u) + 1 THEN t
                ELSE r[Len(u) + Len(r) + 2 - i].text
<1> DEFINE N == Len(u) + 1 + Len(r)
           Nth(i) == IF i <= Len(u) THEN u[i].text
                     ELSE IF i = Len(u) + 1 THEN t
                     ELSE r[Len(u) + Len(r) + 2 - i].text
           past == [i \in 1..N |-> Nth(i)]
<1>1. Len(u) \in Nat /\ Len(r) \in Nat /\ N \in Nat
      /\ (\A i \in 1..Len(u) : u[i] \in Kept) /\ (\A i \in 1..Len(r) : r[i] \in Kept)
  BY LenProperties
<1>2. \A i \in 1..N : Nth(i) \in Texts
  <2> SUFFICES ASSUME NEW i \in 1..N PROVE Nth(i) \in Texts
    OBVIOUS
  <2>1. i <= Len(u) => u[i].text \in Texts
    BY <1>1, KeptIs
  <2>2. i > Len(u) + 1 => r[Len(u) + Len(r) + 2 - i].text \in Texts
    <3>1. i > Len(u) + 1 => Len(u) + Len(r) + 2 - i \in 1..Len(r)
      BY <1>1
    <3> QED
      BY <3>1, <1>1, KeptIs
  <2> QED
    BY <2>1, <2>2, <1>1
<1>3. PastOf(u, t, r) = past
  BY DEF PastOf
<1> HIDE DEF Nth, N
<1>4. past \in Seq(Texts) /\ \A i \in 1..N : past[i] = Nth(i)
  BY <1>1, <1>2, IsASeq
<1>5. Len(past) = N
  <2>1. DOMAIN past = 1..N
    OBVIOUS
  <2>2. Len(past) \in Nat /\ DOMAIN past = 1..Len(past)
    BY <1>4, LenProperties
  <2> HIDE DEF past
  <2> QED
    BY <2>1, <2>2, <1>1
<1> QED
  BY <1>3, <1>4, <1>5 DEF N, Nth

\* An edit writes on from where the user is.
LEMMA WritesOn ==
    ASSUME BufferOK, NEW t \in Texts
    PROVE  LET at == Len(undo) + 1
               kept == IF at < UNDO_LIMIT THEN at ELSE UNDO_LIMIT
           IN  /\ PastOf(Pushed(undo), t, <<>>)
                    = Append(SubSeq(PastOf(undo, text, redo), at - kept + 1, at), t)
               /\ Len(Pushed(undo)) = kept
<1> DEFINE d == IF Len(undo) < UNDO_LIMIT THEN 0 ELSE 1
           at == Len(undo) + 1
           kept == IF at < UNDO_LIMIT THEN at ELSE UNDO_LIMIT
           old == PastOf(undo, text, redo)
           new == PastOf(Pushed(undo), t, <<>>)
           left0 == SubSeq(old, at - kept + 1, at)
<1>1. /\ Len(undo) \in Nat /\ Len(redo) \in Nat /\ text \in Texts
      /\ Len(undo) <= UNDO_LIMIT /\ UNDO_LIMIT \in Nat \ {0}
      /\ undo \in Seq(Kept) /\ redo \in Seq(Kept) /\ <<>> \in Seq(Kept) /\ Len(<<>>) = 0
  BY BufferIs, EmptySeq, EditorAssumption DEF BufferOK
<1>2. kept = at - d /\ kept \in Nat /\ at \in Nat /\ d \in {0, 1} /\ d < at
  <2>1. CASE Len(undo) < UNDO_LIMIT
    <3>1. d = 0 /\ at <= UNDO_LIMIT /\ at \in Nat /\ 0 < at
      BY <1>1, <2>1
    <3>2. kept = at
      BY <3>1, <1>1
    <3> QED
      BY <3>1, <3>2
  <2>2. CASE ~(Len(undo) < UNDO_LIMIT)
    <3>1. d = 1 /\ Len(undo) = UNDO_LIMIT /\ at \in Nat /\ 1 < at /\ ~(at < UNDO_LIMIT)
      BY <1>1, <2>2
    <3>2. kept = UNDO_LIMIT
      BY <3>1
    <3> QED
      BY <3>1, <3>2, <1>1
  <2> QED
    BY <2>1, <2>2
<1>3. /\ Pushed(undo) \in Seq(Kept)
      /\ Len(Pushed(undo)) = Len(undo) - d + 1
      /\ \A i \in 1..Len(undo) - d : Pushed(undo)[i] = undo[i + d]
      /\ Pushed(undo)[Len(undo) - d + 1] = Snapshot
  BY PushedIs
<1>4. /\ old \in Seq(Texts) /\ Len(old) = Len(undo) + 1 + Len(redo)
      /\ \A i \in 1..Len(undo) : old[i] = undo[i].text
      /\ old[at] = text
  <2> DEFINE N == Len(undo) + 1 + Len(redo)
             Nth(i) == IF i <= Len(undo) THEN undo[i].text
                       ELSE IF i = Len(undo) + 1 THEN text
                       ELSE redo[Len(undo) + Len(redo) + 2 - i].text
  <2>1. undo \in Seq(Kept) /\ redo \in Seq(Kept) /\ text \in Texts
    BY <1>1
  <2>2. old \in Seq(Texts) /\ Len(old) = N /\ \A i \in 1..N : old[i] = Nth(i)
    BY <2>1, PastIs, ZenonT(40)
  <2>3. (\A i \in 1..Len(undo) : i \in 1..N /\ Nth(i) = undo[i].text)
        /\ at \in 1..N /\ Nth(at) = text
    BY <1>1
  <2> HIDE DEF old, N, Nth
  <2> QED
    BY <2>2, <2>3 DEF N
<1>5. /\ new \in Seq(Texts) /\ Len(new) = kept + 1
      /\ \A i \in 1..kept : new[i] = Pushed(undo)[i].text
      /\ new[kept + 1] = t
  <2> DEFINE p == Pushed(undo)
  <2>1. p \in Seq(Kept) /\ Len(p) = kept
    BY <1>2, <1>3
  <2> HIDE DEF p
  <2> DEFINE none == <<>>
  <2>2. /\ PastOf(p, t, none) \in Seq(Texts) /\ Len(PastOf(p, t, none)) = Len(p) + 1 + Len(none)
        /\ \A i \in 1..Len(p) + 1 + Len(none) : PastOf(p, t, none)[i] =
                IF i <= Len(p) THEN p[i].text
                ELSE IF i = Len(p) + 1 THEN t
                ELSE none[Len(p) + Len(none) + 2 - i].text
    <3>1. none \in Seq(Kept) /\ p \in Seq(Kept)
      BY <1>1, <2>1
    <3> HIDE DEF none
    <3> QED
      BY <3>1, PastIs, ZenonT(40)
  <2>3. new = PastOf(p, t, <<>>)
    BY DEF p
  <2> HIDE DEF new, kept
  <2>4. kept \in Nat
    BY <1>2
  <2>5. Len(new) = kept + 1
    BY <1>1, <2>1, <2>2, <2>3, <2>4
  <2>6. \A i \in 1..kept : new[i] = p[i].text
    BY <1>1, <2>1, <2>2, <2>3, <2>4
  <2>7. new[kept + 1] = t
    BY <1>1, <2>1, <2>2, <2>3, <2>4
  <2> QED
    BY <2>2, <2>3, <2>5, <2>6, <2>7 DEF p
<1> HIDE DEF old, new, kept, d
<1>6. /\ left0 \in Seq(Texts) /\ Len(left0) = kept
      /\ \A i \in 1..kept : left0[i] = old[i + d]
  <2>1. at - kept + 1 = d + 1 /\ at - (d + 1) + 1 = kept
    BY <1>2
  <2>2. d + 1 \in Int /\ at \in Int /\ \A i \in d + 1..at : old[i] \in Texts
    <3>1. Len(old) \in Nat /\ \A i \in 1..Len(old) : old[i] \in Texts
      BY <1>4, LenProperties
    <3> QED
      BY <3>1, <1>1, <1>2, <1>4
  <2>3. /\ SubSeq(old, d + 1, at) \in Seq(Texts)
        /\ Len(SubSeq(old, d + 1, at)) = IF d + 1 <= at THEN at - (d + 1) + 1 ELSE 0
        /\ \A i \in 1..at - (d + 1) + 1 : SubSeq(old, d + 1, at)[i] = old[d + 1 + i - 1]
    BY <2>2, SubSeqProperties
  <2>4. \A i \in 1..kept : d + 1 + i - 1 = i + d
    BY <1>2
  <2>5. d + 1 <= at
    BY <1>2
  <2>6. left0 = SubSeq(old, d + 1, at)
    BY <2>1
  <2> HIDE DEF left0, at
  <2> QED
    BY <2>1, <2>3, <2>4, <2>5, <2>6
<1> HIDE DEF left0
<1>7. /\ Append(left0, t) \in Seq(Texts) /\ Len(Append(left0, t)) = kept + 1
      /\ \A i \in 1..kept : Append(left0, t)[i] = left0[i]
      /\ Append(left0, t)[kept + 1] = t
  BY <1>6, AppendProperties
<1>8. \A i \in 1..kept : new[i] = left0[i]
  <2> SUFFICES ASSUME NEW i \in 1..kept PROVE Pushed(undo)[i].text = old[i + d]
    BY <1>5, <1>6
  <2>1. CASE i = kept
    <3>1. Len(undo) - d + 1 = i /\ i + d = at
      BY <1>1, <1>2, <2>1
    <3>2. Pushed(undo)[i] = Snapshot
      BY <1>3, <3>1
    <3> QED
      BY <3>1, <3>2, <1>4 DEF Snapshot
  <2>2. CASE i # kept
    <3>1. i \in 1..Len(undo) - d /\ i + d \in 1..Len(undo)
      BY <1>1, <1>2, <2>2
    <3> QED
      BY <3>1, <1>3, <1>4
  <2> QED
    BY <2>1, <2>2
<1>9. \A i \in 1..kept + 1 : new[i] = Append(left0, t)[i]
  <2> SUFFICES ASSUME NEW i \in 1..kept + 1 PROVE new[i] = Append(left0, t)[i]
    OBVIOUS
  <2>1. i \in 1..kept \/ i = kept + 1
    BY <1>2
  <2> QED
    BY <2>1, <1>5, <1>7, <1>8
<1>10. new = Append(left0, t)
  BY <1>5, <1>7, <1>9, SeqEqual
<1>11. Len(Pushed(undo)) = kept
  BY <1>1, <1>2, <1>3
<1> QED
  BY <1>10, <1>11 DEF left0, old, new, kept

\* Undo and redo stand elsewhere on the same line.
LEMMA GoesBack ==
    ASSUME BufferOK, undo # <<>>
    PROVE  LET m == Len(undo)
               u == SubSeq(undo, 1, m - 1)
               r == Append(redo, Snapshot)
           IN  /\ m \in Nat \ {0} /\ undo[m] \in Kept
               /\ u \in Seq(Kept) /\ r \in Seq(Kept) /\ Len(u) = m - 1 /\ Len(r) = Len(redo) + 1
               /\ PastOf(u, undo[m].text, r) = PastOf(undo, text, redo)
<1> DEFINE m == Len(undo)
           n == Len(redo)
           u == SubSeq(undo, 1, m - 1)
           r == Append(redo, Snapshot)
           t == undo[m].text
<1>1. /\ m \in Nat \ {0} /\ n \in Nat /\ undo \in Seq(Kept) /\ redo \in Seq(Kept)
      /\ \A i \in 1..m : undo[i] \in Kept
  BY BufferIs, EmptySeq DEF BufferOK
<1>2. undo[m] \in Kept /\ t \in Texts /\ text \in Texts /\ Snapshot \in Kept
  BY <1>1, KeptIs, BufferIs DEF BufferOK
<1>3. u \in Seq(Kept) /\ Len(u) = m - 1 /\ \A i \in 1..m - 1 : u[i] = undo[i]
  <2>1. 1 \in Int /\ m - 1 \in Int /\ \A i \in 1..m - 1 : undo[i] \in Kept
    BY <1>1
  <2>2. /\ u \in Seq(Kept)
        /\ Len(u) = IF 1 <= m - 1 THEN m - 1 - 1 + 1 ELSE 0
        /\ \A i \in 1..m - 1 - 1 + 1 : u[i] = undo[1 + i - 1]
    BY <2>1, SubSeqProperties, Z3
  <2> HIDE DEF u, m
  <2> QED
    BY <2>2, <1>1
<1>4. r \in Seq(Kept) /\ Len(r) = n + 1 /\ (\A i \in 1..n : r[i] = redo[i]) /\ r[n + 1] = Snapshot
  <2> HIDE DEF Snapshot
  <2> QED
    BY <1>1, <1>2, AppendProperties
<1> DEFINE N == m + 1 + n
           Old(i) == IF i <= m THEN undo[i].text ELSE IF i = m + 1 THEN text ELSE redo[m + n + 2 - i].text
           New(i) == IF i <= Len(u) THEN u[i].text ELSE IF i = Len(u) + 1 THEN t ELSE r[Len(u) + Len(r) + 2 - i].text
           old == PastOf(undo, text, redo)
           new == PastOf(u, t, r)
<1>5. old \in Seq(Texts) /\ Len(old) = N /\ \A i \in 1..N : old[i] = Old(i)
  BY <1>1, <1>2, PastIs, ZenonT(40)
<1>6. new \in Seq(Texts) /\ Len(new) = Len(u) + 1 + Len(r) /\ \A i \in 1..Len(u) + 1 + Len(r) : new[i] = New(i)
  <2> HIDE DEF u, r, t
  <2> QED
    BY <1>2, <1>3, <1>4, PastIs, ZenonT(40)
<1> HIDE DEF u, r, old, new, m, n
<1>7. Len(u) + 1 + Len(r) = N
  BY <1>1, <1>3, <1>4
<1>lens. m \in Nat /\ n \in Nat /\ Len(u) = m - 1 /\ Len(r) = n + 1 /\ N \in Nat
  BY <1>1, <1>3, <1>4
<1>8. \A i \in 1..N : New(i) = Old(i)
  <2> HIDE DEF New, Old
  <2> SUFFICES ASSUME NEW i \in 1..N PROVE New(i) = Old(i)
    OBVIOUS
  <2>1. CASE i <= m - 1
    <3>1. i \in 1..m - 1 /\ i <= Len(u) /\ i <= m
      BY <2>1, <1>lens
    <3> QED
      BY <3>1, <1>3 DEF New, Old
  <2>2. CASE i = m
    <3>1. i = Len(u) + 1 /\ ~(i <= Len(u)) /\ i <= m
      BY <2>2, <1>lens
    <3> QED
      BY <3>1, <2>2 DEF New, Old
  <2>3. CASE i = m + 1
    <3>1. ~(i <= Len(u)) /\ i # Len(u) + 1 /\ Len(u) + Len(r) + 2 - i = n + 1 /\ ~(i <= m)
      BY <2>3, <1>lens
    <3>2. r[n + 1].text = text
      BY <1>4 DEF Snapshot
    <3>3. Old(i) = text
      BY <3>1, <2>3 DEF Old
    <3>4. New(i) = r[n + 1].text
      BY <3>1 DEF New
    <3> QED
      BY <3>2, <3>3, <3>4
  <2>4. CASE i > m + 1
    <3>1. /\ ~(i <= Len(u)) /\ i # Len(u) + 1 /\ ~(i <= m) /\ i # m + 1
          /\ Len(u) + Len(r) + 2 - i = m + n + 2 - i /\ m + n + 2 - i \in 1..n
      BY <2>4, <1>lens
    <3> QED
      BY <3>1, <1>4 DEF New, Old
  <2>5. i <= m - 1 \/ i = m \/ i = m + 1 \/ i > m + 1
    BY <1>lens
  <2> QED
    BY <2>1, <2>2, <2>3, <2>4, <2>5
<1>9. new = old
  <2> HIDE DEF Old, New, N
  <2>1. Len(new) = Len(old) /\ \A i \in 1..Len(new) : new[i] = old[i]
    BY <1>5, <1>6, <1>7, <1>8
  <2> QED
    BY <2>1, <1>5, <1>6, SeqEqual
<1> QED
  BY <1>1, <1>2, <1>3, <1>4, <1>9 DEF u, r, old, new, m, n

LEMMA GoesForth ==
    ASSUME BufferOK, redo # <<>>
    PROVE  LET n == Len(redo)
               u == Append(undo, Snapshot)
               r == SubSeq(redo, 1, n - 1)
           IN  /\ n \in Nat \ {0} /\ redo[n] \in Kept
               /\ u \in Seq(Kept) /\ r \in Seq(Kept) /\ Len(u) = Len(undo) + 1 /\ Len(r) = n - 1
               /\ PastOf(u, redo[n].text, r) = PastOf(undo, text, redo)
<1> DEFINE m == Len(undo)
           n == Len(redo)
           u == Append(undo, Snapshot)
           r == SubSeq(redo, 1, n - 1)
           t == redo[n].text
<1>1. /\ n \in Nat \ {0} /\ m \in Nat /\ undo \in Seq(Kept) /\ redo \in Seq(Kept)
      /\ \A i \in 1..n : redo[i] \in Kept
  BY BufferIs, EmptySeq DEF BufferOK
<1>2. redo[n] \in Kept /\ t \in Texts /\ text \in Texts /\ Snapshot \in Kept
  BY <1>1, KeptIs, BufferIs DEF BufferOK
<1>3. r \in Seq(Kept) /\ Len(r) = n - 1 /\ \A i \in 1..n - 1 : r[i] = redo[i]
  <2>1. 1 \in Int /\ n - 1 \in Int /\ \A i \in 1..n - 1 : redo[i] \in Kept
    BY <1>1
  <2>2. /\ r \in Seq(Kept)
        /\ Len(r) = IF 1 <= n - 1 THEN n - 1 - 1 + 1 ELSE 0
        /\ \A i \in 1..n - 1 - 1 + 1 : r[i] = redo[1 + i - 1]
    BY <2>1, SubSeqProperties, Z3
  <2> HIDE DEF r, n
  <2> QED
    BY <2>2, <1>1
<1>4. u \in Seq(Kept) /\ Len(u) = m + 1 /\ (\A i \in 1..m : u[i] = undo[i]) /\ u[m + 1] = Snapshot
  <2> HIDE DEF Snapshot
  <2> QED
    BY <1>1, <1>2, AppendProperties
<1> DEFINE N == m + 1 + n
           Old(i) == IF i <= m THEN undo[i].text ELSE IF i = m + 1 THEN text ELSE redo[m + n + 2 - i].text
           New(i) == IF i <= Len(u) THEN u[i].text ELSE IF i = Len(u) + 1 THEN t ELSE r[Len(u) + Len(r) + 2 - i].text
           old == PastOf(undo, text, redo)
           new == PastOf(u, t, r)
<1>5. old \in Seq(Texts) /\ Len(old) = N /\ \A i \in 1..N : old[i] = Old(i)
  BY <1>1, <1>2, PastIs, ZenonT(40)
<1>6. new \in Seq(Texts) /\ Len(new) = Len(u) + 1 + Len(r) /\ \A i \in 1..Len(u) + 1 + Len(r) : new[i] = New(i)
  <2> HIDE DEF u, r, t
  <2> QED
    BY <1>2, <1>3, <1>4, PastIs, ZenonT(40)
<1> HIDE DEF u, r, old, new, m, n
<1>7. Len(u) + 1 + Len(r) = N
  BY <1>1, <1>3, <1>4
<1>lens. m \in Nat /\ n \in Nat /\ Len(u) = m + 1 /\ Len(r) = n - 1 /\ N \in Nat
  BY <1>1, <1>3, <1>4
<1>8. \A i \in 1..N : New(i) = Old(i)
  <2> HIDE DEF New, Old
  <2> SUFFICES ASSUME NEW i \in 1..N PROVE New(i) = Old(i)
    OBVIOUS
  <2>1. CASE i <= m
    <3>1. i \in 1..m /\ i <= Len(u)
      BY <2>1, <1>lens
    <3> QED
      BY <3>1, <2>1, <1>4 DEF New, Old
  <2>2. CASE i = m + 1
    <3>1. i <= Len(u) /\ ~(i <= m)
      BY <2>2, <1>lens
    <3> QED
      BY <3>1, <2>2, <1>4 DEF Snapshot, New, Old
  <2>3. CASE i = m + 2
    <3>1. ~(i <= Len(u)) /\ i = Len(u) + 1 /\ m + n + 2 - i = n /\ ~(i <= m) /\ i # m + 1
      BY <2>3, <1>lens
    <3> QED
      BY <3>1 DEF New, Old
  <2>4. CASE i > m + 2
    <3>1. /\ ~(i <= Len(u)) /\ i # Len(u) + 1 /\ ~(i <= m) /\ i # m + 1
          /\ Len(u) + Len(r) + 2 - i = m + n + 2 - i /\ m + n + 2 - i \in 1..n - 1
      BY <2>4, <1>lens
    <3> QED
      BY <3>1, <1>3 DEF New, Old
  <2>5. i <= m \/ i = m + 1 \/ i = m + 2 \/ i > m + 2
    BY <1>lens
  <2> QED
    BY <2>1, <2>2, <2>3, <2>4, <2>5
<1>9. new = old
  <2> HIDE DEF Old, New, N
  <2>1. Len(new) = Len(old) /\ \A i \in 1..Len(new) : new[i] = old[i]
    BY <1>5, <1>6, <1>7, <1>8
  <2> QED
    BY <2>1, <1>5, <1>6, SeqEqual
<1> QED
  BY <1>1, <1>2, <1>3, <1>4, <1>9 DEF u, r, old, new, m, n

-----------------------------------------------------------------------------
(* What an action does to the buffer, and to the line of texts *)

Told == BufferOK' /\ [History!Next]_(History!vars)

LEMMA HistoryIs == History!vars = <<PastOf(undo, text, redo), Len(undo) + 1>>
BY DEF History!vars, TextOf, PastOf

LEMMA StillTells ==
    ASSUME BufferOK, text' = text, undo' = undo, redo' = redo,
           NEW e \in Places(text), NEW f \in 0..e, NEW b \in BOOLEAN, Selects(f, e, b)
    PROVE  Told
<1>1. Snapshot' \in Kept
  BY BufferIs, IsKept DEF Snapshot, Selects
<1>2. BufferOK'
  BY <1>1 DEF BufferOK
<1>3. UNCHANGED History!vars
  BY DEF History!vars, TextOf
<1> QED
  BY <1>2, <1>3 DEF Told

LEMMA EditedTells ==
    ASSUME BufferOK, NEW t \in Texts, NEW e \in Places(t), NEW f \in 0..e,
           Edited(t, f, e)
    PROVE  Told
<1> DEFINE at == Len(undo) + 1
           kept == IF at < UNDO_LIMIT THEN at ELSE UNDO_LIMIT
           old == PastOf(undo, text, redo)
           cut == SubSeq(old, at - kept + 1, at)
<1>1. /\ undo' = Pushed(undo) /\ redo' = <<>> /\ text' = t
      /\ from' = f /\ to' = e /\ backwards' = FALSE
  BY DEF Edited, Selects
<1>2. Snapshot' \in Kept
  <2>1. [text |-> t, from |-> f, to |-> e, backwards |-> FALSE] \in Kept
    BY IsKept
  <2> QED
    BY <2>1, <1>1 DEF Snapshot
<1>3. Pushed(undo) \in Seq(Kept)
  BY PushedIs
<1>4. PastOf(Pushed(undo), t, <<>>) = Append(cut, t) /\ Len(Pushed(undo)) = kept
  BY WritesOn
<1>5. kept \in 0..UNDO_LIMIT
  <2>1. Len(undo) \in Nat /\ UNDO_LIMIT \in Nat
    BY BufferIs, EditorAssumption
  <2> QED
    BY <2>1
<1>6. BufferOK'
  <2>1. undo' \in Seq(Kept) /\ redo' \in Seq(Kept)
    BY <1>1, <1>3, EmptySeq
  <2>2. Len(undo') + Len(redo') <= UNDO_LIMIT
    <3>1. Len(undo') = kept /\ Len(redo') = 0
      BY <1>1, <1>4, EmptySeq
    <3> HIDE DEF kept
    <3>2. UNDO_LIMIT \in Nat
      BY EditorAssumption
    <3> QED
      BY <3>1, <3>2, <1>5
  <2> QED
    BY <2>1, <2>2, <1>2 DEF BufferOK
<1>7. PastOf(Pushed(undo), t, <<>>)[kept + 1] = t
  <2> DEFINE p == Pushed(undo)
             none == <<>>
  <2>1. p \in Seq(Kept) /\ none \in Seq(Kept) /\ Len(p) = kept /\ Len(none) = 0
    BY <1>3, <1>4, EmptySeq
  <2> HIDE DEF p, none
  <2> DEFINE Nth(i) == IF i <= Len(p) THEN p[i].text
                       ELSE IF i = Len(p) + 1 THEN t ELSE none[Len(p) + Len(none) + 2 - i].text
  <2>2. \A i \in 1..Len(p) + 1 + Len(none) : PastOf(p, t, none)[i] = Nth(i)
    BY <2>1, PastIs, ZenonT(40)
  <2> HIDE DEF kept
  <2>3. kept + 1 \in 1..Len(p) + 1 + Len(none) /\ ~(kept + 1 <= Len(p)) /\ kept + 1 = Len(p) + 1
    <3>1. kept \in Nat
      BY <1>5
    <3> QED
      BY <3>1, <2>1
  <2>4. Nth(kept + 1) = t
    BY <2>3
  <2> HIDE DEF Nth
  <2>5. PastOf(p, t, none)[kept + 1] = t
    BY <2>2, <2>3, <2>4
  <2> QED
    BY <2>5 DEF p, none
<1>8. History!Next
  <2>1. PastOf(undo', text', redo') = Append(cut, t) /\ Len(undo') + 1 = kept + 1
    BY <1>1, <1>4
  <2>2. PastOf(undo', text', redo')[Len(undo') + 1] = t
    BY <1>1, <1>4, <1>7
  <2> QED
    BY <2>1, <2>2 DEF History!Next, History!Write, TextOf, PastOf
<1> QED
  BY <1>6, <1>8 DEF Told

LEMMA UndoTells ==
    ASSUME BufferOK, Undo
    PROVE  Told
<1> DEFINE m == Len(undo)
           s == undo[m]
           u == SubSeq(undo, 1, m - 1)
           r == Append(redo, Snapshot)
<1>1. /\ undo # <<>> /\ undo' = u /\ redo' = r /\ text' = s.text
      /\ from' = s.from /\ to' = s.to /\ backwards' = s.backwards
  BY DEF Undo, Restore, Selects
<1>2. /\ m \in Nat \ {0} /\ s \in Kept
      /\ u \in Seq(Kept) /\ r \in Seq(Kept) /\ Len(u) = m - 1 /\ Len(r) = Len(redo) + 1
      /\ PastOf(u, s.text, r) = PastOf(undo, text, redo)
  BY <1>1, GoesBack
<1> HIDE DEF m, s, u, r
<1>3. Snapshot' \in Kept
  <2>1. s = [text |-> s.text, from |-> s.from, to |-> s.to, backwards |-> s.backwards]
    BY <1>2, KeptIs
  <2> QED
    BY <2>1, <1>1, <1>2 DEF Snapshot
<1>4. BufferOK'
  <2>1. Len(undo') + Len(redo') = Len(undo) + Len(redo)
    BY <1>1, <1>2, BufferIs DEF m
  <2> QED
    BY <2>1, <1>1, <1>2, <1>3 DEF BufferOK
<1>5. History!Back
  <2>1. PastOf(undo', text', redo') = PastOf(undo, text, redo)
    BY <1>1, <1>2
  <2>2. Len(undo') + 1 = Len(undo) + 1 - 1 /\ Len(undo) + 1 > 1
    BY <1>1, <1>2 DEF m
  <2> QED
    BY <2>1, <2>2 DEF History!Back, TextOf, PastOf
<1> QED
  BY <1>4, <1>5 DEF Told, History!Next

LEMMA RedoTells ==
    ASSUME BufferOK, Redo
    PROVE  Told
<1> DEFINE n == Len(redo)
           s == redo[n]
           u == Append(undo, Snapshot)
           r == SubSeq(redo, 1, n - 1)
<1>1. /\ redo # <<>> /\ undo' = u /\ redo' = r /\ text' = s.text
      /\ from' = s.from /\ to' = s.to /\ backwards' = s.backwards
  BY DEF Redo, Restore, Selects
<1>2. /\ n \in Nat \ {0} /\ s \in Kept
      /\ u \in Seq(Kept) /\ r \in Seq(Kept) /\ Len(u) = Len(undo) + 1 /\ Len(r) = n - 1
      /\ PastOf(u, s.text, r) = PastOf(undo, text, redo)
  BY <1>1, GoesForth
<1> HIDE DEF n, s, u, r
<1>3. Snapshot' \in Kept
  <2>1. s = [text |-> s.text, from |-> s.from, to |-> s.to, backwards |-> s.backwards]
    BY <1>2, KeptIs
  <2> QED
    BY <2>1, <1>1, <1>2 DEF Snapshot
<1>4. Len(undo) \in Nat
  BY BufferIs
<1>5. BufferOK'
  <2>1. Len(undo') + Len(redo') = Len(undo) + Len(redo)
    BY <1>1, <1>2, <1>4 DEF n
  <2> QED
    BY <2>1, <1>1, <1>2, <1>3 DEF BufferOK
<1>6. History!Forth
  <2>1. PastOf(undo', text', redo') = PastOf(undo, text, redo)
    BY <1>1, <1>2
  <2>2. Len(undo') + 1 = Len(undo) + 1 + 1
    BY <1>1, <1>2
  <2>3. Len(undo) + 1 < Len(PastOf(undo, text, redo))
    <3>1. Len(PastOf(undo, text, redo)) = Len(undo) + 1 + Len(redo)
      BY BufferIs, PastIs DEF BufferOK
    <3> QED
      BY <3>1, <1>2, <1>4 DEF n
  <2> QED
    BY <2>1, <2>2, <2>3 DEF History!Forth, TextOf, PastOf
<1> QED
  BY <1>5, <1>6 DEF Told, History!Next

LEMMA SetTextTells ==
    ASSUME BufferOK, NEW t \in Texts, SetText(t)
    PROVE  Told
<1> DEFINE none == <<>>
           past == PastOf(none, t, none)
<1>1. text' = t /\ from' = Len(t) /\ to' = Len(t) /\ backwards' = FALSE /\ undo' = none /\ redo' = none
  BY DEF SetText, Selects
<1>2. Len(t) \in Places(t) /\ Len(t) \in 0..Len(t)
  BY TextIs DEF Places
<1>3. Snapshot' \in Kept
  <2>1. [text |-> t, from |-> Len(t), to |-> Len(t), backwards |-> FALSE] \in Kept
    BY <1>2, IsKept
  <2> QED
    BY <2>1, <1>1 DEF Snapshot
<1>4. none \in Seq(Kept) /\ Len(none) = 0
  BY EmptySeq
<1>5. BufferOK'
  <2>1. UNDO_LIMIT \in Nat
    BY EditorAssumption
  <2>2. Len(undo') + Len(redo') <= UNDO_LIMIT
    BY <2>1, <1>1, <1>4
  <2> QED
    BY <2>2, <1>1, <1>3, <1>4 DEF BufferOK
<1> HIDE DEF none
<1>6. past = <<t>>
  <2> DEFINE Nth(i) == IF i <= Len(none) THEN none[i].text
                       ELSE IF i = Len(none) + 1 THEN t ELSE none[Len(none) + Len(none) + 2 - i].text
  <2>1. past \in Seq(Texts) /\ Len(past) = Len(none) + 1 + Len(none)
        /\ \A i \in 1..Len(none) + 1 + Len(none) : past[i] = Nth(i)
    <3>1. none \in Seq(Kept) /\ t \in Texts
      BY <1>4
    <3> QED
      BY <3>1, PastIs, ZenonT(40)
  <2>2. Len(none) + 1 + Len(none) = 1 /\ Nth(1) = t
    BY <1>4
  <2> HIDE DEF past, Nth
  <2>3. Len(past) = 1 /\ past[1] = t
    BY <2>1, <2>2
  <2>4. <<t>> \in Seq(Texts) /\ Len(<<t>>) = 1 /\ <<t>>[1] = t
    OBVIOUS
  <2>5. \A i \in 1..1 : past[i] = <<t>>[i]
    BY <2>3, <2>4
  <2> QED
    BY <2>1, <2>3, <2>4, <2>5, SeqEqual
<1>7. PastOf(undo', text', redo') = <<t>> /\ Len(undo') + 1 = 1
  BY <1>1, <1>4, <1>6
<1>8. History!Next
  <2>1. PastOf(undo', text', redo')[Len(undo') + 1] = t
    BY <1>7
  <2> QED
    BY <2>1, <1>7 DEF History!Next, History!StartOver, TextOf, PastOf
<1> QED
  BY <1>5, <1>8 DEF Told

-----------------------------------------------------------------------------
(* The actions *)

LEMMA MoveTells ==
    ASSUME BufferOK, NEW k \in Places(text), MoveTo(k)
    PROVE  Told
<1>1. k \in 0..k
  BY BufferIs
<1> QED
  BY <1>1, StillTells DEF MoveTo

LEMMA SelectToTells ==
    ASSUME BufferOK, NEW k \in Places(text), SelectTo(k)
    PROVE  Told
<1> DEFINE anchor == IF backwards THEN to ELSE from
<1>1. anchor \in Places(text) /\ Places(text) = 0..Len(text) /\ backwards \in BOOLEAN /\ Len(text) \in Nat
  BY BufferIs
<1>2. text' = text /\ undo' = undo /\ redo' = redo
  BY DEF SelectTo
<1>3. CASE k < anchor
  <2>1. Selects(k, anchor, TRUE)
    <3>1. ~(k > anchor)
      BY <1>1, <1>3
    <3> QED
      BY <3>1, <1>3 DEF SelectTo
  <2>2. k \in 0..anchor
    BY <1>1, <1>3
  <2> QED
    BY <2>1, <2>2, <1>1, <1>2, StillTells
<1>4. CASE k > anchor
  <2>1. Selects(anchor, k, FALSE)
    <3>1. ~(k < anchor)
      BY <1>1, <1>4
    <3> QED
      BY <3>1, <1>4 DEF SelectTo
  <2>2. anchor \in 0..k
    BY <1>1, <1>4
  <2> QED
    BY <2>1, <2>2, <1>1, <1>2, StillTells
<1>5. CASE ~(k < anchor) /\ ~(k > anchor)
  <2>1. Selects(k, k, backwards)
    BY <1>5 DEF SelectTo
  <2>2. k \in 0..k
    BY <1>1
  <2> QED
    BY <2>1, <2>2, <1>1, <1>2, StillTells
<1> QED
  BY <1>3, <1>4, <1>5

LEMMA MovesTell ==
    ASSUME BufferOK, NEW k \in Places(text), Moves(k)
    PROVE  Told
<1>1. /\ text \in Texts /\ Places(text) = 0..Len(text) /\ Len(text) \in Nat
  BY BufferIs
<1>2. CASE SelectWord(k)
  <2> DEFINE w == WordAt(text, k)
  <2>1. text # <<>> /\ Selects(w[1], w[2], FALSE) /\ text' = text /\ undo' = undo /\ redo' = redo
    BY <1>2 DEF SelectWord
  <2>2. w \in Places(text) \X Places(text) /\ w[1] <= w[2]
    BY <2>1, <1>1, WordAtIs
  <2> HIDE DEF w
  <2>3. w[2] \in Places(text) /\ w[1] \in 0..w[2]
    BY <2>2, <1>1
  <2> QED
    BY <2>1, <2>3, StillTells
<1>3. CASE SelectLine(k)
  <2> DEFINE end == LineEnd(text, k)
             e == IF end < Len(text) THEN end + 1 ELSE end
  <2>1. Selects(LineStart(text, k), e, FALSE) /\ text' = text /\ undo' = undo /\ redo' = redo
    BY <1>3 DEF SelectLine
  <2>2. LineStart(text, k) \in 0..k /\ end \in k..Len(text) /\ k \in 0..Len(text)
    BY <1>1, LineStartIs, LineEndIs
  <2> HIDE DEF end
  <2>3. e \in Places(text) /\ LineStart(text, k) \in 0..e
    BY <2>2, <1>1
  <2> QED
    BY <2>1, <2>3, StillTells
<1> QED
  BY <1>2, <1>3, MoveTells, SelectToTells DEF Moves

LEMMA SelectAllTells ==
    ASSUME BufferOK, SelectAll
    PROVE  Told
<1>1. Len(text) \in Places(text) /\ 0 \in 0..Len(text)
  BY BufferIs
<1> QED
  BY <1>1, StillTells DEF SelectAll

LEMMA FindsTell ==
    ASSUME BufferOK, NEW n \in Texts, Finds(n)
    PROVE  Told
<1> DEFINE found == Matches(text, n)
<1>1. /\ text \in Texts /\ from \in Nat /\ to \in Nat /\ Len(text) \in Nat
      /\ Places(text) = 0..Len(text) /\ Len(n) \in Nat
  BY BufferIs, TextIs
<1>2. found \in SUBSET Nat /\ \A k \in found : k <= Len(text) /\ k + Len(n) \in k..Len(text)
  <2>1. found \in SUBSET {k \in Places(text) : k + Len(n) \in k + 1..Len(text)}
    BY <1>1, MatchesIs
  <2> HIDE DEF found
  <2> QED
    BY <2>1, <1>1
<1>3. ASSUME NEW k \in found, Selects(k, k + Len(n), FALSE), text' = text, undo' = undo, redo' = redo
      PROVE  Told
  <2>1. k + Len(n) \in Places(text) /\ k \in 0..k + Len(n)
    BY <1>1, <1>2
  <2> QED
    BY <2>1, <1>3, StillTells
<1>4. \A S \in SUBSET found : S # {} => Min(S) \in S /\ Max(S) \in S
  <2> SUFFICES ASSUME NEW S \in SUBSET found, S # {} PROVE Min(S) \in S /\ Max(S) \in S
    OBVIOUS
  <2>1. S \in SUBSET Nat /\ \A x \in S : x <= Len(text)
    BY <1>2
  <2> QED
    BY <2>1, <1>1, MinIsLeast, MaxIsGreatest
<1>5. found # {} => Min(found) \in found /\ Max(found) \in found
  BY <1>4
<1>6. CASE FindStep(n)
  <2> DEFINE isNext(k) == k >= to /\ <<k, k + Len(n)>> # <<from, to>>
             S == {m \in found : isNext(m)}
             k == IF \E m \in found : isNext(m) THEN Min(S) ELSE Min(found)
  <2>1. found # {} /\ Selects(k, k + Len(n), FALSE) /\ text' = text /\ undo' = undo /\ redo' = redo
    BY <1>6 DEF FindStep
  <2> HIDE DEF isNext, found
  <2>2. S # {} => Min(S) \in found
    <3>1. S \in SUBSET found
      OBVIOUS
    <3> HIDE DEF S
    <3> QED
      BY <3>1, <1>4
  <2>3. k \in found
    BY <2>1, <2>2, <1>5
  <2> QED
    BY <2>1, <2>3, <1>3
<1>7. CASE FindBack(n)
  <2> DEFINE S == {m \in found : m + Len(n) <= from}
             k == Max(IF S # {} THEN S ELSE found)
  <2>1. found # {} /\ Selects(k, k + Len(n), FALSE) /\ text' = text /\ undo' = undo /\ redo' = redo
    BY <1>7 DEF FindBack
  <2>2. S \in SUBSET found
    OBVIOUS
  <2> HIDE DEF S, found
  <2>3. k \in found
    BY <2>1, <2>2, <1>4, <1>5
  <2> QED
    BY <2>1, <2>3, <1>3
<1>8. CASE FindRefresh(n)
  <2> DEFINE S == {m \in found : m >= from}
             k == Min(IF S # {} THEN S ELSE found)
  <2>1. found # {} /\ Selects(k, k + Len(n), FALSE) /\ text' = text /\ undo' = undo /\ redo' = redo
    BY <1>8 DEF FindRefresh
  <2>2. S \in SUBSET found
    OBVIOUS
  <2> HIDE DEF S, found
  <2>3. k \in found
    BY <2>1, <2>2, <1>4, <1>5
  <2> QED
    BY <2>1, <2>3, <1>3
<1> QED
  BY <1>6, <1>7, <1>8 DEF Finds

LEMMA CutsTells ==
    ASSUME BufferOK, NEW b \in Places(text), NEW a \in 0..b, Cuts(a, b)
    PROVE  Told
<1> DEFINE t == Splice(text, a, b, <<>>)
<1>1. text \in Texts /\ Len(text) \in Nat /\ b \in 0..Len(text)
  BY BufferIs
<1>2. t \in Texts /\ Len(t) = a + 0 + (Len(text) - b)
  BY <1>1, NoneIs, SpliceIs
<1>3. Edited(t, a, a)
  BY DEF Cuts
<1> HIDE DEF t
<1>4. a \in Places(t) /\ a \in 0..a
  BY <1>1, <1>2 DEF Places
<1> QED
  BY <1>2, <1>3, <1>4, EditedTells

\* A range of the text is replaced, and the caret put after what is new.
LEMMA PutTells ==
    ASSUME BufferOK, NEW b \in Places(text), NEW a \in 0..b, NEW new \in Texts,
           Edited(Splice(text, a, b, new), a + Len(new), a + Len(new))
    PROVE  Told
<1> DEFINE t == Splice(text, a, b, new)
           k == a + Len(new)
<1>1. text \in Texts /\ Len(text) \in Nat /\ b \in 0..Len(text) /\ Len(new) \in Nat
  BY BufferIs, TextIs
<1>2. t \in Texts /\ Len(t) = a + Len(new) + (Len(text) - b)
  BY <1>1, SpliceIs
<1>3. Edited(t, k, k)
  OBVIOUS
<1> HIDE DEF t
<1>4. k \in Places(t) /\ k \in 0..k
  BY <1>1, <1>2 DEF Places
<1> HIDE DEF k
<1> QED
  BY <1>2, <1>3, <1>4, EditedTells

LEMMA ReplaceTells ==
    ASSUME BufferOK, NEW new \in Texts, ReplaceSelection(new)
    PROVE  Told
<1>1. to \in Places(text) /\ from \in 0..to
  BY BufferIs
<1> QED
  BY <1>1, PutTells DEF ReplaceSelection

LEMMA RangeTells ==
    ASSUME BufferOK, NEW a \in Nat, NEW b \in Nat, NEW new \in Texts,
           ReplaceRange(a, b, new)
    PROVE  Told
<1> DEFINE start == Min({a, Len(text)})
           upto == Min({b, Len(text)})
           end == Max({start, upto})
<1>1. Len(text) \in Nat /\ Places(text) = 0..Len(text)
  BY BufferIs
<1>2. \A x \in Nat, y \in Nat : /\ Min({x, y}) \in Nat /\ Min({x, y}) <= x /\ Min({x, y}) <= y
                                /\ Max({x, y}) \in {x, y} /\ x <= Max({x, y}) /\ y <= Max({x, y})
  <2> SUFFICES ASSUME NEW x \in Nat, NEW y \in Nat
               PROVE  /\ Min({x, y}) \in Nat /\ Min({x, y}) <= x /\ Min({x, y}) <= y
                      /\ Max({x, y}) \in {x, y} /\ x <= Max({x, y}) /\ y <= Max({x, y})
    OBVIOUS
  <2> DEFINE S == {x, y}
             n == x + y
  <2>1. S \in SUBSET Nat /\ S # {} /\ n \in Nat /\ \A z \in S : z <= n
    OBVIOUS
  <2>2. x \in S /\ y \in S
    OBVIOUS
  <2> HIDE DEF S, n
  <2>3. Min(S) \in S /\ (\A z \in S : Min(S) <= z) /\ Max(S) \in S /\ \A z \in S : z <= Max(S)
    BY <2>1, MinIsLeast, MaxIsGreatest
  <2> QED
    BY <2>1, <2>2, <2>3 DEF S
<1>3. start \in 0..Len(text) /\ upto \in 0..Len(text)
  BY <1>1, <1>2
<1> HIDE DEF start, upto
<1>4. end \in {start, upto} /\ start <= end
  BY <1>1, <1>2, <1>3
<1> HIDE DEF end
<1>5. end \in Places(text) /\ start \in 0..end
  BY <1>1, <1>3, <1>4
<1>6. Edited(Splice(text, start, end, new), start + Len(new), start + Len(new))
  BY DEF ReplaceRange, start, end, upto
<1> QED
  BY <1>5, <1>6, PutTells

LEMMA ReplaceOneTells ==
    ASSUME BufferOK, NEW n \in Texts, NEW by \in Texts, ReplaceOne(n, by)
    PROVE  Told
<1> DEFINE t == Splice(text, from, to, by)
           found == Matches(t, n)
           end == from + Len(by)
           S == {m \in found : m >= end}
           k == IF \E m \in found : m >= end THEN Min(S) ELSE Min(found)
<1>1. /\ text \in Texts /\ to \in Places(text) /\ from \in 0..to
      /\ Len(n) \in Nat /\ Len(by) \in Nat
  BY BufferIs, TextIs
<1>2. IF found = {} THEN Edited(t, end, end) ELSE Edited(t, k, k + Len(n))
  BY DEF ReplaceOne
<1>3. t \in Texts
  BY <1>1, SpliceIs
<1>4. CASE found = {}
  BY <1>1, <1>2, <1>4, PutTells
<1>5. CASE found # {}
  <2>1. Len(t) \in Nat
    BY <1>3, TextIs
  <2>2. found \in SUBSET {j \in Places(t) : j + Len(n) \in j + 1..Len(t)}
    BY <1>1, <1>3, MatchesIs
  <2> HIDE DEF t, end
  <2>3. found \in SUBSET Nat /\ \A x \in found : x <= Len(t)
    <3> HIDE DEF found
    <3> QED
      BY <2>1, <2>2 DEF Places
  <2> HIDE DEF found
  <2>4. S \in SUBSET found
    OBVIOUS
  <2>5. (\E m \in found : m >= end) <=> S # {}
    OBVIOUS
  <2> HIDE DEF S
  <2>6. S # {} => Min(S) \in found
    <3>1. S \in SUBSET Nat /\ \A x \in S : x <= Len(t)
      BY <2>3, <2>4
    <3>2. S # {} => Min(S) \in S
      BY <3>1, <2>1, MinIsLeast
    <3> QED
      BY <3>2, <2>4
  <2>7. Min(found) \in found
    BY <2>1, <2>3, <1>5, MinIsLeast
  <2>8. k \in found
    BY <2>5, <2>6, <2>7
  <2>9. Edited(t, k, k + Len(n))
    BY <1>2, <1>5
  <2> HIDE DEF k
  <2>10. k + Len(n) \in Places(t) /\ k \in 0..k + Len(n)
    BY <2>1, <2>2, <2>8, <1>1 DEF Places
  <2> QED
    BY <2>9, <2>10, <1>3, EditedTells
<1> QED
  BY <1>4, <1>5

LEMMA ReplaceAllTells ==
    ASSUME BufferOK, NEW n \in Texts, NEW by \in Texts, ReplaceAll(n, by)
    PROVE  Told
<1> DEFINE t == Replaced(text, n, by)
           caret == IF Cursor < Len(t) THEN Cursor ELSE Len(t)
<1>1. text \in Texts /\ Cursor \in Nat
  BY BufferIs DEF Cursor
<1>2. t \in Texts
  BY <1>1, ReplacedIs
<1>3. Edited(t, caret, caret)
  BY DEF ReplaceAll
<1>4. Len(t) \in Nat
  BY <1>2, TextIs
<1> HIDE DEF t
<1>5. caret \in Places(t) /\ caret \in 0..caret
  BY <1>1, <1>4 DEF Places
<1> HIDE DEF caret
<1> QED
  BY <1>2, <1>3, <1>5, EditedTells

LEMMA ToggleTells ==
    ASSUME BufferOK, ToggleLineComment
    PROVE  Told
<1> DEFINE new == Toggled(text, from, to)
<1>1. text \in Texts /\ to \in Places(text) /\ from \in 0..to
  BY BufferIs
<1>2. new.text \in Texts /\ new.from \in 0..new.to /\ new.to \in Places(new.text)
  BY <1>1, ToggledIs
<1>3. Edited(new.text, new.from, new.to)
  BY DEF ToggleLineComment
<1> HIDE DEF new
<1> QED
  BY <1>2, <1>3, EditedTells

LEMMA ClearTells ==
    ASSUME BufferOK, Clear
    PROVE  Told
<1>1. 0 \in Places(<<>>) /\ 0 \in 0..0
  BY NoneIs DEF Places
<1> QED
  BY <1>1, NoneIs, EditedTells DEF Clear

LEMMA TypeTells ==
    ASSUME BufferOK, NEW c \in Typed, Type(c)
    PROVE  Told
<1> DEFINE next == IF Cursor < Len(text) THEN {text[Cursor + 1]} ELSE {}
           mid == SubSeq(text, from + 1, to)
<1>1. /\ text \in Texts /\ to \in Places(text) /\ from \in 0..to /\ from \in Places(text)
      /\ Len(text) \in Nat /\ Places(text) = 0..Len(text) /\ Cursor \in Places(text)
  BY BufferIs DEF Cursor
<1>2. c \in Chars /\ <<c>> \in Texts /\ Len(<<c>>) = 1
  BY OneIs, EditorAssumption
<1>3. c \in DOMAIN Closes => /\ <<Closes[c]>> \in Texts /\ Len(<<Closes[c]>>) = 1
                             /\ <<c, Closes[c]>> \in Texts /\ Len(<<c, Closes[c]>>) = 2
  <2>1. c \in DOMAIN Closes => Closes[c] \in Chars
    BY EditorAssumption
  <2> QED
    BY <2>1, <1>2 DEF Texts
<1>4. CASE next = {c} /\ MoveTo(Cursor + 1)
  <2>1. Cursor < Len(text)
    BY <1>4
  <2>2. Cursor + 1 \in Places(text)
    BY <2>1, <1>1
  <2> QED
    BY <2>2, <1>4, MoveTells
<1>5. CASE /\ c \in DOMAIN Closes
           /\ Edited(Before(text, from) \o <<c>> \o mid \o <<Closes[c]>> \o After(text, to),
                     from + 1, to + 1)
  <2> DEFINE b == Before(text, from)
             a == After(text, to)
             t1 == b \o <<c>>
             t2 == t1 \o mid
             t3 == t2 \o <<Closes[c]>>
             t == t3 \o a
  <2>1. b \in Texts /\ Len(b) = from
    BY <1>1, BeforeIs
  <2>2. a \in Texts /\ Len(a) = Len(text) - to
    BY <1>1, AfterIs
  <2>3. mid \in Texts /\ Len(mid) = to - from
    <3>1. from \in Nat /\ to \in 0..Len(text) /\ from <= to
      BY <1>1
    <3>2. mid \in Texts /\ Len(mid) = IF from <= to THEN to - from ELSE 0
      BY <3>1, <1>1, CutIs
    <3> HIDE DEF mid
    <3> QED
      BY <3>1, <3>2
  <2> HIDE DEF mid, a, b
  <2>4. t1 \in Texts /\ Len(t1) = from + 1
    BY <2>1, <1>2, JoinIs
  <2> HIDE DEF t1
  <2>5. t2 \in Texts /\ Len(t2) = from + 1 + (to - from)
    BY <2>3, <2>4, JoinIs
  <2> HIDE DEF t2
  <2>6. t3 \in Texts /\ Len(t3) = from + 1 + (to - from) + 1
    BY <2>5, <1>3, <1>5, JoinIs
  <2> HIDE DEF t3
  <2>7. t \in Texts /\ Len(t) = from + 1 + (to - from) + 1 + (Len(text) - to)
    BY <2>2, <2>6, JoinIs
  <2>8. Edited(t, from + 1, to + 1)
    BY <1>5 DEF t3, t2, t1, a, b
  <2> HIDE DEF t
  <2>9. to + 1 \in Places(t) /\ from + 1 \in 0..to + 1
    BY <2>7, <1>1 DEF Places
  <2> QED
    BY <2>7, <2>8, <2>9, EditedTells
<1>6. CASE c \in DOMAIN Closes /\ Edited(Splice(text, from, from, <<c, Closes[c]>>), from + 1, from + 1)
  <2> DEFINE t == Splice(text, from, from, <<c, Closes[c]>>)
  <2>1. from \in 0..from
    BY <1>1
  <2>2. t \in Texts /\ Len(t) = from + 2 + (Len(text) - from)
    BY <2>1, <1>1, <1>3, <1>6, SpliceIs
  <2>3. Edited(t, from + 1, from + 1)
    BY <1>6
  <2> HIDE DEF t
  <2>4. from + 1 \in Places(t) /\ from + 1 \in 0..from + 1
    BY <2>2, <1>1 DEF Places
  <2> QED
    BY <2>2, <2>3, <2>4, EditedTells
<1>7. CASE ReplaceSelection(<<c>>)
  BY <1>2, <1>7, ReplaceTells
<1> HIDE DEF next, mid
<1> QED
  BY <1>4, <1>5, <1>6, <1>7 DEF Type, next, mid

LEMMA DeletesTell ==
    ASSUME BufferOK,
           Backspace \/ DeleteForward \/ DeleteWordBackward \/ DeleteWordForward \/ DeleteToLineStart
    PROVE  Told
<1>1. /\ text \in Texts /\ to \in Places(text) /\ from \in 0..to /\ from \in Places(text)
      /\ Len(text) \in Nat /\ Places(text) = 0..Len(text)
  BY BufferIs
<1>2. ReplaceSelection(<<>>) => Told
  BY NoneIs, ReplaceTells
<1>3. ASSUME NEW a, NEW b, b \in Places(text), a \in 0..b, Cuts(a, b)
      PROVE  Told
  BY <1>3, CutsTells
<1>4. CASE Backspace
  <2>1. /\ 0 < from /\ from < Len(text) => from + 1 \in Places(text) /\ from - 1 \in 0..from + 1
        /\ from > 0 => from - 1 \in 0..from
    BY <1>1
  <2>2. CASE 0 < from /\ from < Len(text) /\ Cuts(from - 1, from + 1)
    BY <2>1, <2>2, <1>3
  <2>3. CASE from > 0 /\ Cuts(from - 1, from)
    BY <2>1, <2>3, <1>1, <1>3
  <2> QED
    BY <2>2, <2>3, <1>2, <1>4 DEF Backspace
<1>5. CASE DeleteForward
  <2>1. CASE to < Len(text) /\ Cuts(to, to + 1)
    <3>1. to + 1 \in Places(text) /\ to \in 0..to + 1
      BY <2>1, <1>1
    <3> QED
      BY <3>1, <2>1, <1>3
  <2> QED
    BY <2>1, <1>2, <1>5 DEF DeleteForward
<1>6. CASE DeleteWordBackward
  <2>1. PrevWord(text, from) \in 0..from
    BY <1>1, PrevWordIs
  <2>2. CASE Cuts(PrevWord(text, from), from)
    BY <2>1, <2>2, <1>1, <1>3
  <2> QED
    BY <2>2, <1>2, <1>6 DEF DeleteWordBackward
<1>7. CASE DeleteWordForward
  <2>1. NextWord(text, to) \in to..Len(text)
    BY <1>1, NextWordIs
  <2>2. NextWord(text, to) \in Places(text) /\ to \in 0..NextWord(text, to)
    BY <2>1, <1>1
  <2>3. CASE Cuts(to, NextWord(text, to))
    BY <2>2, <2>3, <1>3
  <2> QED
    BY <2>3, <1>2, <1>7 DEF DeleteWordForward
<1>8. CASE DeleteToLineStart
  <2>1. LineStart(text, from) \in 0..from
    BY <1>1, LineStartIs
  <2>2. CASE Cuts(LineStart(text, from), from)
    BY <2>1, <2>2, <1>1, <1>3
  <2> QED
    BY <2>2, <1>2, <1>8 DEF DeleteToLineStart
<1> QED
  BY <1>4, <1>5, <1>6, <1>7, <1>8

\* What the popup is not told of.
LEMMA UntoldTells ==
    ASSUME BufferOK, Untold
    PROVE  Told
<1>1. Needles \subseteq Texts
  BY EditorAssumption
<1>2. Len(text) \in Nat
  BY BufferIs
<1>3. CASE \E k \in Places(text) : Moves(k)
  BY <1>3, MovesTell
<1>4. CASE SelectAll \/ DeleteToLineStart \/ ToggleLineComment \/ Clear \/ Undo \/ Redo
  BY <1>4, SelectAllTells, DeletesTell, ToggleTells, ClearTells, UndoTells, RedoTells
<1>5. CASE HasSelection /\ ReplaceSelection(<<>>)
  BY <1>5, NoneIs, ReplaceTells
<1>6. CASE \E n \in Needles :
             ReplaceSelection(n) \/ ReplaceRange(0, Len(text), n) \/ SetText(n) \/ Finds(n)
  <2>1. PICK n \in Needles :
             ReplaceSelection(n) \/ ReplaceRange(0, Len(text), n) \/ SetText(n) \/ Finds(n)
    BY <1>6
  <2>2. n \in Texts /\ 0 \in Nat
    BY <1>1
  <2> QED
    BY <2>1, <2>2, <1>2, ReplaceTells, RangeTells, SetTextTells, FindsTell
<1>7. CASE \E n, by \in Needles : ReplaceOne(n, by) \/ ReplaceAll(n, by)
  BY <1>1, <1>7, ReplaceOneTells, ReplaceAllTells
<1> QED
  BY <1>3, <1>4, <1>5, <1>6, <1>7 DEF Untold

LEMMA SameTells ==
    ASSUME BufferOK, UNCHANGED buffer
    PROVE  Told
<1>1. to \in Places(text) /\ from \in 0..to /\ backwards \in BOOLEAN
  BY BufferIs
<1>2. text' = text /\ undo' = undo /\ redo' = redo /\ Selects(from, to, backwards)
  BY DEF buffer, Selects
<1> QED
  BY <1>1, <1>2, StillTells

-----------------------------------------------------------------------------
(* The popup *)

\* What it replaces is in the text.
LEMMA OfferedIs ==
    ASSUME NEW t \in Texts, NEW k \in Places(t), NEW p \in OfferedAt(t, k)
    PROVE  p = <<>> \/ p \in Nat \X Nat
<1> DEFINE S == {0} \cup {i \in 1..k : ~IsWord(t[i])}
<1>1. k \in Nat
  BY TextIs DEF Places
<1>2. S \in SUBSET Nat /\ S # {} /\ \A i \in S : i <= k
  BY <1>1
<1> HIDE DEF S
<1>3. Max(S) \in Nat
  BY <1>1, <1>2, MaxIsGreatest
<1>4. NameStart(t, k) \in Nat
  BY <1>3 DEF NameStart, S
<1>5. p \in {<<>>} \cup (IF names = {} THEN {} ELSE {<<NameStart(t, k), k>>})
  BY DEF OfferedAt
<1> QED
  BY <1>1, <1>4, <1>5

\* After a key, the popup is closed or what is offered at the caret.
LEMMA PopupAfter ==
    ASSUME BufferOK', popup' = <<>> \/ popup' \in OfferedAt(text', to')
    PROVE  PopupOK'
<1>1. /\ Snapshot' = [text |-> text', from |-> from', to |-> to', backwards |-> backwards']
      /\ Snapshot' \in Kept
  BY DEF BufferOK, Snapshot
<1>2. text' \in Texts /\ to' \in Nat /\ to' <= Len(text')
  BY <1>1 DEF Kept, Snapshots
<1>3. to' \in Places(text')
  BY <1>2, TextIs DEF Places
<1> QED
  BY <1>2, <1>3, OfferedIs DEF PopupOK

-----------------------------------------------------------------------------
(* The specification *)

LEMMA InitHolds ==
    ASSUME EditorInit
    PROVE  IInv /\ History!Init
<1>1. PICK o \in Openings :
         /\ text = o.text /\ from = Len(text) /\ to = Len(text) /\ backwards = FALSE
         /\ undo = <<>> /\ redo = <<>> /\ popup = <<>> /\ names = o.names
  BY DEF EditorInit
<1>2. text \in Texts /\ \A n \in names : n \in Texts
  BY <1>1, EditorAssumption
<1>3. to \in Places(text) /\ from \in 0..to /\ backwards \in BOOLEAN
  <2>1. Len(text) \in Nat
    BY <1>2, TextIs
  <2>2. backwards \in BOOLEAN
    BY <1>1
  <2>3. from = Len(text) /\ to = Len(text)
    BY <1>1
  <2>4. to \in Places(text) /\ from \in 0..to
    BY <2>1, <2>3 DEF Places
  <2> QED
    BY <2>2, <2>4
<1>4. Snapshot \in Kept
  BY <1>2, <1>3, IsKept DEF Snapshot
<1>5. undo \in Seq(Kept) /\ redo \in Seq(Kept) /\ Len(undo) + Len(redo) = 0
  BY <1>1
<1>6. BufferOK
  BY <1>4, <1>5, EditorAssumption DEF BufferOK
<1>7. History!Init
  <2> DEFINE past == [i \in 1..(Len(undo) + 1 + Len(redo)) |-> TextOf(i)]
  <2>1. Len(undo) = 0 /\ Len(redo) = 0
    BY <1>1
  <2>2. past = [i \in 1..1 |-> TextOf(i)]
    BY <2>1
  <2>3. Len(past) = 1 /\ past[1] = TextOf(1)
    BY <2>2
  <2>4. TextOf(1) = text
    BY <2>1 DEF TextOf
  <2> QED
    BY <2>1, <2>3, <2>4, <1>2 DEF History!Init
<1> QED
  BY <1>1, <1>2, <1>6, <1>7 DEF IInv, PopupOK

LEMMA StepHolds ==
    ASSUME IInv, [EditorNext]_editorVars
    PROVE  IInv' /\ [History!Next]_(History!vars)
<1>1. BufferOK /\ PopupOK /\ \A n \in names : n \in Texts
  BY DEF IInv
<1>2. names' = names
  BY DEF EditorNext, editorVars
<1>3. SUFFICES Told /\ PopupOK'
  BY <1>1, <1>2 DEF Told, IInv
<1>4. CASE popup' = popup /\ Untold
  BY <1>1, <1>4, UntoldTells DEF PopupOK
<1>5. ASSUME NEW c \in Typed, Type(c), TypedAt(c)
      PROVE  Told /\ PopupOK'
  <2>1. Told
    BY <1>1, <1>5, TypeTells
  <2>2. popup' = <<>> \/ popup' \in OfferedAt(text', to')
    BY <1>5 DEF TypedAt
  <2> QED
    BY <2>1, <2>2, PopupAfter DEF Told
<1>6. CASE (Backspace \/ DeleteForward \/ DeleteWordBackward \/ DeleteWordForward) /\ Refiltered
  <2>1. Told
    BY <1>1, <1>6, DeletesTell
  <2>2. popup' = <<>> \/ popup' \in OfferedAt(text', to')
    BY <1>6 DEF Refiltered
  <2> QED
    BY <2>1, <2>2, PopupAfter DEF Told
<1>7. CASE Complete
  <2>1. UNCHANGED buffer /\ popup' \in OfferedAt(text, Cursor)
    BY <1>7 DEF Complete
  <2>2. text \in Texts /\ Cursor \in Places(text)
    BY <1>1, BufferIs DEF Cursor
  <2>3. popup' = <<>> \/ popup' \in Nat \X Nat
    BY <2>1, <2>2, OfferedIs
  <2> QED
    BY <2>1, <2>3, <1>1, SameTells DEF PopupOK
<1>8. CASE Dismiss
  BY <1>1, <1>8, SameTells DEF Dismiss, PopupOK
<1>9. ASSUME NEW n \in names, Accept(n)
      PROVE  Told /\ PopupOK'
  <2>1. popup # <<>> /\ popup' = <<>> /\ ReplaceRange(popup[1], popup[2], n)
    BY <1>9 DEF Accept
  <2>2. popup \in Nat \X Nat /\ n \in Texts
    BY <2>1, <1>1 DEF PopupOK
  <2>3. popup[1] \in Nat /\ popup[2] \in Nat
    BY <2>2
  <2> QED
    BY <2>1, <2>2, <2>3, <1>1, RangeTells DEF PopupOK
<1>10. CASE UNCHANGED editorVars
  <2>1. UNCHANGED buffer /\ popup' = popup
    BY <1>10 DEF editorVars
  <2> QED
    BY <2>1, <1>1, SameTells DEF PopupOK
<1> QED
  BY <1>4, <1>5, <1>6, <1>7, <1>8, <1>9, <1>10 DEF EditorNext

LEMMA Inside ==
    ASSUME IInv
    PROVE  EditorTypeOK
<1>1. \A s \in Kept : IsIn(s)
  <2> SUFFICES ASSUME NEW s \in Kept PROVE IsIn(s)
    OBVIOUS
  <2>1. /\ s.text \in Texts /\ s.from \in Nat /\ s.to \in Nat
        /\ s.from <= s.to /\ s.to <= Len(s.text)
    BY DEF Kept, Snapshots
  <2>2. Len(s.text) \in Nat
    BY <2>1, TextIs
  <2> QED
    BY <2>1, <2>2 DEF IsIn, Places
<1>2. /\ Snapshot \in Kept /\ undo \in Seq(Kept) /\ redo \in Seq(Kept)
      /\ Len(undo) + Len(redo) <= UNDO_LIMIT /\ PopupOK
  BY DEF IInv, BufferOK
<1>3. (\A i \in DOMAIN undo : undo[i] \in Kept) /\ \A i \in DOMAIN redo : redo[i] \in Kept
  BY <1>2
<1>4. backwards \in BOOLEAN
  BY BufferIs DEF IInv
<1> QED
  BY <1>1, <1>2, <1>3, <1>4 DEF EditorTypeOK, PopupOK

LEMMA Invariant == EditorSpec => []IInv
<1>1. EditorInit => IInv
  BY InitHolds
<1>2. IInv /\ [EditorNext]_editorVars => IInv'
  BY StepHolds
<1> QED
  BY <1>1, <1>2, PTL DEF EditorSpec

\* The selection, and every one that undo or redo can bring back, lies inside its
\* text, whatever is typed, found, replaced, commented out or completed: no edit
\* slices the text where it has no character (TextInput::splice, restore).
THEOREM InsideCorrect == EditorSpec => []EditorTypeOK
<1>1. IInv => EditorTypeOK
  BY Inside
<1> QED
  BY <1>1, Invariant, PTL

\* Undo and redo keep to the line of texts there were: every edit is one entry on
\* it, nothing but a new edit forgets what is ahead, and only what is past the
\* limit is forgotten behind (TextInput::push_undo, undo, redo; DbUi::replace_all).
THEOREM UndoCorrect == EditorSpec => UndoKeepsHistory
<1>1. EditorInit => History!Init
  BY InitHolds
<1>2. IInv /\ [EditorNext]_editorVars => [History!Next]_(History!vars)
  BY StepHolds
<1> QED
  BY <1>1, <1>2, Invariant, PTL DEF EditorSpec, UndoKeepsHistory, History!Spec
================================================================================
