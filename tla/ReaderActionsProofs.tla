------------------------- MODULE ReaderActionsProofs -------------------------
(***************************************************************************)
(* What the reader's write path guarantees for any number of pages,        *)
(* changes, retries and faults.  A page's steps (ReaderTab) fold over its  *)
(* queue; the lemmas about them say what a fold keeps if each of its steps *)
(* keeps it.  The last part is about what one page takes back: it follows  *)
(* the order of the writes that the page has asked of its queue store.     *)
(***************************************************************************)
EXTENDS ReaderActions, FiniteSetTheorems, SequenceTheorems, WellFoundedInduction, TLAPS

-----------------------------------------------------------------------------
(* Folds.  The induction goes over a smallest set that would break the     *)
(* claim.                                                                  *)

(* The function FoldLeft takes its value from, for a step given as a       *)
(* function of a state and an element.                                     *)
IsRun(h, step, base, s, S) ==
  h = [r \in SUBSET S |-> IF r = {} THEN base
                          ELSE step[<<h[r \ {Max(r)}], s[Max(r)]>>]]

(* Some set of a set of finite sets has no other of them inside it.        *)
LEMMA Smallest ==
  ASSUME NEW U, IsFiniteSet(U), NEW T, T \subseteq SUBSET U, T # {}
  PROVE  \E s \in T : \A t \in T : ~(t \subseteq s /\ t # s)
<1>1. FiniteSubsetsOf(U) = SUBSET U
  BY FS_Subset DEF FiniteSubsetsOf
<1>2. \E s \in T : \A t \in T : ~(<<t, s>> \in StrictSubsetOrdering(U))
  BY <1>1, FS_StrictSubsetOrderingWellFounded, WFMin
<1> QED
  BY <1>2 DEF StrictSubsetOrdering

(* A finite set of numbers has its greatest element.                       *)
LEMMA MaxInside ==
  ASSUME NEW n \in Nat, NEW r \in SUBSET (1 .. n), r # {}
  PROVE  /\ Max(r) \in r
         /\ \A y \in r : y <= Max(r)
         /\ r \ {Max(r)} \subseteq r /\ r \ {Max(r)} # r
<1> DEFINE Bounds == {b \in 0 .. n : \A y \in r : y <= b}
           Spans == {1 .. b : b \in Bounds}
<1>1. PICK s \in Spans : \A t \in Spans : ~(t \subseteq s /\ t # s)
  <2>1. Spans \subseteq SUBSET (1 .. n)
    BY SMT
  <2>2. Spans # {}
    <3>1. n \in Bounds
      OBVIOUS
    <3> HIDE DEF Bounds
    <3> QED
      BY <3>1
  <2>3. IsFiniteSet(1 .. n)
    BY FS_Interval
  <2> DEFINE U == 1 .. n
  <2>4. IsFiniteSet(U) /\ Spans \subseteq SUBSET U
    BY <2>1, <2>3
  <2> HIDE DEF Spans, U
  <2> QED
    BY <2>2, <2>4, Smallest
<1>2. PICK b \in Bounds : \A d \in Bounds : ~(d < b)
  <2>1. PICK b \in Bounds : s = 1 .. b
    OBVIOUS
  <2>2. ASSUME NEW d \in Bounds, d < b
        PROVE  FALSE
    <3>1. 1 .. d \in Spans
      BY <2>2
    <3>2. 1 .. d \subseteq 1 .. b /\ b \in 1 .. b /\ b \notin 1 .. d
      BY <2>1, <2>2
    <3> HIDE DEF Spans
    <3> QED
      BY <1>1, <2>1, <3>1, <3>2
  <2> QED
    BY <2>1, <2>2
<1>3. b \in r
  <2>1. SUFFICES ASSUME b \notin r
                 PROVE  FALSE
    OBVIOUS
  <2>2. \A y \in r : y < b /\ y \in 1 .. n
    BY <1>2, <2>1
  <2>3. b > 0
    <3>1. PICK y \in r : TRUE
      OBVIOUS
    <3> QED
      BY <1>2, <2>2, <3>1
  <2>4. b - 1 \in Bounds
    BY <1>2, <2>2, <2>3
  <2> QED
    BY <1>2, <2>4
<1>4. \A y \in r : b >= y
  BY <1>2
<1>5. Max(r) \in r /\ \A y \in r : Max(r) >= y
  BY <1>3, <1>4 DEF Max
<1> QED
  BY <1>5

(* A set of which every subset has its greatest element.                   *)
Ranked(U) == IsFiniteSet(U) /\ \A r \in SUBSET U : r # {} => Max(r) \in r

LEMMA IntervalRanked ==
  ASSUME NEW n \in Nat
  PROVE  Ranked(1 .. n)
<1>1. IsFiniteSet(1 .. n)
  BY FS_Interval
<1> QED
  BY <1>1, MaxInside DEF Ranked

LEMMA RankedMax ==
  ASSUME NEW U, Ranked(U), NEW r \in SUBSET U, r # {}
  PROVE  r \ {Max(r)} \subseteq r /\ r \ {Max(r)} # r
BY DEF Ranked

LEMMA RunAt ==
  ASSUME NEW h, NEW step, NEW base, NEW s, NEW S, IsRun(h, step, base, s, S),
         NEW r \in SUBSET S
  PROVE  h[r] = IF r = {} THEN base ELSE step[<<h[r \ {Max(r)}], s[Max(r)]>>]
BY DEF IsRun

LEMMA RunsAgree ==
  ASSUME NEW U, Ranked(U), NEW S \in SUBSET U, NEW T \in SUBSET U,
         NEW step, NEW base, NEW s, NEW h, NEW k,
         IsRun(h, step, base, s, S), IsRun(k, step, base, s, T),
         NEW R, R \subseteq S, R \subseteq T
  PROVE  h[R] = k[R]
<1> DEFINE Bad == {r \in SUBSET R : h[r] # k[r]}
<1>1. SUFFICES ASSUME Bad # {}
               PROVE  FALSE
  BY DEF Bad
<1>2. PICK r \in Bad : \A t \in Bad : ~(t \subseteq r /\ t # r)
  <2>1. Bad \subseteq SUBSET R
    OBVIOUS
  <2>2. IsFiniteSet(R)
    BY FS_Subset DEF Ranked
  <2> HIDE DEF Bad
  <2> QED
    BY <1>1, <2>1, <2>2, Smallest
<1>3. r \in SUBSET S /\ r \in SUBSET T /\ r \in SUBSET U /\ h[r] # k[r]
  BY <1>2
<1>4. /\ h[r] = IF r = {} THEN base ELSE step[<<h[r \ {Max(r)}], s[Max(r)]>>]
      /\ k[r] = IF r = {} THEN base ELSE step[<<k[r \ {Max(r)}], s[Max(r)]>>]
  BY <1>3, RunAt
<1>5. r # {}
  BY <1>3, <1>4
<1>6. r \ {Max(r)} \subseteq r /\ r \ {Max(r)} # r
  BY <1>3, <1>5, RankedMax
<1>7. h[r \ {Max(r)}] = k[r \ {Max(r)}]
  BY <1>2, <1>6
<1> QED
  BY <1>3, <1>4, <1>5, <1>7

LEMMA RunExists ==
  ASSUME NEW U, Ranked(U), NEW S \in SUBSET U, NEW step, NEW base, NEW s
  PROVE  \E h : IsRun(h, step, base, s, S)
<1> DEFINE Bad == {r \in SUBSET U : ~ \E h : IsRun(h, step, base, s, r)}
           Value(r) == (CHOOSE h : IsRun(h, step, base, s, r))[r]
<1>1. SUFFICES ASSUME Bad # {}
               PROVE  FALSE
  BY DEF Bad
<1>2. PICK M \in Bad : \A t \in Bad : ~(t \subseteq M /\ t # M)
  <2>1. Bad \subseteq SUBSET U /\ IsFiniteSet(U)
    BY DEF Ranked
  <2> HIDE DEF Bad
  <2> QED
    BY <1>1, <2>1, Smallest
<1>3. M \in SUBSET U /\ ~ \E h : IsRun(h, step, base, s, M)
  BY <1>2
<1>4. ASSUME NEW r, r \subseteq M, r # M
      PROVE  IsRun(CHOOSE h : IsRun(h, step, base, s, r), step, base, s, r)
  BY <1>2, <1>3, <1>4
<1> DEFINE g == [r \in SUBSET M |-> IF r = {} THEN base
                                    ELSE step[<<Value(r \ {Max(r)}), s[Max(r)]>>]]
<1>5. ASSUME NEW r \in SUBSET M, r # M
      PROVE  g[r] = Value(r)
  <2> DEFINE h == CHOOSE h : IsRun(h, step, base, s, r)
  <2>1. IsRun(h, step, base, s, r) /\ Value(r) = h[r]
    BY <1>4, <1>5
  <2>2. h[r] = IF r = {} THEN base ELSE step[<<h[r \ {Max(r)}], s[Max(r)]>>]
    <3> HIDE DEF h
    <3> QED
      BY <2>1, RunAt
  <2>3. CASE r = {}
    BY <2>1, <2>2, <2>3
  <2>4. CASE r # {}
    <3> DEFINE q == r \ {Max(r)}
               k == CHOOSE k : IsRun(k, step, base, s, q)
    <3>1. q \subseteq r /\ q # M /\ r \in SUBSET U /\ q \in SUBSET U
      BY <1>3, <1>5, <2>4, RankedMax
    <3>2. IsRun(k, step, base, s, q) /\ Value(q) = k[q]
      BY <1>4, <1>5, <3>1
    <3>3. h[q] = k[q]
      <4> HIDE DEF q, k, h
      <4> QED
        BY <3>1, <3>2, <2>1, RunsAgree
    <3>4. g[r] = step[<<Value(q), s[Max(r)]>>]
      BY <2>4
    <3> QED
      BY <2>1, <2>2, <2>4, <3>2, <3>3, <3>4
  <2> QED
    BY <2>3, <2>4
<1>6. IsRun(g, step, base, s, M)
  <2>1. ASSUME NEW r \in SUBSET M, r # {}
        PROVE  g[r \ {Max(r)}] = Value(r \ {Max(r)})
    <3>1. r \ {Max(r)} \in SUBSET M /\ r \ {Max(r)} # M
      BY <1>3, <2>1, RankedMax
    <3> HIDE DEF g, Value
    <3> QED
      BY <1>5, <3>1
  <2> DEFINE d == [r \in SUBSET M |-> IF r = {} THEN base
                                      ELSE step[<<g[r \ {Max(r)}], s[Max(r)]>>]]
  <2>2. g = d
    <3>1. ASSUME NEW r \in SUBSET M
          PROVE  g[r] = d[r]
      <4>1. g[r] = IF r = {} THEN base ELSE step[<<Value(r \ {Max(r)}), s[Max(r)]>>]
        BY <3>1
      <4>2. d[r] = IF r = {} THEN base ELSE step[<<g[r \ {Max(r)}], s[Max(r)]>>]
        <5> HIDE DEF g
        <5> QED
          BY <3>1
      <4> HIDE DEF g, d, Value
      <4> QED
        BY <2>1, <3>1, <4>1, <4>2
    <3> QED
      BY <3>1
  <2> HIDE DEF g
  <2> QED
    BY <2>2 DEF IsRun
<1> QED
  BY <1>3, <1>6

(* What every step keeps, the values keep.                                 *)
LEMMA RunInside ==
  ASSUME NEW U, Ranked(U), NEW S \in SUBSET U, NEW X, NEW h,
         \A r \in SUBSET S :
           IF r = {} THEN h[r] \in X ELSE h[r \ {Max(r)}] \in X => h[r] \in X
  PROVE  h[S] \in X
<1> DEFINE Bad == {r \in SUBSET S : h[r] \notin X}
<1>1. SUFFICES ASSUME Bad # {}
               PROVE  FALSE
  BY DEF Bad
<1>2. PICK r \in Bad : \A t \in Bad : ~(t \subseteq r /\ t # r)
  <2>1. Bad \subseteq SUBSET S
    OBVIOUS
  <2>2. IsFiniteSet(S)
    BY FS_Subset DEF Ranked
  <2> HIDE DEF Bad
  <2> QED
    BY <1>1, <2>1, <2>2, Smallest
<1>3. r \in SUBSET S /\ h[r] \notin X
  BY <1>2
<1>4. r # {} /\ r \in SUBSET U
  BY <1>3
<1>5. r \ {Max(r)} \subseteq r /\ r \ {Max(r)} # r
  BY <1>4, RankedMax
<1>6. h[r \ {Max(r)}] \in X
  BY <1>2, <1>5
<1> QED
  BY <1>3, <1>4, <1>6

(* A sequence to fold over: of changes, with its indices.                  *)
IsList(s) == \E n \in Nat : DOMAIN s = 1 .. n /\ \A i \in 1 .. n : s[i] \in Changes

LEMMA StepRun ==
  ASSUME NEW s, IsList(s), NEW X, NEW base \in X,
         NEW step, \A U \in X, d \in Changes : step[<<U, d>>] \in X
  PROVE  \E h : /\ IsRun(h, step, base, s, DOMAIN s)
                /\ \A r \in SUBSET DOMAIN s : r # {} =>
                     h[r \ {Max(r)}] \in X /\ s[Max(r)] \in Changes
<1>1. PICK n \in Nat : DOMAIN s = 1 .. n /\ \A i \in 1 .. n : s[i] \in Changes
  BY DEF IsList
<1> DEFINE N == DOMAIN s
<1>2. Ranked(N)
  BY <1>1, IntervalRanked
<1> HIDE DEF N
<1>3. PICK h : IsRun(h, step, base, s, N)
  BY <1>2, RunExists
<1>4. ASSUME NEW r \in SUBSET N
      PROVE  h[r] \in X
  <2>1. ASSUME NEW q \in SUBSET r
        PROVE  IF q = {} THEN h[q] \in X ELSE h[q \ {Max(q)}] \in X => h[q] \in X
    <3>1. q \in SUBSET N
      BY <1>4, <2>1
    <3>2. h[q] = IF q = {} THEN base ELSE step[<<h[q \ {Max(q)}], s[Max(q)]>>]
      BY <1>3, <3>1, RunAt
    <3>3. q # {} => s[Max(q)] \in Changes
      BY <1>1, <1>2, <3>1 DEF Ranked, N
    <3> QED
      BY <3>2, <3>3
  <2> QED
    BY <1>2, <2>1, RunInside
<1>5. ASSUME NEW r \in SUBSET N, r # {}
      PROVE  h[r \ {Max(r)}] \in X /\ s[Max(r)] \in Changes
  BY <1>1, <1>2, <1>4, <1>5 DEF Ranked, N
<1> QED
  BY <1>3, <1>5 DEF N

Dropped(T, U, d) == IF T.entry[d].stored THEN Settle(U, d, Note(d, "dropped", None)) ELSE U

AreDrops(h, T, base, s, S) ==
  h = [r \in SUBSET S |-> IF r = {} THEN base ELSE Dropped(T, h[r \ {Max(r)}], s[Max(r)])]

LEMMA DropsKeep ==
  ASSUME NEW T, NEW s, IsList(s), NEW X, NEW base \in X,
         \A U \in X, d \in Changes : Dropped(T, U, d) \in X
  PROVE  FoldLeft(LAMBDA U, d : IF T.entry[d].stored
                                THEN Settle(U, d, Note(d, "dropped", None)) ELSE U,
                  base, s) \in X
<1> DEFINE step == [p \in X \X Changes |-> Dropped(T, p[1], p[2])]
           N == DOMAIN s
<1>1. \A U \in X, d \in Changes : step[<<U, d>>] = Dropped(T, U, d)
  OBVIOUS
<1>2. PICK h : /\ IsRun(h, step, base, s, N)
               /\ \A r \in SUBSET N : r # {} =>
                     h[r \ {Max(r)}] \in X /\ s[Max(r)] \in Changes
  <2>1. \A U \in X, d \in Changes : step[<<U, d>>] \in X
    BY <1>1
  <2> HIDE DEF step
  <2> QED
    BY <2>1, StepRun, Zenon
<1> HIDE DEF step
<1>3. AreDrops(h, T, base, s, N)
  <2>1. \A r \in SUBSET N : r # {} =>
          step[<<h[r \ {Max(r)}], s[Max(r)]>>] = Dropped(T, h[r \ {Max(r)}], s[Max(r)])
    BY <1>1, <1>2
  <2> QED
    BY <1>2, <2>1, Zenon DEF AreDrops, IsRun
<1> DEFINE k == CHOOSE k : AreDrops(k, T, base, s, N)
<1>4. AreDrops(k, T, base, s, N)
  BY <1>3
<1> HIDE DEF k
<1>5. k[N] \in X
  <2>1. Ranked(N) /\ \A r \in SUBSET N : r # {} => s[Max(r)] \in Changes
    BY <1>2, IntervalRanked DEF IsList
  <2>2. ASSUME NEW r \in SUBSET N
        PROVE  IF r = {} THEN k[r] \in X ELSE k[r \ {Max(r)}] \in X => k[r] \in X
    <3>1. k[r] = IF r = {} THEN base ELSE Dropped(T, k[r \ {Max(r)}], s[Max(r)])
      BY <1>4, <2>2 DEF AreDrops
    <3> QED
      BY <2>1, <3>1
  <2> HIDE DEF N
  <2> QED
    BY <2>1, <2>2, RunInside
<1> QED
  BY <1>5, Zenon DEF FoldLeft, MapThenFoldSet, AreDrops, Dropped, k, N

-----------------------------------------------------------------------------
(* Sequences without repetition.                                           *)

NoRepeats(s) == \A i, j \in DOMAIN s : i # j => s[i] # s[j]
Occurs(s, x) == \E i \in DOMAIN s : s[i] = x

(* A part of a sequence.                                                   *)
LEMMA PartOf ==
  ASSUME NEW S, NEW s \in Seq(S), NEW a \in Int, NEW b \in Int,
         1 <= a, a <= b + 1, b <= Len(s)
  PROVE  /\ SubSeq(s, a, b) \in Seq(S) /\ Len(SubSeq(s, a, b)) = b - a + 1
         /\ DOMAIN SubSeq(s, a, b) = 1 .. (b - a + 1)
         /\ \A i \in 1 .. (b - a + 1) : SubSeq(s, a, b)[i] = s[a + i - 1]
<1>1. \A i \in a .. b : s[i] \in S
  OBVIOUS
<1> DEFINE q == SubSeq(s, a, b)
<1>2. /\ q \in Seq(S) /\ Len(q) = (IF a <= b THEN b - a + 1 ELSE 0)
      /\ \A i \in 1 .. b - a + 1 : q[i] = s[a + i - 1]
  BY <1>1, SubSeqProperties
<1> HIDE DEF q
<1> QED
  BY <1>2 DEF q

LEMMA RemovedFirst ==
  ASSUME NEW S, NEW s \in Seq(S), NoRepeats(s), NEW c
  PROVE  /\ RemoveFirst(s, c) \in Seq(S)
         /\ NoRepeats(RemoveFirst(s, c))
         /\ \A x : Occurs(RemoveFirst(s, c), x) <=> x # c /\ Occurs(s, x)
<1> DEFINE I == {i \in 1 .. Len(s) : s[i] = c}
<1>0. DOMAIN s = 1 .. Len(s) /\ Len(s) \in Nat
  OBVIOUS
<1>1. CASE I = {}
  <2>1. RemoveFirst(s, c) = s
    BY <1>1 DEF RemoveFirst
  <2>2. ~Occurs(s, c)
    BY <1>0, <1>1 DEF Occurs
  <2> QED
    BY <2>1, <2>2
<1>2. CASE I # {}
  <2>1. PICK k \in 1 .. Len(s) : s[k] = c
    BY <1>2
  <2>2. I = {k}
    BY <1>0, <2>1 DEF NoRepeats
  <2>3. SelectInSeq(s, LAMBDA v : v = c) = k
    <3>1. Min({k}) = k
      BY <2>1 DEF Min
    <3> QED
      BY <1>2, <2>2, <3>1, Zenon DEF SelectInSeq
  <2>4. RemoveFirst(s, c) = SubSeq(s, 1, k - 1) \o SubSeq(s, k + 1, Len(s))
    BY <1>2, <2>3, Zenon DEF RemoveFirst, RemoveAt
  <2> DEFINE q == SubSeq(s, 1, k - 1) \o SubSeq(s, k + 1, Len(s))
  <2>5. q \in Seq(S) /\ DOMAIN q = 1 .. (Len(s) - 1)
        /\ \A i \in 1 .. (Len(s) - 1) : q[i] = IF i < k THEN s[i] ELSE s[i + 1]
    <3> DEFINE a == SubSeq(s, 1, k - 1)
               b == SubSeq(s, k + 1, Len(s))
    <3>1. a \in Seq(S) /\ Len(a) = k - 1 /\ \A i \in 1 .. (k - 1) : a[i] = s[i]
      BY <1>0, <2>1, PartOf
    <3>2. b \in Seq(S) /\ Len(b) = Len(s) - k /\ \A i \in 1 .. (Len(s) - k) : b[i] = s[k + i]
      <4> DEFINE u == k + 1
                 v == Len(s)
      <4>1. u \in Int /\ v \in Int /\ 1 <= u /\ u <= v + 1 /\ v <= Len(s) /\ b = SubSeq(s, u, v)
        BY <1>0, <2>1
      <4> HIDE DEF u, v, b
      <4>2. b \in Seq(S) /\ Len(b) = v - u + 1 /\ \A i \in 1 .. (v - u + 1) : b[i] = s[u + i - 1]
        BY <4>1, PartOf
      <4>3. v - u + 1 = Len(s) - k /\ \A i \in Nat : u + i - 1 = k + i
        BY <1>0, <2>1 DEF u, v
      <4> QED
        BY <1>0, <2>1, <4>2, <4>3
    <3>3. q = a \o b
      OBVIOUS
    <3> HIDE DEF q, a, b
    <3>4. q \in Seq(S) /\ Len(q) = Len(s) - 1
      <4>1. q \in Seq(S) /\ Len(q) = Len(a) + Len(b)
        BY <3>1, <3>2, <3>3, ConcatProperties
      <4> QED
        BY <1>0, <2>1, <3>1, <3>2, <4>1
    <3>5. ASSUME NEW i \in 1 .. (Len(s) - 1)
          PROVE  q[i] = IF i < k THEN s[i] ELSE s[i + 1]
      <4>1. q[i] = IF i <= Len(a) THEN a[i] ELSE b[i - Len(a)]
        BY <1>0, <2>1, <3>1, <3>2, <3>3, <3>5, ConcatProperties
      <4> QED
        BY <1>0, <2>1, <3>1, <3>2, <3>5, <4>1
    <3> QED
      BY <3>4, <3>5
  <2> HIDE DEF q
  <2>6. NoRepeats(q)
    <3>1. SUFFICES ASSUME NEW i \in DOMAIN q, NEW j \in DOMAIN q, i # j
                   PROVE  q[i] # q[j]
      BY DEF NoRepeats
    <3> DEFINE at(n) == IF n < k THEN n ELSE n + 1
    <3>2. at(i) \in DOMAIN s /\ at(j) \in DOMAIN s /\ at(i) # at(j)
      BY <1>0, <2>1, <2>5, <3>1
    <3>3. q[i] = s[at(i)] /\ q[j] = s[at(j)]
      BY <2>5, <3>1
    <3> QED
      BY <3>2, <3>3 DEF NoRepeats
  <2>7. ASSUME NEW x
        PROVE  Occurs(q, x) <=> x # c /\ Occurs(s, x)
    <3>1. ASSUME Occurs(q, x)
          PROVE  x # c /\ Occurs(s, x)
      <4>1. PICK i \in DOMAIN q : q[i] = x
        BY <3>1 DEF Occurs
      <4> DEFINE m == IF i < k THEN i ELSE i + 1
      <4>2. m \in DOMAIN s /\ s[m] = x /\ m # k
        BY <1>0, <2>1, <2>5, <4>1
      <4> QED
        BY <1>0, <2>1, <4>2 DEF Occurs, NoRepeats
    <3>2. ASSUME x # c, Occurs(s, x)
          PROVE  Occurs(q, x)
      <4>1. PICK m \in DOMAIN s : s[m] = x
        BY <3>2 DEF Occurs
      <4> DEFINE i == IF m < k THEN m ELSE m - 1
      <4>2. m # k
        BY <2>1, <3>2, <4>1
      <4>3. i \in DOMAIN q /\ q[i] = x
        BY <1>0, <2>1, <2>5, <4>1, <4>2
      <4> QED
        BY <4>3 DEF Occurs
    <3> QED
      BY <3>1, <3>2
  <2> QED
    BY <2>4, <2>5, <2>6, <2>7 DEF q
<1> QED
  BY <1>1, <1>2

(* An element put between two others.                                      *)
LEMMA Inserted ==
  ASSUME NEW S, NEW s \in Seq(S), NoRepeats(s), NEW c \in S, ~Occurs(s, c),
         NEW k \in 1 .. (Len(s) + 1)
  PROVE  /\ InsertAt(s, k, c) \in Seq(S)
         /\ NoRepeats(InsertAt(s, k, c))
         /\ \A x : Occurs(InsertAt(s, k, c), x) <=> x = c \/ Occurs(s, x)
<1> DEFINE q == SubSeq(s, 1, k - 1) \o <<c>> \o SubSeq(s, k, Len(s))
<1>1. InsertAt(s, k, c) = q
  BY DEF InsertAt
<1>2. DOMAIN s = 1 .. Len(s) /\ Len(s) \in Nat
  OBVIOUS
<1>3. q \in Seq(S) /\ DOMAIN q = 1 .. (Len(s) + 1)
      /\ \A i \in 1 .. (Len(s) + 1) :
           q[i] = IF i < k THEN s[i] ELSE IF i = k THEN c ELSE s[i - 1]
  <2> DEFINE a == SubSeq(s, 1, k - 1)
             b == SubSeq(s, k, Len(s))
             ac == a \o <<c>>
  <2>1. a \in Seq(S) /\ Len(a) = k - 1 /\ \A i \in 1 .. (k - 1) : a[i] = s[i]
    BY <1>2, PartOf
  <2>2. b \in Seq(S) /\ Len(b) = Len(s) - k + 1
        /\ \A i \in 1 .. (Len(s) - k + 1) : b[i] = s[k + i - 1]
    BY <1>2, PartOf
  <2>3. q = ac \o b /\ ac = a \o <<c>> /\ <<c>> \in Seq(S) /\ Len(<<c>>) = 1 /\ <<c>>[1] = c
    OBVIOUS
  <2> HIDE DEF q, a, b, ac
  <2>4. ac \in Seq(S) /\ Len(ac) = k
        /\ \A i \in 1 .. k : ac[i] = IF i <= k - 1 THEN a[i] ELSE <<c>>[i - (k - 1)]
    BY <1>2, <2>1, <2>3, ConcatProperties
  <2>5. q \in Seq(S) /\ Len(q) = Len(s) + 1
        /\ \A i \in 1 .. (Len(s) + 1) : q[i] = IF i <= k THEN ac[i] ELSE b[i - k]
    <3>1. /\ q \in Seq(S) /\ Len(q) = Len(ac) + Len(b)
          /\ \A i \in 1 .. Len(ac) + Len(b) : q[i] = IF i <= Len(ac) THEN ac[i] ELSE b[i - Len(ac)]
      <4>1. ac \in Seq(S) /\ b \in Seq(S)
        BY <2>2, <2>4
      <4>2. /\ ac \o b \in Seq(S) /\ Len(ac \o b) = Len(ac) + Len(b)
            /\ \A i \in 1 .. Len(ac) + Len(b) :
                 (ac \o b)[i] = IF i <= Len(ac) THEN ac[i] ELSE b[i - Len(ac)]
        BY <4>1, ConcatProperties
      <4> QED
        BY <2>3, <4>2
    <3>2. Len(ac) = k /\ Len(ac) + Len(b) = Len(s) + 1
      BY <1>2, <2>2, <2>4
    <3> QED
      BY <3>1, <3>2
  <2>6. ASSUME NEW i \in 1 .. (Len(s) + 1)
        PROVE  q[i] = IF i < k THEN s[i] ELSE IF i = k THEN c ELSE s[i - 1]
    <3>1. CASE i < k
      <4>1. i \in 1 .. (k - 1) /\ i \in 1 .. k /\ i <= k - 1 /\ i <= k
        BY <1>2, <2>6, <3>1
      <4>2. q[i] = ac[i] /\ ac[i] = a[i] /\ a[i] = s[i]
        BY <2>1, <2>4, <2>5, <2>6, <4>1
      <4> QED
        BY <3>1, <4>2
    <3>2. CASE i = k
      <4>1. k \in 1 .. k /\ ~(k <= k - 1) /\ k - (k - 1) = 1
        BY <1>2
      <4>2. ac[k] = c
        BY <2>3, <2>4, <4>1
      <4> QED
        BY <2>5, <2>6, <3>2, <4>2
    <3>3. CASE i > k
      <4>1. i - k \in 1 .. (Len(s) - k + 1) /\ ~(i <= k) /\ k + (i - k) - 1 = i - 1
        BY <1>2, <2>6, <3>3
      <4>2. q[i] = b[i - k] /\ b[i - k] = s[i - 1]
        BY <2>2, <2>5, <2>6, <4>1
      <4> QED
        BY <3>3, <4>2
    <3> QED
      BY <1>2, <2>6, <3>1, <3>2, <3>3
  <2> QED
    BY <2>5, <2>6
<1> HIDE DEF q
<1>4. NoRepeats(q)
  <2>1. SUFFICES ASSUME NEW i \in DOMAIN q, NEW j \in DOMAIN q, i < j
                 PROVE  q[i] # q[j]
    BY <1>3 DEF NoRepeats
  <2>2. ASSUME NEW n \in DOMAIN q, n # k
        PROVE  \E m \in DOMAIN s : m = (IF n < k THEN n ELSE n - 1) /\ q[n] = s[m]
    BY <1>2, <1>3, <2>2
  <2>3. CASE i = k
    BY <1>3, <2>1, <2>2, <2>3, SMTT(40) DEF Occurs
  <2>4. CASE j = k
    BY <1>3, <2>1, <2>2, <2>4 DEF Occurs
  <2>5. CASE i # k /\ j # k
    <3>1. PICK m \in DOMAIN s : m = (IF i < k THEN i ELSE i - 1) /\ q[i] = s[m]
      BY <2>2, <2>5
    <3>2. PICK n \in DOMAIN s : n = (IF j < k THEN j ELSE j - 1) /\ q[j] = s[n]
      BY <2>2, <2>5
    <3>3. m # n
      BY <1>3, <2>1, <2>5, <3>1, <3>2
    <3> QED
      BY <3>1, <3>2, <3>3 DEF NoRepeats
  <2> QED
    BY <2>3, <2>4, <2>5
<1>5. ASSUME NEW x
      PROVE  Occurs(q, x) <=> x = c \/ Occurs(s, x)
  <2>1. ASSUME Occurs(q, x)
        PROVE  x = c \/ Occurs(s, x)
    <3>1. PICK i \in DOMAIN q : q[i] = x
      BY <2>1 DEF Occurs
    <3> QED
      BY <1>2, <1>3, <3>1, SMTT(40) DEF Occurs
  <2>2. CASE x = c
    <3>1. k \in DOMAIN q /\ q[k] = c
      BY <1>2, <1>3
    <3> QED
      BY <2>2, <3>1 DEF Occurs
  <2>3. ASSUME Occurs(s, x)
        PROVE  Occurs(q, x)
    <3>1. PICK m \in DOMAIN s : s[m] = x
      BY <2>3 DEF Occurs
    <3> DEFINE i == IF m < k THEN m ELSE m + 1
    <3>2. i \in DOMAIN q /\ q[i] = x
      BY <1>2, <1>3, <3>1
    <3> QED
      BY <3>2 DEF Occurs
  <2> QED
    BY <2>1, <2>2, <2>3
<1> QED
  BY <1>1, <1>3, <1>4, <1>5

LEMMA Appended ==
  ASSUME NEW S, NEW s \in Seq(S), NoRepeats(s), NEW c \in S, ~Occurs(s, c)
  PROVE  /\ Append(s, c) \in Seq(S)
         /\ NoRepeats(Append(s, c))
         /\ \A x : Occurs(Append(s, c), x) <=> x = c \/ Occurs(s, x)
<1> DEFINE q == Append(s, c)
<1>1. q \in Seq(S) /\ DOMAIN s = 1 .. Len(s) /\ DOMAIN q = 1 .. (Len(s) + 1) /\ Len(s) \in Nat
      /\ q[Len(s) + 1] = c /\ \A i \in 1 .. Len(s) : q[i] = s[i]
  OBVIOUS
<1> HIDE DEF q
<1>2. NoRepeats(q)
  BY <1>1 DEF NoRepeats, Occurs
<1>3. ASSUME NEW x
      PROVE  Occurs(q, x) <=> x = c \/ Occurs(s, x)
  <2>1. ASSUME Occurs(q, x)
        PROVE  x = c \/ Occurs(s, x)
    BY <1>1, <2>1 DEF Occurs
  <2>2. ASSUME x = c \/ Occurs(s, x)
        PROVE  Occurs(q, x)
    BY <1>1, <2>2 DEF Occurs
  <2> QED
    BY <2>1, <2>2
<1> QED
  BY <1>1, <1>2, <1>3 DEF q

-----------------------------------------------------------------------------
(* A page.  M is how the changes were made, L the changes applied so far,  *)
(* and B those the page may be exchanging: all if it has the Web Lock.     *)

Makings == [on : Versions, offline : BOOLEAN, first : BOOLEAN]
Histories == {M \in Seq(Makings) : Len(M) <= MaxChanges}

Reports(L) ==
  {m \in Notes : /\ m.out \in {"done", "stale"} => m.version \in Versions
                 /\ m.out = "done" => m.id \in L}

(* The record of a change that followed none carries the fence of the      *)
(* state it was made on.                                                   *)
RecordOK(M, c, r) == r \in RecordSet /\ (M[c].first => r.fence = M[c].on)

Jobs ==
  [op : {"save"}, id : Changes, rec : RecordSet]
  \cup [op : {"remove"}, id : Changes, note : Notes]
  \cup [op : {"fence"}, id : Changes, fence : Versions]
  \cup [op : {"after"}, id : Changes, after : Changes \cup {None}]
  \cup [op : {"mark", "look"}, id : Changes]

Tasks(M, L) ==
  {j \in Jobs : /\ j.id \in DOMAIN M
                /\ j.op = "save" => RecordOK(M, j.id, j.rec)
                /\ j.op = "remove" => j.note \in Reports(L) /\ j.note.id = j.id
                /\ j.op = "fence" => ~M[j.id].first}

EntryOK(M, L, B, c, e) ==
  /\ e.heard # None => e.heard \in Reports(L) /\ e.heard.id = c
  /\ e.st \in Settled => ~e.stored
  /\ e.stored /\ e.st \in InExchange => c \in B
  /\ e.st = "sending" => e.fence # None
  /\ e.st \notin Settled =>
       c \in DOMAIN M /\ (M[c].first => e.fence = M[c].on /\ e.fencing = "kept")

(* An unsettled change stands in its page's queue once.                    *)
Lists(T) ==
  /\ \A c \in Changes : T.entry[c].st \notin Settled <=> Occurs(T.order, c)
  /\ NoRepeats(T.order)
  /\ T.order # <<>> => T.known # Unknown

PageSet(M, L) ==
  [known : Versions \cup {Unknown}, order : Seq(Changes), entry : [Changes -> Entries],
   disk : Seq(Tasks(M, L)), hears : BOOLEAN, told : [Changes -> SUBSET Outcomes]]

Pages(M, L, B) ==
  {T \in PageSet(M, L) :
     /\ Lists(T)
     /\ \A c \in Changes : EntryOK(M, L, B, c, T.entry[c]) /\ ("done" \in T.told[c] => c \in L)}

LEMMA HistoryFacts ==
  ASSUME NEW M \in Histories
  PROVE  /\ DOMAIN M = 1 .. Len(M) /\ DOMAIN M \subseteq Changes /\ Len(M) \in Nat
         /\ \A c \in DOMAIN M : M[c] \in Makings /\ M[c].on \in Versions
         /\ None \notin Versions /\ Unknown \notin Versions /\ Unknown # None
         /\ None \notin Changes
<1>1. M \in Seq(Makings) /\ Len(M) <= MaxChanges /\ Len(M) \in Nat
  BY DEF Histories
<1>2. DOMAIN M = 1 .. Len(M)
  BY <1>1
<1>3. \A c \in DOMAIN M : M[c] \in Makings
  BY <1>1
<1>4. \A c \in DOMAIN M : M[c].on \in Versions
  BY <1>3 DEF Makings
<1>5. DOMAIN M \subseteq Changes
  BY <1>1, <1>2, ReaderAssumption DEF Changes
<1>6. \A x \in Versions \cup Changes : x \in Nat
  BY ReaderAssumption DEF Versions, Changes
<1>7. None \notin Int /\ Unknown = -1
  BY ReaderAssumption DEF Unknown
<1> QED
  BY <1>1, <1>2, <1>3, <1>4, <1>5, <1>6, <1>7

LEMMA WithEntry ==
  ASSUME NEW M, NEW L, NEW B, NEW T \in Pages(M, L, B), NEW c \in Changes, NEW e \in Entries,
         EntryOK(M, L, B, c, e), e.st \in Settled <=> T.entry[c].st \in Settled
  PROVE  [T EXCEPT !.entry[c] = e] \in Pages(M, L, B)
<1> DEFINE U == [T EXCEPT !.entry[c] = e]
<1>1. T \in PageSet(M, L) /\ Lists(T)
      /\ \A d \in Changes : EntryOK(M, L, B, d, T.entry[d]) /\ ("done" \in T.told[d] => d \in L)
  BY DEF Pages
<1>2. /\ U.order = T.order /\ U.known = T.known /\ U.told = T.told
      /\ U.entry = [T.entry EXCEPT ![c] = e]
  BY <1>1 DEF PageSet
<1>3. U \in PageSet(M, L)
  BY <1>1 DEF PageSet
<1>4. T.entry \in [Changes -> Entries]
  BY <1>1 DEF PageSet
<1> HIDE DEF U
<1>5. Lists(U)
  BY <1>1, <1>2, <1>4 DEF Lists
<1>6. \A d \in Changes : EntryOK(M, L, B, d, U.entry[d]) /\ ("done" \in U.told[d] => d \in L)
  BY <1>1, <1>2, <1>4
<1>7. U \in Pages(M, L, B)
  BY <1>3, <1>5, <1>6 DEF Pages
<1> QED
  BY <1>7 DEF U

LEMMA Asked ==
  ASSUME NEW M, NEW L, NEW B, NEW T \in Pages(M, L, B), NEW job \in Tasks(M, L)
  PROVE  Ask(T, job) \in Pages(M, L, B)
<1> DEFINE U == Ask(T, job)
<1>1. T \in PageSet(M, L) /\ Lists(T)
      /\ \A d \in Changes : EntryOK(M, L, B, d, T.entry[d]) /\ ("done" \in T.told[d] => d \in L)
  BY DEF Pages
<1>2. U.order = T.order /\ U.known = T.known /\ U.told = T.told /\ U.entry = T.entry
  BY <1>1 DEF PageSet, Ask
<1>3. U \in PageSet(M, L)
  <2> DEFINE D == Tasks(M, L)
  <2>1. T.disk \in Seq(D) /\ job \in D
    BY <1>1 DEF PageSet
  <2> HIDE DEF D
  <2>2. Append(T.disk, job) \in Seq(D)
    BY <2>1
  <2>3. U = [T EXCEPT !.disk = Append(T.disk, job)]
    BY DEF Ask
  <2> HIDE DEF U
  <2> QED
    BY <1>1, <2>2, <2>3 DEF PageSet, D
<1> HIDE DEF U
<1>4. Lists(U)
  BY <1>1, <1>2 DEF Lists
<1>5. U \in Pages(M, L, B)
  BY <1>1, <1>2, <1>3, <1>4 DEF Pages
<1> QED
  BY <1>5 DEF U

(* What is true of a page, part by part.                                   *)
LEMMA PageFacts ==
  ASSUME NEW M \in Histories, NEW L, NEW B, NEW T \in Pages(M, L, B)
  PROVE  /\ T \in PageSet(M, L)
         /\ T.known \in Versions \cup {Unknown} /\ T.order \in Seq(Changes)
         /\ T.entry \in [Changes -> Entries] /\ T.disk \in Seq(Tasks(M, L))
         /\ T.hears \in BOOLEAN /\ T.told \in [Changes -> SUBSET Outcomes]
         /\ Lists(T) /\ NoRepeats(T.order)
         /\ T.order # <<>> => T.known \in Versions
         /\ \A c \in Changes :
              /\ T.entry[c] \in Entries
              /\ EntryOK(M, L, B, c, T.entry[c])
              /\ "done" \in T.told[c] => c \in L
              /\ T.entry[c].st \notin Settled <=> Occurs(T.order, c)
<1>1. T \in PageSet(M, L) /\ Lists(T)
      /\ \A d \in Changes : EntryOK(M, L, B, d, T.entry[d]) /\ ("done" \in T.told[d] => d \in L)
  BY DEF Pages
<1>2. /\ T.known \in Versions \cup {Unknown} /\ T.order \in Seq(Changes)
      /\ T.entry \in [Changes -> Entries] /\ T.disk \in Seq(Tasks(M, L))
      /\ T.hears \in BOOLEAN /\ T.told \in [Changes -> SUBSET Outcomes]
  BY <1>1 DEF PageSet
<1> QED
  BY <1>1, <1>2 DEF Lists

(* The head of a page's queue is unsettled.                                *)
LEMMA HeadFacts ==
  ASSUME NEW M \in Histories, NEW L, NEW B, NEW T \in Pages(M, L, B), T.order # <<>>
  PROVE  /\ Head(T.order) \in Changes /\ T.entry[Head(T.order)].st \notin Settled
         /\ T.known \in Versions
<1>1. T.order \in Seq(Changes) /\ T.known \in Versions
      /\ \A c \in Changes : T.entry[c].st \notin Settled <=> Occurs(T.order, c)
  BY PageFacts
<1>2. 1 \in DOMAIN T.order /\ T.order[1] = Head(T.order) /\ Head(T.order) \in Changes
  BY <1>1
<1> QED
  BY <1>1, <1>2 DEF Occurs

(* One entry of a page changes, and nothing else but what was asked of the *)
(* queue store.                                                            *)
LEMMA Changed ==
  ASSUME NEW M \in Histories, NEW L, NEW B, NEW T \in Pages(M, L, B),
         NEW U \in PageSet(M, L), NEW c \in Changes,
         U.known = T.known, U.order = T.order, U.told = T.told,
         \A d \in Changes : d # c => U.entry[d] = T.entry[d],
         EntryOK(M, L, B, c, U.entry[c]),
         U.entry[c].st \in Settled <=> T.entry[c].st \in Settled
  PROVE  U \in Pages(M, L, B)
<1>1. Lists(T) /\ \A d \in Changes : EntryOK(M, L, B, d, T.entry[d])
                                     /\ ("done" \in T.told[d] => d \in L)
  BY PageFacts
<1>2. Lists(U)
  BY <1>1 DEF Lists
<1>3. \A d \in Changes : EntryOK(M, L, B, d, U.entry[d]) /\ ("done" \in U.told[d] => d \in L)
  BY <1>1
<1> QED
  BY <1>2, <1>3 DEF Pages

(* An unsettled change gets another unsettled status.                      *)
LEMMA Restated ==
  ASSUME NEW M \in Histories, NEW L, NEW B, NEW T \in Pages(M, L, B), NEW c \in Changes,
         T.entry[c].st \notin Settled, NEW st \in Statuses \ Settled,
         st \in InExchange => ~T.entry[c].stored \/ c \in B,
         st = "sending" => T.entry[c].fence # None
  PROVE  [T EXCEPT !.entry[c].st = st] \in Pages(M, L, B)
<1> DEFINE e == [T.entry[c] EXCEPT !.st = st]
<1>1. T.entry[c] \in Entries /\ EntryOK(M, L, B, c, T.entry[c]) /\ T.entry \in [Changes -> Entries]
  BY PageFacts
<1>2. e \in Entries
  BY <1>1 DEF Entries
<1>3. /\ e.st = st /\ e.stored = T.entry[c].stored /\ e.heard = T.entry[c].heard
      /\ e.fence = T.entry[c].fence /\ e.fencing = T.entry[c].fencing
  BY <1>1 DEF Entries
<1> HIDE DEF e
<1>4. EntryOK(M, L, B, c, e)
  BY <1>1, <1>3 DEF EntryOK
<1>5. [T EXCEPT !.entry[c] = e] \in Pages(M, L, B)
  BY <1>2, <1>3, <1>4, WithEntry
<1> QED
  BY <1>5 DEF e

LEMMA PumpKeeps ==
  ASSUME NEW M \in Histories, NEW L, NEW B, NEW T \in Pages(M, L, B)
  PROVE  Pump(T) \in Pages(M, L, B)
<1>1. CASE T.order # <<>> /\ T.entry[Head(T.order)].st = "queued"
  <2>1. Head(T.order) \in Changes /\ T.entry[Head(T.order)].st \notin Settled
    BY <1>1, HeadFacts
  <2>2. "saving" \in Statuses \ Settled /\ "saving" \notin InExchange
    BY DEF Statuses, Settled, InExchange
  <2>3. Start(T, Head(T.order)) \in Pages(M, L, B)
    BY <2>1, <2>2, Restated DEF Start
  <2> QED
    BY <1>1, <2>3 DEF Pump
<1> QED
  BY <1>1 DEF Pump

LEMMA FenceFixed ==
  ASSUME NEW M \in Histories, NEW L, NEW B, NEW T \in Pages(M, L, B), NEW c \in Changes,
         T.entry[c].st \notin Settled
  PROVE  FixFence(T, c) \in Pages(M, L, B)
<1>1. CASE T.entry[c].fencing # "unset"
  BY <1>1 DEF FixFence
<1>2. CASE T.entry[c].fencing = "unset"
  <2> DEFINE e == [T.entry[c] EXCEPT !.fence = FenceOf(T, c), !.fencing = "writing"]
             job == [op |-> "fence", id |-> c, fence |-> FenceOf(T, c)]
  <2>1. /\ T.entry[c] \in Entries /\ EntryOK(M, L, B, c, T.entry[c]) /\ T \in PageSet(M, L)
        /\ T.entry \in [Changes -> Entries] /\ Occurs(T.order, c)
    BY PageFacts
  <2>2. T.known \in Versions
    <3>1. T.order # <<>>
      BY <2>1 DEF Occurs
    <3> QED
      BY <3>1, PageFacts
  <2>3. FenceOf(T, c) \in Versions /\ FenceOf(T, c) # None
    BY <2>1, <2>2, HistoryFacts DEF FenceOf, Entries, Fences
  <2>4. c \in DOMAIN M /\ ~M[c].first
    BY <1>2, <2>1 DEF EntryOK
  <2>5. e \in Entries
    BY <2>1, <2>3 DEF Entries, Fences
  <2>6. /\ e.st = T.entry[c].st /\ e.stored = T.entry[c].stored /\ e.heard = T.entry[c].heard
        /\ e.fence = FenceOf(T, c)
    BY <2>1 DEF Entries
  <2> HIDE DEF e
  <2>7. EntryOK(M, L, B, c, e)
    BY <2>1, <2>3, <2>4, <2>6 DEF EntryOK
  <2>8. [T EXCEPT !.entry[c] = e] \in Pages(M, L, B)
    BY <2>5, <2>6, <2>7, WithEntry
  <2>9. job \in Tasks(M, L)
    BY <2>3, <2>4 DEF Tasks, Jobs
  <2>10. [T EXCEPT !.entry[c].fence = FenceOf(T, c), !.entry[c].fencing = "writing"]
           = [T EXCEPT !.entry[c] = e]
    BY <2>1 DEF e, PageSet, Entries
  <2> QED
    BY <1>2, <2>8, <2>9, <2>10, Asked DEF FixFence
<1> QED
  BY <1>1, <1>2

LEMMA FixNextKeeps ==
  ASSUME NEW M \in Histories, NEW L, NEW B, NEW T \in Pages(M, L, B)
  PROVE  FixNext(T) \in Pages(M, L, B)
BY HeadFacts, FenceFixed DEF FixNext

LEMMA RetireKeeps ==
  ASSUME NEW M \in Histories, NEW L, NEW B, NEW T \in Pages(M, L, B), NEW c \in DOMAIN M,
         NEW note \in Reports(L), note.id = c
  PROVE  Retire(T, c, note) \in Pages(M, L, B)
<1> DEFINE job == [op |-> "remove", id |-> c, note |-> note]
<1>1. job \in Tasks(M, L)
  <2>1. note \in Notes /\ c \in Changes
    BY HistoryFacts DEF Reports
  <2> QED
    BY <2>1 DEF Tasks, Jobs
<1> QED
  BY <1>1, Asked DEF Retire

LEMMA AbsentIs ==
  /\ Absent \in Entries /\ Over \in Entries /\ Remembered \in Entries
  /\ Absent.st \in Settled /\ Over.st \in Settled /\ Remembered.st \in Settled
  /\ ~Absent.stored /\ ~Over.stored /\ ~Remembered.stored
  /\ Absent.heard = None /\ Over.heard = None /\ Remembered.heard = None
<1>1. Absent \in Entries
  BY ReaderAssumption DEF Absent, Entries, Statuses, Settled, Fences
<1>2. /\ Absent.st = "none" /\ Over.st = "over" /\ Remembered.st = "remembered"
      /\ ~Absent.stored /\ ~Over.stored /\ ~Remembered.stored
      /\ Absent.heard = None /\ Over.heard = None /\ Remembered.heard = None
  BY DEF Absent, Over, Remembered
<1>3. Over \in Entries /\ Remembered \in Entries
  BY <1>1 DEF Over, Remembered, Entries, Statuses, Settled
<1> QED
  BY <1>1, <1>2, <1>3 DEF Settled

(* A settled entry of a page is sound whatever the history.                *)
LEMMA SettledOK ==
  ASSUME NEW M, NEW L, NEW B, NEW c, NEW e \in {Absent, Over, Remembered}
  PROVE  EntryOK(M, L, B, c, e)
BY AbsentIs DEF EntryOK, Settled, InExchange

(* A change leaves its page's queue.                                       *)
LEMMA LeftKeeps ==
  ASSUME NEW M \in Histories, NEW L, NEW B, NEW T \in Pages(M, L, B), NEW c \in Changes,
         NEW over \in {Over, Remembered}, NEW out \in Outcomes, out = "done" => c \in L
  PROVE  [T EXCEPT !.order = RemoveFirst(@, c), !.entry[c] = over,
                   !.told[c] = @ \cup {out}] \in Pages(M, L, B)
<1> DEFINE U == [T EXCEPT !.order = RemoveFirst(@, c), !.entry[c] = over,
                          !.told[c] = @ \cup {out}]
<1>1. /\ T \in PageSet(M, L) /\ T.order \in Seq(Changes) /\ NoRepeats(T.order)
      /\ T.entry \in [Changes -> Entries] /\ T.told \in [Changes -> SUBSET Outcomes]
      /\ T.order # <<>> => T.known \in Versions
      /\ \A d \in Changes : /\ EntryOK(M, L, B, d, T.entry[d]) /\ ("done" \in T.told[d] => d \in L)
                            /\ T.entry[d].st \notin Settled <=> Occurs(T.order, d)
  BY PageFacts
<1>2. over \in Entries /\ over.st \in Settled /\ EntryOK(M, L, B, c, over)
  BY AbsentIs, SettledOK
<1> DEFINE q == RemoveFirst(T.order, c)
<1>3. q \in Seq(Changes) /\ NoRepeats(q) /\ \A x : Occurs(q, x) <=> x # c /\ Occurs(T.order, x)
  BY <1>1, RemovedFirst
<1>4. /\ U.order = q /\ U.known = T.known /\ U.entry = [T.entry EXCEPT ![c] = over]
      /\ U.told = [T.told EXCEPT ![c] = @ \cup {out}]
  BY <1>1 DEF PageSet
<1> HIDE DEF q
<1>5. U \in PageSet(M, L)
  <2>1. U = [T EXCEPT !.order = q, !.entry[c] = over, !.told[c] = @ \cup {out}]
    BY DEF q
  <2> HIDE DEF U
  <2> QED
    BY <1>1, <1>2, <1>3, <2>1 DEF PageSet
<1> HIDE DEF U
<1>6. Lists(U)
  <2>1. ASSUME NEW d \in Changes
        PROVE  U.entry[d].st \notin Settled <=> Occurs(U.order, d)
    BY <1>1, <1>2, <1>3, <1>4
  <2>2. U.order # <<>> => U.known # Unknown
    <3>1. ASSUME q # <<>>
          PROVE  T.order # <<>>
      <4>1. 1 \in DOMAIN q
        BY <1>3, <3>1
      <4>2. Occurs(T.order, q[1])
        BY <1>3, <4>1 DEF Occurs
      <4> QED
        BY <4>2 DEF Occurs
    <3> QED
      BY <1>1, <1>4, <3>1, HistoryFacts
  <2> QED
    BY <1>3, <1>4, <2>1, <2>2 DEF Lists
<1>7. \A d \in Changes : EntryOK(M, L, B, d, U.entry[d]) /\ ("done" \in U.told[d] => d \in L)
  BY <1>1, <1>2, <1>4
<1>8. U \in Pages(M, L, B)
  BY <1>5, <1>6, <1>7 DEF Pages
<1> QED
  BY <1>8 DEF U

LEMMA SettleKeeps ==
  ASSUME NEW M \in Histories, NEW L, NEW B, NEW T \in Pages(M, L, B), NEW c \in Changes,
         NEW note \in Reports(L), note.id = c
  PROVE  Settle(T, c, note) \in Pages(M, L, B)
<1> DEFINE acknowledged == note.out = "done" /\ T.entry[c].st = "sending"
           over == IF acknowledged \/ note.out \in {"refused", "unsent"} THEN Remembered ELSE Over
           left == [T EXCEPT !.order = RemoveFirst(@, c), !.entry[c] = over,
                             !.told[c] = @ \cup {note.out}]
           fenced == FixNext(left)
           last == IF T.entry[c].stored THEN Retire(fenced, c, note) ELSE fenced
<1>1. left \in Pages(M, L, B)
  <2>1. note.out \in Outcomes /\ (note.out = "done" => c \in L)
    BY DEF Reports, Notes
  <2>2. over \in {Over, Remembered}
    OBVIOUS
  <2> HIDE DEF over
  <2> QED
    BY <2>1, <2>2, LeftKeeps
<1> HIDE DEF left
<1>2. fenced \in Pages(M, L, B)
  BY <1>1, FixNextKeeps
<1> HIDE DEF fenced
<1>3. T.entry[c].stored => c \in DOMAIN M
  BY PageFacts DEF EntryOK
<1>4. last \in Pages(M, L, B)
  BY <1>2, <1>3, RetireKeeps
<1> HIDE DEF last
<1>5. Pump(last) \in Pages(M, L, B)
  BY <1>4, PumpKeeps
<1>6. Settle(T, c, note) = Pump(last)
  BY DEF Settle, last, fenced, left
<1> QED
  BY <1>5, <1>6

LEMMA DroppedNote ==
  ASSUME NEW L, NEW c \in Changes, NEW out \in Outcomes \ {"done", "stale"}
  PROVE  Note(c, out, None) \in Reports(L) /\ Note(c, out, None).id = c
         /\ Note(c, out, None).out = out
BY DEF Note, Reports, Notes

(* The changes behind one in the queue, from the last.                     *)
LEMMA BehindIs ==
  ASSUME NEW T, T.order \in Seq(Changes), NEW c, Occurs(T.order, c)
  PROVE  /\ IsList(Behind(T, c)) /\ IsList(Reverse(Behind(T, c))) /\ Behind(T, c) \in Seq(Changes)
         /\ \A x : Occurs(Behind(T, c), x) => Occurs(T.order, x)
<1>1. Place(T, c) \in DOMAIN T.order
  BY DEF Place, Occurs
<1> DEFINE u == Place(T, c) + 1
           v == Len(T.order)
           q == Behind(T, c)
<1>2. u \in Int /\ v \in Nat /\ 1 <= u /\ u <= v + 1 /\ v <= Len(T.order) /\ q = SubSeq(T.order, u, v)
      /\ DOMAIN T.order = 1 .. v
  BY <1>1 DEF Behind
<1> HIDE DEF u, v, q
<1>3. q \in Seq(Changes) /\ \A i \in 1 .. (v - u + 1) : q[i] = T.order[u + i - 1]
      /\ DOMAIN q = 1 .. (v - u + 1) /\ Len(q) = v - u + 1
  BY <1>2, PartOf
<1>4. IsList(q)
  <2>1. v - u + 1 \in Nat
    BY <1>2
  <2>2. \A i \in 1 .. (v - u + 1) : q[i] \in Changes
    BY <1>3
  <2> QED
    BY <1>3, <2>1, <2>2 DEF IsList
<1>5. IsList(Reverse(q))
  <2>1. Reverse(q) = [i \in 1 .. Len(q) |-> q[Len(q) - i + 1]] /\ Len(q) \in Nat
        /\ \A i \in 1 .. Len(q) : q[Len(q) - i + 1] \in Changes
    BY <1>3 DEF Reverse
  <2> DEFINE r == Reverse(q)
             n == Len(q)
  <2>2. DOMAIN r = 1 .. n /\ n \in Nat /\ \A i \in 1 .. n : r[i] \in Changes
    BY <2>1
  <2> HIDE DEF r, n
  <2>3. IsList(r)
    BY <2>2 DEF IsList
  <2> QED
    BY <2>3 DEF r
<1>6. ASSUME NEW x, Occurs(q, x)
      PROVE  Occurs(T.order, x)
  <2>1. PICK i \in DOMAIN q : q[i] = x
    BY <1>6 DEF Occurs
  <2> DEFINE j == u + i - 1
  <2>2. i \in 1 .. (v - u + 1) /\ j \in DOMAIN T.order
    BY <1>2, <1>3, <2>1
  <2>3. q[i] = T.order[j]
    BY <1>3, <2>2
  <2> HIDE DEF j
  <2> QED
    BY <2>1, <2>2, <2>3 DEF Occurs
<1> QED
  BY <1>3, <1>4, <1>5, <1>6 DEF q

LEMMA DropKeeps ==
  ASSUME NEW M \in Histories, NEW L, NEW B, NEW T \in Pages(M, L, B), NEW c \in Changes,
         NEW note \in Reports(L), note.id = c
  PROVE  Drop(T, c, note) \in Pages(M, L, B)
<1> DEFINE X == Pages(M, L, B)
           later == IF T.entry[c].stored /\ T.entry[c].replayed THEN Behind(T, c) ELSE <<>>
           last == FoldLeft(LAMBDA U, d : IF T.entry[d].stored
                                          THEN Settle(U, d, Note(d, "dropped", None)) ELSE U,
                            T, Reverse(later))
<1>1. IsList(Reverse(later))
  <2>1. CASE T.entry[c].stored /\ T.entry[c].replayed
    <3>1. T.order \in Seq(Changes) /\ Occurs(T.order, c)
      BY <2>1, PageFacts DEF EntryOK
    <3>2. later = Behind(T, c)
      BY <2>1
    <3> HIDE DEF later
    <3> QED
      BY <3>1, <3>2, BehindIs
  <2>2. CASE ~(T.entry[c].stored /\ T.entry[c].replayed)
    <3>1. later = <<>>
      BY <2>2
    <3>2. Reverse(later) = <<>> /\ DOMAIN <<>> = 1 .. 0 /\ 0 \in Nat
      BY <3>1 DEF Reverse
    <3> QED
      BY <3>2 DEF IsList
  <2> QED
    BY <2>1, <2>2
<1>2. \A U \in X, d \in Changes : Dropped(T, U, d) \in X
  <2>1. ASSUME NEW U \in X, NEW d \in Changes
        PROVE  Settle(U, d, Note(d, "dropped", None)) \in X
    <3>1. "dropped" \in Outcomes \ {"done", "stale"}
      BY DEF Outcomes
    <3>2. Note(d, "dropped", None) \in Reports(L) /\ Note(d, "dropped", None).id = d
      BY <3>1, DroppedNote
    <3> QED
      BY <3>2, SettleKeeps
  <2> QED
    BY <2>1 DEF Dropped
<1>3. last \in X
  <2> HIDE DEF X, later
  <2>1. T \in X
    BY DEF X
  <2> QED
    BY <1>1, <1>2, <2>1, DropsKeep
<1>4. Drop(T, c, note) = Settle(last, c, note)
  BY Zenon DEF Drop, last, later
<1> HIDE DEF last, later
<1> QED
  BY <1>3, <1>4, SettleKeeps

LEMMA LearnKeeps ==
  ASSUME NEW M \in Histories, NEW L, NEW B, NEW T \in Pages(M, L, B), NEW version \in Versions
  PROVE  Learn(T, version) \in Pages(M, L, B) /\ Learn(T, version).known \in Versions
         /\ Learn(T, version).entry = T.entry /\ Learn(T, version).order = T.order
<1> DEFINE U == Learn(T, version)
           k == Newer(T.known, version)
<1>1. T \in PageSet(M, L) /\ T.known \in Versions \cup {Unknown} /\ Lists(T)
      /\ \A d \in Changes : EntryOK(M, L, B, d, T.entry[d]) /\ ("done" \in T.told[d] => d \in L)
  BY PageFacts
<1>2. k \in Versions
  <2>1. Unknown = -1 /\ \A v \in Versions : v \in Nat
    BY ReaderAssumption DEF Unknown, Versions
  <2> QED
    BY <1>1, <2>1 DEF Newer
<1> HIDE DEF k
<1>3. U = [T EXCEPT !.known = k]
  BY DEF Learn, k
<1> HIDE DEF U
<1>4. U \in PageSet(M, L)
  BY <1>1, <1>2, <1>3 DEF PageSet
<1>5. U.known = k /\ U.order = T.order /\ U.entry = T.entry /\ U.told = T.told
  BY <1>1, <1>3 DEF PageSet
<1>6. Lists(U)
  BY <1>1, <1>2, <1>5, HistoryFacts DEF Lists
<1>7. U \in Pages(M, L, B)
  BY <1>1, <1>4, <1>5, <1>6 DEF Pages
<1> QED
  BY <1>2, <1>5, <1>7 DEF U

LEMMA StoredKeeps ==
  ASSUME NEW M \in Histories, NEW L, NEW B, NEW T \in Pages(M, L, B), NEW c \in Changes,
         NEW stored \in BOOLEAN, stored => T.entry[c].stored
  PROVE  [T EXCEPT !.entry[c].stored = stored] \in Pages(M, L, B)
<1> DEFINE e == [T.entry[c] EXCEPT !.stored = stored]
<1>1. T.entry[c] \in Entries /\ EntryOK(M, L, B, c, T.entry[c])
  BY PageFacts
<1>2. e \in Entries
  BY <1>1 DEF Entries
<1>3. /\ e.st = T.entry[c].st /\ e.stored = stored /\ e.heard = T.entry[c].heard
      /\ e.fence = T.entry[c].fence /\ e.fencing = T.entry[c].fencing
  BY <1>1 DEF Entries
<1> HIDE DEF e
<1>4. EntryOK(M, L, B, c, e)
  BY <1>1, <1>3 DEF EntryOK
<1>5. [T EXCEPT !.entry[c] = e] \in Pages(M, L, B)
  BY <1>2, <1>3, <1>4, WithEntry
<1> QED
  BY <1>5 DEF e

LEMMA SettleElsewhereKeeps ==
  ASSUME NEW M \in Histories, NEW L, NEW B, NEW T \in Pages(M, L, B), NEW c \in Changes,
         NEW note \in Reports(L) \cup {None}, note # None => note.id = c
  PROVE  SettleElsewhere(T, c, note) \in Pages(M, L, B)
<1> DEFINE said == Heard(c, note)
           learnt == IF said.out \in {"done", "stale"} THEN Learn(T, said.version) ELSE T
           U == [learnt EXCEPT !.entry[c].stored = FALSE]
<1>1. said \in Reports(L) /\ said.id = c
  <2>1. "gone" \in Outcomes \ {"done", "stale"}
    BY DEF Outcomes
  <2>2. Note(c, "gone", None) \in Reports(L) /\ Note(c, "gone", None).id = c
    BY <2>1, DroppedNote
  <2> QED
    BY <2>2 DEF Heard
<1>2. learnt \in Pages(M, L, B)
  <2>1. said.out \in {"done", "stale"} => said.version \in Versions
    BY <1>1 DEF Reports
  <2> HIDE DEF said
  <2> QED
    BY <2>1, LearnKeeps
<1> HIDE DEF learnt
<1>3. U \in Pages(M, L, B)
  BY <1>2, StoredKeeps
<1>4. SettleElsewhere(T, c, note) = Settle(U, c, said)
  BY DEF SettleElsewhere, learnt
<1> HIDE DEF U, said
<1> QED
  BY <1>1, <1>3, <1>4, SettleKeeps

LEMMA ParkKeeps ==
  ASSUME NEW M \in Histories, NEW L, NEW B, NEW T \in Pages(M, L, B), NEW c \in Changes,
         T.entry[c].st \notin Settled
  PROVE  Park(T, c) \in Pages(M, L, B)
<1> DEFINE e == [T.entry[c] EXCEPT !.st = "waiting", !.replayed = TRUE, !.try = 0]
<1>1. /\ T.entry[c] \in Entries /\ EntryOK(M, L, B, c, T.entry[c])
      /\ T.entry \in [Changes -> Entries] /\ T \in PageSet(M, L)
  BY PageFacts
<1>2. e \in Entries
  <2>1. "waiting" \in Statuses /\ TRUE \in BOOLEAN /\ 0 \in 0 .. MaxRetries
    BY ReaderAssumption DEF Statuses
  <2> DEFINE d == [T.entry[c] EXCEPT !.st = "waiting"]
             f == [d EXCEPT !.replayed = TRUE]
  <2>2. d \in Entries
    BY <1>1, <2>1 DEF Entries
  <2> HIDE DEF d
  <2>3. f \in Entries
    BY <2>1, <2>2 DEF Entries
  <2> HIDE DEF f
  <2>4. [f EXCEPT !.try = 0] \in Entries
    BY <2>1, <2>3 DEF Entries
  <2>5. e = [f EXCEPT !.try = 0]
    BY <1>1 DEF d, f, Entries
  <2> QED
    BY <2>4, <2>5
<1>3. /\ e.st = "waiting" /\ e.stored = T.entry[c].stored /\ e.heard = T.entry[c].heard
      /\ e.fence = T.entry[c].fence /\ e.fencing = T.entry[c].fencing
  BY <1>1 DEF Entries
<1> HIDE DEF e
<1>4. "waiting" \notin Settled /\ "waiting" \notin InExchange /\ "waiting" # "sending"
  BY DEF Settled, InExchange
<1>5. EntryOK(M, L, B, c, e)
  BY <1>1, <1>3, <1>4 DEF EntryOK
<1>6. [T EXCEPT !.entry[c] = e] \in Pages(M, L, B)
  BY <1>2, <1>3, <1>4, <1>5, WithEntry
<1>7. Park(T, c) = [T EXCEPT !.entry[c] = e]
  BY <1>1, ZenonT(60) DEF Park, e, PageSet, Entries
<1> QED
  BY <1>6, <1>7

LEMMA TransmitKeeps ==
  ASSUME NEW M \in Histories, NEW L, NEW B, NEW T \in Pages(M, L, B), NEW c \in Changes,
         T.entry[c].st \notin Settled, ~T.entry[c].stored \/ c \in B
  PROVE  Transmit(T, c) \in Pages(M, L, B)
<1> DEFINE e == [T.entry[c] EXCEPT !.st = "sending", !.try = 0, !.fence = FenceOf(T, c)]
<1>1. /\ T.entry[c] \in Entries /\ EntryOK(M, L, B, c, T.entry[c])
      /\ T.entry \in [Changes -> Entries] /\ T \in PageSet(M, L) /\ Occurs(T.order, c)
  BY PageFacts
<1>2. FenceOf(T, c) \in Versions /\ FenceOf(T, c) # None
      /\ (M[c].first => FenceOf(T, c) = T.entry[c].fence)
  <2>1. T.order # <<>>
    BY <1>1 DEF Occurs
  <2>2. T.known \in Versions
    BY <2>1, PageFacts
  <2>3. M[c].first => T.entry[c].fence # None
    BY <1>1, HistoryFacts DEF EntryOK
  <2> QED
    BY <1>1, <2>2, <2>3, HistoryFacts DEF FenceOf, Entries, Fences
<1>3. e \in Entries
  <2>1. "sending" \in Statuses /\ 0 \in 0 .. MaxRetries /\ FenceOf(T, c) \in Fences
    BY <1>2, ReaderAssumption DEF Statuses, InExchange, Fences
  <2> DEFINE d == [T.entry[c] EXCEPT !.st = "sending"]
             f == [d EXCEPT !.try = 0]
             v == FenceOf(T, c)
  <2>2. d \in Entries
    BY <1>1, <2>1 DEF Entries
  <2> HIDE DEF d
  <2>3. f \in Entries
    BY <2>1, <2>2 DEF Entries
  <2> HIDE DEF f, v
  <2>4. [f EXCEPT !.fence = v] \in Entries
    BY <2>1, <2>3 DEF Entries, v
  <2>5. e = [f EXCEPT !.fence = v]
    BY <1>1 DEF d, f, v, Entries
  <2> QED
    BY <2>4, <2>5
<1>4. /\ e.st = "sending" /\ e.stored = T.entry[c].stored /\ e.heard = T.entry[c].heard
      /\ e.fence = FenceOf(T, c) /\ e.fencing = T.entry[c].fencing
  BY <1>1 DEF Entries
<1> HIDE DEF e
<1>5. "sending" \notin Settled
  BY DEF Settled
<1>6. EntryOK(M, L, B, c, e)
  BY <1>1, <1>2, <1>4, <1>5 DEF EntryOK
<1>7. [T EXCEPT !.entry[c] = e] \in Pages(M, L, B)
  BY <1>3, <1>4, <1>5, <1>6, WithEntry
<1>8. Transmit(T, c) = [T EXCEPT !.entry[c] = e]
  BY <1>1, ZenonT(60) DEF Transmit, e, PageSet, Entries
<1> QED
  BY <1>7, <1>8

LEMMA SweepKeeps ==
  ASSUME NEW M \in Histories, NEW L, NEW B, NEW T \in Pages(M, L, B)
  PROVE  Sweep(T) \in Pages(M, L, B)
<1> DEFINE f == [c \in Changes |-> IF T.entry[c].st = "over" THEN Absent ELSE T.entry[c]]
           U == Sweep(T)
<1>1. /\ T \in PageSet(M, L) /\ Lists(T)
      /\ \A d \in Changes : /\ T.entry[d] \in Entries /\ EntryOK(M, L, B, d, T.entry[d])
                            /\ ("done" \in T.told[d] => d \in L)
  BY PageFacts
<1>2. f \in [Changes -> Entries]
  BY <1>1, AbsentIs
<1>3. U = [T EXCEPT !.entry = f]
  BY DEF Sweep
<1>4. \A d \in Changes : f[d] = T.entry[d] \/ (f[d] = Absent /\ T.entry[d].st \in Settled)
  BY DEF Settled
<1> HIDE DEF U, f
<1>5. U \in PageSet(M, L)
  BY <1>1, <1>2, <1>3 DEF PageSet
<1>6. U.known = T.known /\ U.order = T.order /\ U.entry = f /\ U.told = T.told
  BY <1>1, <1>3 DEF PageSet
<1>7. Lists(U)
  BY <1>1, <1>4, <1>6, AbsentIs DEF Lists
<1>8. \A d \in Changes : EntryOK(M, L, B, d, f[d])
  BY <1>1, <1>4, SettledOK
<1>9. U \in Pages(M, L, B)
  BY <1>1, <1>5, <1>6, <1>7, <1>8 DEF Pages
<1> QED
  BY <1>9 DEF U

(* What is true of a page stays true when more was made and applied.       *)
LEMMA PagesGrow ==
  ASSUME NEW M \in Histories, NEW N \in Histories, NEW L, NEW K, NEW B, NEW C,
         DOMAIN M \subseteq DOMAIN N, \A c \in DOMAIN M : N[c] = M[c],
         L \subseteq K, B \subseteq C
  PROVE  /\ Pages(M, L, B) \subseteq Pages(N, K, C)
         /\ Tasks(M, L) \subseteq Tasks(N, K) /\ Reports(L) \subseteq Reports(K)
<1>1. Reports(L) \subseteq Reports(K)
  BY DEF Reports
<1>2. Tasks(M, L) \subseteq Tasks(N, K)
  <2>1. ASSUME NEW j \in Tasks(M, L)
        PROVE  j \in Tasks(N, K)
    <3>1. /\ j \in Jobs /\ j.id \in DOMAIN M /\ j.id \in DOMAIN N /\ N[j.id] = M[j.id]
          /\ j.op = "save" => RecordOK(M, j.id, j.rec)
          /\ j.op = "remove" => j.note \in Reports(L) /\ j.note.id = j.id
          /\ j.op = "fence" => ~M[j.id].first
      BY DEF Tasks
    <3>2. j.op = "save" => RecordOK(N, j.id, j.rec)
      BY <3>1 DEF RecordOK
    <3> QED
      BY <1>1, <3>1, <3>2 DEF Tasks
  <2> QED
    BY <2>1
<1>3. ASSUME NEW T \in Pages(M, L, B)
      PROVE  T \in Pages(N, K, C)
  <2>1. /\ T \in PageSet(M, L) /\ Lists(T) /\ T.disk \in Seq(Tasks(M, L))
        /\ \A d \in Changes : EntryOK(M, L, B, d, T.entry[d]) /\ ("done" \in T.told[d] => d \in L)
    BY PageFacts
  <2>2. T \in PageSet(N, K)
    <3> DEFINE D == Tasks(M, L)
               E == Tasks(N, K)
    <3>1. T.disk \in Seq(D) /\ D \subseteq E
      BY <1>2, <2>1
    <3> HIDE DEF D, E
    <3>2. T.disk \in Seq(E)
      BY <3>1
    <3> QED
      BY <2>1, <3>2 DEF PageSet, E
  <2>3. ASSUME NEW d \in Changes
        PROVE  EntryOK(N, K, C, d, T.entry[d])
    BY <1>1, <2>1 DEF EntryOK
  <2> QED
    BY <2>1, <2>2, <2>3 DEF Pages
<1> QED
  BY <1>1, <1>2, <1>3

-----------------------------------------------------------------------------
(* The other folds of a page's steps: what a cancelled change leaves to    *)
(* those behind it, what a replay takes away, shows again and drops.       *)

Rewritten(T, c, U, d) ==
  IF ~(T.entry[d].stored /\ T.entry[d].after = c) THEN U
  ELSE Ask([U EXCEPT !.entry[d].after = T.entry[c].after],
           [op |-> "after", id |-> d, after |-> T.entry[c].after])

Lost(recs, old, U, c) ==
  IF /\ c \in old /\ c \in Durable(U) /\ c \notin DOMAIN recs
     /\ U.entry[c].st \in {"waiting", "queued"}
  THEN SettleElsewhere(U, c, None)
  ELSE U

Shown(recs, U, c) ==
  IF c \in DOMAIN recs /\ U.entry[c].st = "none"
  THEN RestoreEntry(U, c, recs[c])
  ELSE U

Aged(U, c) ==
  IF U.entry[c].stored /\ U.entry[c].st \in {"waiting", "queued"}
  THEN Settle(U, c, Note(c, "dropped", None))
  ELSE U


Rewrites(T, c, base, s) ==
  FoldLeft(LAMBDA U, d : IF ~(T.entry[d].stored /\ T.entry[d].after = c) THEN U
                         ELSE Ask([U EXCEPT !.entry[d].after = T.entry[c].after],
                                  [op |-> "after", id |-> d, after |-> T.entry[c].after]),
           base, s)

AreRewrites(h, T, c, base, s, S) ==
  h = [r \in SUBSET S |-> IF r = {} THEN base
                          ELSE Rewritten(T, c, h[r \ {Max(r)}], s[Max(r)])]

LEMMA RewritesKeep ==
  ASSUME NEW T, NEW c, NEW s, IsList(s), NEW X, NEW base \in X,
         \A U \in X, d \in Changes : Rewritten(T, c, U, d) \in X
  PROVE  Rewrites(T, c, base, s) \in X
<1> DEFINE step == [p \in X \X Changes |-> Rewritten(T, c, p[1], p[2])]
           N == DOMAIN s
<1>1. \A U \in X, d \in Changes : step[<<U, d>>] = Rewritten(T, c, U, d)
  OBVIOUS
<1>2. PICK h : /\ IsRun(h, step, base, s, N)
               /\ \A r \in SUBSET N : r # {} =>
                     h[r \ {Max(r)}] \in X /\ s[Max(r)] \in Changes
  <2>1. \A U \in X, d \in Changes : step[<<U, d>>] \in X
    BY <1>1
  <2> HIDE DEF step
  <2> QED
    BY <2>1, StepRun, Zenon
<1> HIDE DEF step
<1>3. AreRewrites(h, T, c, base, s, N)
  <2>1. \A r \in SUBSET N : r # {} =>
          step[<<h[r \ {Max(r)}], s[Max(r)]>>]
            = Rewritten(T, c, h[r \ {Max(r)}], s[Max(r)])
    BY <1>1, <1>2
  <2> QED
    BY <1>2, <2>1, Zenon DEF AreRewrites, IsRun
<1> DEFINE k == CHOOSE k : AreRewrites(k, T, c, base, s, N)
<1>4. AreRewrites(k, T, c, base, s, N)
  BY <1>3
<1> HIDE DEF k
<1>5. k[N] \in X
  <2>1. Ranked(N) /\ \A r \in SUBSET N : r # {} => s[Max(r)] \in Changes
    BY <1>2, IntervalRanked DEF IsList
  <2>2. ASSUME NEW r \in SUBSET N
        PROVE  IF r = {} THEN k[r] \in X ELSE k[r \ {Max(r)}] \in X => k[r] \in X
    <3>1. k[r] = IF r = {} THEN base ELSE Rewritten(T, c, k[r \ {Max(r)}], s[Max(r)])
      BY <1>4, <2>2 DEF AreRewrites
    <3> QED
      BY <2>1, <3>1
  <2> HIDE DEF N
  <2> QED
    BY <2>1, <2>2, RunInside
<1> QED
  BY <1>5, Zenon DEF Rewrites, FoldLeft, MapThenFoldSet, AreRewrites,
            Rewritten, k, N


Losses(recs, old, base, s) ==
  FoldLeft(LAMBDA U, c : IF /\ c \in old /\ c \in Durable(U) /\ c \notin DOMAIN recs
                            /\ U.entry[c].st \in {"waiting", "queued"}
                         THEN SettleElsewhere(U, c, None) ELSE U,
           base, s)

AreLosses(h, recs, old, base, s, S) ==
  h = [r \in SUBSET S |-> IF r = {} THEN base
                          ELSE Lost(recs, old, h[r \ {Max(r)}], s[Max(r)])]

LEMMA LossesKeep ==
  ASSUME NEW recs, NEW old, NEW s, IsList(s), NEW X, NEW base \in X,
         \A U \in X, d \in Changes : Lost(recs, old, U, d) \in X
  PROVE  Losses(recs, old, base, s) \in X
<1> DEFINE step == [p \in X \X Changes |-> Lost(recs, old, p[1], p[2])]
           N == DOMAIN s
<1>1. \A U \in X, d \in Changes : step[<<U, d>>] = Lost(recs, old, U, d)
  OBVIOUS
<1>2. PICK h : /\ IsRun(h, step, base, s, N)
               /\ \A r \in SUBSET N : r # {} =>
                     h[r \ {Max(r)}] \in X /\ s[Max(r)] \in Changes
  <2>1. \A U \in X, d \in Changes : step[<<U, d>>] \in X
    BY <1>1
  <2> HIDE DEF step
  <2> QED
    BY <2>1, StepRun, Zenon
<1> HIDE DEF step
<1>3. AreLosses(h, recs, old, base, s, N)
  <2>1. \A r \in SUBSET N : r # {} =>
          step[<<h[r \ {Max(r)}], s[Max(r)]>>]
            = Lost(recs, old, h[r \ {Max(r)}], s[Max(r)])
    BY <1>1, <1>2
  <2> QED
    BY <1>2, <2>1, Zenon DEF AreLosses, IsRun
<1> DEFINE k == CHOOSE k : AreLosses(k, recs, old, base, s, N)
<1>4. AreLosses(k, recs, old, base, s, N)
  BY <1>3
<1> HIDE DEF k
<1>5. k[N] \in X
  <2>1. Ranked(N) /\ \A r \in SUBSET N : r # {} => s[Max(r)] \in Changes
    BY <1>2, IntervalRanked DEF IsList
  <2>2. ASSUME NEW r \in SUBSET N
        PROVE  IF r = {} THEN k[r] \in X ELSE k[r \ {Max(r)}] \in X => k[r] \in X
    <3>1. k[r] = IF r = {} THEN base ELSE Lost(recs, old, k[r \ {Max(r)}], s[Max(r)])
      BY <1>4, <2>2 DEF AreLosses
    <3> QED
      BY <2>1, <3>1
  <2> HIDE DEF N
  <2> QED
    BY <2>1, <2>2, RunInside
<1> QED
  BY <1>5, Zenon DEF Losses, FoldLeft, MapThenFoldSet, AreLosses, Lost, k, N


AreShows(h, recs, base, s, S) ==
  h = [r \in SUBSET S |-> IF r = {} THEN base
                          ELSE Shown(recs, h[r \ {Max(r)}], s[Max(r)])]

LEMMA ShowsKeep ==
  ASSUME NEW recs, NEW s, IsList(s), NEW X, NEW base \in X,
         \A U \in X, d \in Changes : Shown(recs, U, d) \in X
  PROVE  FoldLeft(LAMBDA U, c : IF c \in DOMAIN recs /\ U.entry[c].st = "none"
                                THEN RestoreEntry(U, c, recs[c]) ELSE U,
                  base, s) \in X
<1> DEFINE step == [p \in X \X Changes |-> Shown(recs, p[1], p[2])]
           N == DOMAIN s
<1>1. \A U \in X, d \in Changes : step[<<U, d>>] = Shown(recs, U, d)
  OBVIOUS
<1>2. PICK h : /\ IsRun(h, step, base, s, N)
               /\ \A r \in SUBSET N : r # {} =>
                     h[r \ {Max(r)}] \in X /\ s[Max(r)] \in Changes
  <2>1. \A U \in X, d \in Changes : step[<<U, d>>] \in X
    BY <1>1
  <2> HIDE DEF step
  <2> QED
    BY <2>1, StepRun, Zenon
<1> HIDE DEF step
<1>3. AreShows(h, recs, base, s, N)
  <2>1. \A r \in SUBSET N : r # {} =>
          step[<<h[r \ {Max(r)}], s[Max(r)]>>]
            = Shown(recs, h[r \ {Max(r)}], s[Max(r)])
    BY <1>1, <1>2
  <2> QED
    BY <1>2, <2>1, Zenon DEF AreShows, IsRun
<1> DEFINE k == CHOOSE k : AreShows(k, recs, base, s, N)
<1>4. AreShows(k, recs, base, s, N)
  BY <1>3
<1> HIDE DEF k
<1>5. k[N] \in X
  <2>1. Ranked(N) /\ \A r \in SUBSET N : r # {} => s[Max(r)] \in Changes
    BY <1>2, IntervalRanked DEF IsList
  <2>2. ASSUME NEW r \in SUBSET N
        PROVE  IF r = {} THEN k[r] \in X ELSE k[r \ {Max(r)}] \in X => k[r] \in X
    <3>1. k[r] = IF r = {} THEN base ELSE Shown(recs, k[r \ {Max(r)}], s[Max(r)])
      BY <1>4, <2>2 DEF AreShows
    <3> QED
      BY <2>1, <3>1
  <2> HIDE DEF N
  <2> QED
    BY <2>1, <2>2, RunInside
<1> QED
  BY <1>5, Zenon DEF FoldLeft, MapThenFoldSet, AreShows, Shown, k, N


AreAged(h, base, s, S) ==
  h = [r \in SUBSET S |-> IF r = {} THEN base
                          ELSE Aged(h[r \ {Max(r)}], s[Max(r)])]

LEMMA AgedKeep ==
  ASSUME NEW s, IsList(s), NEW X, NEW base \in X,
         \A U \in X, d \in Changes : Aged(U, d) \in X
  PROVE  FoldLeft(LAMBDA U, c : IF U.entry[c].stored /\ U.entry[c].st \in {"waiting", "queued"}
                                THEN Settle(U, c, Note(c, "dropped", None)) ELSE U,
                  base, s) \in X
<1> DEFINE step == [p \in X \X Changes |-> Aged(p[1], p[2])]
           N == DOMAIN s
<1>1. \A U \in X, d \in Changes : step[<<U, d>>] = Aged(U, d)
  OBVIOUS
<1>2. PICK h : /\ IsRun(h, step, base, s, N)
               /\ \A r \in SUBSET N : r # {} =>
                     h[r \ {Max(r)}] \in X /\ s[Max(r)] \in Changes
  <2>1. \A U \in X, d \in Changes : step[<<U, d>>] \in X
    BY <1>1
  <2> HIDE DEF step
  <2> QED
    BY <2>1, StepRun, Zenon
<1> HIDE DEF step
<1>3. AreAged(h, base, s, N)
  <2>1. \A r \in SUBSET N : r # {} =>
          step[<<h[r \ {Max(r)}], s[Max(r)]>>]
            = Aged(h[r \ {Max(r)}], s[Max(r)])
    BY <1>1, <1>2
  <2> QED
    BY <1>2, <2>1, Zenon DEF AreAged, IsRun
<1> DEFINE k == CHOOSE k : AreAged(k, base, s, N)
<1>4. AreAged(k, base, s, N)
  BY <1>3
<1> HIDE DEF k
<1>5. k[N] \in X
  <2>1. Ranked(N) /\ \A r \in SUBSET N : r # {} => s[Max(r)] \in Changes
    BY <1>2, IntervalRanked DEF IsList
  <2>2. ASSUME NEW r \in SUBSET N
        PROVE  IF r = {} THEN k[r] \in X ELSE k[r \ {Max(r)}] \in X => k[r] \in X
    <3>1. k[r] = IF r = {} THEN base ELSE Aged(k[r \ {Max(r)}], s[Max(r)])
      BY <1>4, <2>2 DEF AreAged
    <3> QED
      BY <2>1, <3>1
  <2> HIDE DEF N
  <2> QED
    BY <2>1, <2>2, RunInside
<1> QED
  BY <1>5, Zenon DEF FoldLeft, MapThenFoldSet, AreAged, Aged, k, N

(* A queue as a change leaves it to those behind it.                       *)
LEMMA HandOverKeeps ==
  ASSUME NEW M \in Histories, NEW L, NEW B, NEW T \in Pages(M, L, B), NEW c \in Changes,
         T.entry[c].stored
  PROVE  HandOver(T, c) \in Pages(M, L, B)
<1> DEFINE X == {U \in Pages(M, L, B) : \A d \in Changes : U.entry[d].st = T.entry[d].st}
           behind == Behind(T, c)
           moved == Rewrites(T, c, T, behind)
           next == IF behind = <<>> THEN None ELSE Head(behind)
           fence == T.entry[c].fence
           last == [moved EXCEPT !.entry[next].fence = T.entry[c].fence]
<1>1. /\ T.order \in Seq(Changes) /\ Occurs(T.order, c)
      /\ \A d \in Changes : T.entry[d] \in Entries /\ EntryOK(M, L, B, d, T.entry[d])
  BY PageFacts DEF EntryOK
<1>2. IsList(behind) /\ behind \in Seq(Changes)
  BY <1>1, BehindIs
<1>3. ASSUME NEW U \in X, NEW d \in Changes
      PROVE  Rewritten(T, c, U, d) \in X
  <2>1. CASE ~(T.entry[d].stored /\ T.entry[d].after = c)
    BY <1>3, <2>1 DEF Rewritten
  <2>2. CASE T.entry[d].stored /\ T.entry[d].after = c
    <3> DEFINE after == T.entry[c].after
               e == [U.entry[d] EXCEPT !.after = T.entry[c].after]
               V == [U EXCEPT !.entry[d] = e]
               job == [op |-> "after", id |-> d, after |-> T.entry[c].after]
    <3>1. /\ U \in Pages(M, L, B) /\ U.entry[d] \in Entries /\ EntryOK(M, L, B, d, U.entry[d])
          /\ U.entry \in [Changes -> Entries] /\ U \in PageSet(M, L)
      BY PageFacts
    <3>2. after \in Changes \cup {None} /\ d \in DOMAIN M
      BY <1>1, <2>2 DEF Entries, EntryOK
    <3>3. e \in Entries
      <4> HIDE DEF after
      <4>1. e = [U.entry[d] EXCEPT !.after = after]
        BY DEF after
      <4> HIDE DEF e
      <4> QED
        BY <3>1, <3>2, <4>1 DEF Entries
    <3>4. /\ e.st = U.entry[d].st /\ e.stored = U.entry[d].stored /\ e.heard = U.entry[d].heard
          /\ e.fence = U.entry[d].fence /\ e.fencing = U.entry[d].fencing
      BY <3>1 DEF Entries
    <3> HIDE DEF e
    <3>5. EntryOK(M, L, B, d, e)
      BY <3>1, <3>4 DEF EntryOK
    <3>6. V \in Pages(M, L, B)
      BY <3>1, <3>3, <3>4, <3>5, WithEntry
    <3>7. \A x \in Changes : V.entry[x].st = T.entry[x].st
      <4>1. V.entry = [U.entry EXCEPT ![d] = e]
        BY <3>1 DEF PageSet
      <4> QED
        BY <3>1, <3>4, <4>1
    <3>8. job \in Tasks(M, L)
      BY <3>2 DEF Tasks, Jobs
    <3>9. V \in PageSet(M, L)
      BY <3>6, PageFacts
    <3> HIDE DEF V, job
    <3>10. Ask(V, job) \in Pages(M, L, B) /\ Ask(V, job).entry = V.entry
      <4>1. Ask(V, job).entry = V.entry
        BY <3>9 DEF Ask, PageSet
      <4> QED
        BY <3>6, <3>8, <4>1, Asked
    <3>11. Rewritten(T, c, U, d) = Ask(V, job)
      BY <2>2 DEF Rewritten, V, job, e
    <3> QED
      BY <3>7, <3>10, <3>11
  <2> QED
    BY <2>1, <2>2
<1>4. moved \in X
  <2> HIDE DEF X, behind
  <2>1. T \in X
    BY DEF X
  <2>2. \A U \in X, d \in Changes : Rewritten(T, c, U, d) \in X
    BY <1>3
  <2>3. IsList(behind)
    BY <1>2
  <2> QED
    BY <2>1, <2>2, <2>3, RewritesKeep
<1> HIDE DEF moved
<1>5. CASE ~(/\ Head0(T) = c /\ next # None /\ T.entry[next].stored
             /\ T.entry[next].fencing # "kept" /\ T.entry[next].fence = None)
  <2>1. HandOver(T, c) = moved
    BY <1>5, Zenon DEF HandOver, Rewrites, moved, next, behind
  <2> QED
    BY <1>4, <2>1
<1>6. CASE /\ Head0(T) = c /\ next # None /\ T.entry[next].stored
           /\ T.entry[next].fencing # "kept" /\ T.entry[next].fence = None
  <2>1. HandOver(T, c) = last
    BY <1>6, Zenon DEF HandOver, Rewrites, moved, next, behind
  <2>2. next \in Changes
    BY <1>2, <1>6
  <2> HIDE DEF next
  <2> DEFINE e == [moved.entry[next] EXCEPT !.fence = T.entry[c].fence]
  <2>3. /\ moved \in Pages(M, L, B) /\ moved.entry[next].st = T.entry[next].st
        /\ moved.entry[next] \in Entries /\ EntryOK(M, L, B, next, moved.entry[next])
    BY <1>4, <2>2, PageFacts
  <2>4. fence \in Fences
    BY <1>1 DEF Entries
  <2>5. e \in Entries
    <3> HIDE DEF fence
    <3>1. e = [moved.entry[next] EXCEPT !.fence = fence]
      BY DEF fence
    <3> HIDE DEF e
    <3> QED
      BY <2>3, <2>4, <3>1 DEF Entries
  <2>6. /\ e.st = T.entry[next].st /\ e.stored = moved.entry[next].stored
        /\ e.heard = moved.entry[next].heard
    BY <2>3 DEF Entries
  <2>7. e.st # "sending" /\ ~M[next].first
    <3>1. EntryOK(M, L, B, next, T.entry[next])
      BY <1>1, <2>2
    <3> QED
      BY <1>6, <2>6, <3>1 DEF EntryOK
  <2> HIDE DEF e
  <2>8. EntryOK(M, L, B, next, e)
    BY <2>3, <2>6, <2>7 DEF EntryOK
  <2>9. [moved EXCEPT !.entry[next] = e] \in Pages(M, L, B)
    BY <2>2, <2>3, <2>5, <2>6, <2>8, WithEntry
  <2> QED
    BY <2>1, <2>9 DEF e
<1> QED
  BY <1>5, <1>6

LEMMA CancelledKeeps ==
  ASSUME NEW M \in Histories, NEW L, NEW B, NEW T \in Pages(M, L, B), NEW c \in Changes
  PROVE  Cancelled(T, c) \in Pages(M, L, B)
<1>1. "undone" \in Outcomes \ {"done", "stale"}
  BY DEF Outcomes
<1>2. Note(c, "undone", None) \in Reports(L) /\ Note(c, "undone", None).id = c
  BY <1>1, DroppedNote
<1>3. T.entry[c].stored => HandOver(T, c) \in Pages(M, L, B)
  BY HandOverKeeps
<1> QED
  BY <1>2, <1>3, SettleKeeps DEF Cancelled

(* A set of numbers with a least element.                                  *)
LEMMA LeastInside ==
  ASSUME NEW n \in Nat, NEW r \in SUBSET (1 .. n), r # {}
  PROVE  \E i \in r : \A j \in r : i <= j
<1> DEFINE flip == {n + 1 - i : i \in r}
<1>1. flip \in SUBSET (1 .. n) /\ flip # {}
  <2>1. ASSUME NEW i \in r
        PROVE  n + 1 - i \in 1 .. n
    OBVIOUS
  <2>2. flip \subseteq 1 .. n
    BY <2>1
  <2>3. PICK i \in r : TRUE
    OBVIOUS
  <2>4. n + 1 - i \in flip
    OBVIOUS
  <2> HIDE DEF flip
  <2> QED
    BY <2>2, <2>4
<1>2. Max(flip) \in flip /\ \A y \in flip : y <= Max(flip)
  <2> HIDE DEF flip
  <2> QED
    BY <1>1, MaxInside
<1>3. PICK i \in r : Max(flip) = n + 1 - i
  BY <1>2
<1>4. ASSUME NEW j \in r
      PROVE  i <= j
  <2>1. n + 1 - j \in flip
    OBVIOUS
  <2>2. n + 1 - j <= n + 1 - i
    <3> HIDE DEF flip
    <3> QED
      BY <1>2, <1>3, <2>1
  <2> QED
    BY <2>2
<1> QED
  BY <1>4

(* Where a restored change is put.                                         *)
LEMMA PlaceToRestore ==
  ASSUME NEW s \in Seq(Changes), NEW c \in Changes
  PROVE  LET younger == {i \in DOMAIN s : s[i] > c}
             first == IF younger = {} THEN Len(s) + 1
                      ELSE CHOOSE i \in younger : \A j \in younger : i <= j
         IN  first \in 1 .. (Len(s) + 1)
<1> DEFINE younger == {i \in DOMAIN s : s[i] > c}
           least == CHOOSE i \in younger : \A j \in younger : i <= j
<1>1. Len(s) \in Nat /\ DOMAIN s = 1 .. Len(s)
  OBVIOUS
<1>2. younger \in SUBSET (1 .. Len(s))
  BY <1>1
<1>3. younger # {} => least \in younger
  <2> HIDE DEF younger
  <2> QED
    BY <1>1, <1>2, LeastInside
<1>4. younger # {} => least \in 1 .. Len(s)
  BY <1>2, <1>3
<1> HIDE DEF least
<1>5. (IF younger = {} THEN Len(s) + 1 ELSE least) \in 1 .. (Len(s) + 1)
  BY <1>1, <1>4
<1> QED
  BY <1>5 DEF least

(* A change of which the page has no entry joins its queue, unsettled.     *)
LEMMA JoinedAt ==
  ASSUME NEW M \in Histories, NEW L, NEW B, NEW T \in Pages(M, L, B), NEW c \in Changes,
         T.entry[c].st \in Settled, T.known \in Versions,
         NEW e \in Entries, EntryOK(M, L, B, c, e), e.st \notin Settled,
         NEW q \in Seq(Changes), NoRepeats(q),
         \A x : Occurs(q, x) <=> x = c \/ Occurs(T.order, x)
  PROVE  [T EXCEPT !.entry[c] = e, !.order = q, !.hears = TRUE] \in Pages(M, L, B)
<1> DEFINE U == [T EXCEPT !.entry[c] = e, !.order = q, !.hears = TRUE]
<1>1. /\ T \in PageSet(M, L) /\ T.entry \in [Changes -> Entries]
      /\ \A d \in Changes : /\ EntryOK(M, L, B, d, T.entry[d]) /\ ("done" \in T.told[d] => d \in L)
                            /\ T.entry[d].st \notin Settled <=> Occurs(T.order, d)
  BY PageFacts
<1>2. U \in PageSet(M, L)
  BY <1>1 DEF PageSet
<1>3. U.known = T.known /\ U.order = q /\ U.told = T.told /\ U.entry = [T.entry EXCEPT ![c] = e]
  BY <1>1 DEF PageSet
<1> HIDE DEF U
<1>4. Lists(U)
  BY <1>1, <1>3, HistoryFacts DEF Lists
<1>5. \A d \in Changes : EntryOK(M, L, B, d, U.entry[d]) /\ ("done" \in U.told[d] => d \in L)
  BY <1>1, <1>3
<1>6. U \in Pages(M, L, B)
  BY <1>2, <1>4, <1>5 DEF Pages
<1> QED
  BY <1>6 DEF U

LEMMA RestoreEntryKeeps ==
  ASSUME NEW M \in Histories, NEW L, NEW B, NEW T \in Pages(M, L, B), NEW c \in DOMAIN M,
         T.entry[c].st = "none", NEW rec, RecordOK(M, c, rec)
  PROVE  RestoreEntry(T, c, rec) \in Pages(M, L, B)
<1> DEFINE seen == Learn(T, rec.on)
           younger == {i \in DOMAIN T.order : T.order[i] > c}
           first == IF younger = {} THEN Len(T.order) + 1
                    ELSE CHOOSE i \in younger : \A j \in younger : i <= j
           at == IF first = 1 /\ T.order # <<>>
                    /\ T.entry[Head(T.order)].st \in {"saving", "turn"} \cup InExchange
                 THEN 2 ELSE first
           follows == \E i \in 1..(at - 1) : T.entry[T.order[i]].stored
           fence == IF rec.fence # None \/ follows THEN rec.fence ELSE rec.on
           fencing == IF rec.fence = None THEN "unset" ELSE "kept"
           entry == [Absent EXCEPT
                       !.st = "waiting", !.stored = TRUE, !.saved = "yes", !.sent = rec.sent,
                       !.fence = fence,
                       !.fencing = IF rec.fence = None THEN "unset" ELSE "kept",
                       !.after = rec.after, !.replayed = TRUE]
           q == InsertAt(T.order, at, c)
<1>1. c \in Changes /\ rec \in RecordSet /\ (M[c].first => rec.fence = M[c].on)
      /\ (M[c].first => rec.fence # None)
  BY HistoryFacts DEF RecordOK
<1>2. /\ T.order \in Seq(Changes) /\ NoRepeats(T.order) /\ ~Occurs(T.order, c)
      /\ T.entry[c].st \in Settled
  BY <1>1, PageFacts DEF Settled
<1>3. seen \in Pages(M, L, B) /\ seen.known \in Versions /\ seen.entry = T.entry
      /\ seen.order = T.order
  <2>1. rec.on \in Versions
    BY <1>1 DEF RecordSet
  <2> QED
    BY <2>1, LearnKeeps
<1>4. at \in 1 .. (Len(T.order) + 1)
  <2>1. first \in 1 .. (Len(T.order) + 1)
    BY <1>1, <1>2, PlaceToRestore
  <2> HIDE DEF first
  <2>2. T.order # <<>> => 2 \in 1 .. (Len(T.order) + 1)
    BY <1>2
  <2> QED
    BY <2>1, <2>2
<1> HIDE DEF at
<1>5. q \in Seq(Changes) /\ NoRepeats(q) /\ \A x : Occurs(q, x) <=> x = c \/ Occurs(T.order, x)
  BY <1>1, <1>2, <1>4, Inserted
<1> HIDE DEF q, follows
<1>6. fence \in Fences /\ rec.sent \in BOOLEAN /\ rec.after \in Changes \cup {None}
  BY <1>1 DEF RecordSet, Fences
<1>7. M[c].first => fence = M[c].on /\ rec.fence # None
  BY <1>1
<1> HIDE DEF fence
<1>8. entry \in Entries
  <2> DEFINE sent == rec.sent
             after == rec.after
             e1 == [Absent EXCEPT !.st = "waiting", !.stored = TRUE]
             e2 == [e1 EXCEPT !.saved = "yes", !.sent = sent]
             e3 == [e2 EXCEPT !.fence = fence, !.fencing = fencing]
             e4 == [e3 EXCEPT !.after = after, !.replayed = TRUE]
  <2>1. entry = e4
    BY Zenon
  <2>2. "waiting" \in Statuses /\ fencing \in {"unset", "writing", "kept", "gone"}
        /\ sent \in BOOLEAN /\ after \in Changes \cup {None} /\ fence \in Fences
    BY <1>6 DEF Statuses
  <2> HIDE DEF entry, sent, after, fencing
  <2>3. e1 \in Entries
    BY <2>2, AbsentIs DEF Entries
  <2> HIDE DEF e1
  <2>4. e2 \in Entries
    BY <2>2, <2>3 DEF Entries
  <2> HIDE DEF e2
  <2>5. e3 \in Entries
    BY <2>2, <2>4 DEF Entries
  <2> HIDE DEF e3
  <2>6. e4 \in Entries
    BY <2>2, <2>5 DEF Entries
  <2> QED
    BY <2>1, <2>6
<1>9. /\ entry.st = "waiting" /\ entry.fence = fence /\ entry.heard = None
      /\ rec.fence # None => entry.fencing = "kept"
  BY DEF Absent
<1> HIDE DEF entry
<1>10. entry.st \notin Settled /\ entry.st \notin InExchange /\ entry.st # "sending"
  BY <1>9 DEF Settled, InExchange
<1>11. EntryOK(M, L, B, c, entry)
  BY <1>7, <1>9, <1>10 DEF EntryOK
<1>12. [seen EXCEPT !.entry[c] = entry, !.order = q, !.hears = TRUE] \in Pages(M, L, B)
  <2> HIDE DEF seen
  <2> QED
    BY <1>1, <1>2, <1>3, <1>5, <1>8, <1>10, <1>11, JoinedAt
<1>13. q = InsertAt(seen.order, at, c)
  BY <1>3 DEF q
<1>14. RestoreEntry(T, c, rec) = [seen EXCEPT !.entry[c] = entry,
                                              !.order = InsertAt(@, at, c), !.hears = TRUE]
  BY Zenon DEF RestoreEntry, entry, fence, follows, at
<1> QED
  <2> HIDE DEF seen
  <2>1. [seen EXCEPT !.entry[c] = entry, !.order = InsertAt(@, at, c), !.hears = TRUE]
          = [seen EXCEPT !.entry[c] = entry, !.order = q, !.hears = TRUE]
    BY <1>13
  <2> QED
    BY <1>12, <1>14, <2>1

(* What the queue store may hold, and what a replay listed of it.          *)
Recordings(M) ==
  {f \in UNION {[S -> RecordSet] : S \in SUBSET DOMAIN M} :
     \A c \in DOMAIN f : RecordOK(M, c, f[c])}

LEMMA RecordingFacts ==
  ASSUME NEW M \in Histories, NEW f \in Recordings(M)
  PROVE  /\ DOMAIN f \subseteq DOMAIN M /\ f \in [DOMAIN f -> RecordSet]
         /\ \A c \in DOMAIN f : RecordOK(M, c, f[c])
<1>1. PICK S \in SUBSET DOMAIN M : f \in [S -> RecordSet]
  BY DEF Recordings
<1>2. DOMAIN f = S
  BY <1>1
<1> QED
  BY <1>1, <1>2 DEF Recordings

LEMMA RecordingIs ==
  ASSUME NEW M \in Histories, NEW S \in SUBSET DOMAIN M, NEW f \in [S -> RecordSet],
         \A c \in S : RecordOK(M, c, f[c])
  PROVE  f \in Recordings(M)
BY DEF Recordings

LEMMA InOrderIs ==
  /\ IsList(InOrder)
  /\ \A n \in Changes : IsList(SubSeq(InOrder, 1, n))
<1>1. MaxChanges \in Nat
  BY ReaderAssumption
<1>2. DOMAIN InOrder = 1 .. MaxChanges /\ \A i \in 1 .. MaxChanges : InOrder[i] \in Changes
  BY DEF InOrder, Changes
<1>3. ASSUME NEW n \in Changes
      PROVE  IsList(SubSeq(InOrder, 1, n))
  <2>1. InOrder \in Seq(Changes) /\ Len(InOrder) = MaxChanges
    BY <1>1 DEF InOrder, Changes
  <2>2. n \in Nat /\ n <= MaxChanges /\ n >= 1
    BY <1>1 DEF Changes
  <2> DEFINE q == SubSeq(InOrder, 1, n)
             m == n - 1 + 1
             w == InOrder
             one == 1
  <2>3. q \in Seq(Changes) /\ DOMAIN q = 1 .. (n - 1 + 1)
    <3>1. w \in Seq(Changes) /\ n <= Len(w) /\ q = SubSeq(w, one, n) /\ one \in Int /\ n \in Int
          /\ 1 <= one /\ one <= n + 1 /\ one = 1
      BY <2>1, <2>2
    <3> HIDE DEF w, q, one
    <3>2. q \in Seq(Changes) /\ DOMAIN q = 1 .. (n - one + 1)
      BY <3>1, PartOf
    <3> QED
      BY <3>1, <3>2
  <2>4. m = n
    BY <2>2
  <2> HIDE DEF q
  <2>5. \A i \in 1 .. n : q[i] \in Changes
    BY <2>2, <2>3, <2>4
  <2> QED
    BY <2>2, <2>3, <2>4, <2>5 DEF IsList, q
<1> QED
  BY <1>1, <1>2, <1>3 DEF IsList

LEMMA AdoptKeeps ==
  ASSUME NEW M \in Histories, NEW L, NEW B, NEW T \in Pages(M, L, B),
         NEW recs \in Recordings(M), NEW old
  PROVE  Adopt(T, recs, old) \in Pages(M, L, B)
<1> DEFINE X == Pages(M, L, B)
           lost == Losses(recs, old, T, InOrder)
           shown == FoldLeft(LAMBDA U, c : IF c \in DOMAIN recs /\ U.entry[c].st = "none"
                                           THEN RestoreEntry(U, c, recs[c]) ELSE U,
                             lost, InOrder)
<1>1. \A U \in X, c \in Changes : Lost(recs, old, U, c) \in X
  BY SettleElsewhereKeeps DEF Lost
<1>2. \A U \in X, c \in Changes : Shown(recs, U, c) \in X
  BY RecordingFacts, RestoreEntryKeeps DEF Shown
<1>3. lost \in X
  <2> HIDE DEF X
  <2>1. T \in X
    BY DEF X
  <2> QED
    BY <1>1, <2>1, InOrderIs, LossesKeep
<1>4. shown \in X
  <2> HIDE DEF X, lost
  <2> QED
    BY <1>2, <1>3, InOrderIs, ShowsKeep
<1>5. Adopt(T, recs, old) = shown
  BY Zenon DEF Adopt, Losses
<1> QED
  BY <1>4, <1>5

LEMMA ExpiredKeeps ==
  ASSUME NEW M \in Histories, NEW L, NEW B, NEW T \in Pages(M, L, B), NEW cutoff \in Changes
  PROVE  Expired(T, cutoff) \in Pages(M, L, B)
<1> DEFINE X == Pages(M, L, B)
           s == SubSeq(InOrder, 1, cutoff)
<1>1. \A U \in X, c \in Changes : Aged(U, c) \in X
  <2>1. "dropped" \in Outcomes \ {"done", "stale"}
    BY DEF Outcomes
  <2>2. \A c \in Changes : Note(c, "dropped", None) \in Reports(L) /\ Note(c, "dropped", None).id = c
    BY <2>1, DroppedNote
  <2> QED
    BY <2>2, SettleKeeps DEF Aged
<1>2. IsList(s) /\ T \in X
  BY InOrderIs
<1>3. FoldLeft(LAMBDA U, c : IF U.entry[c].stored /\ U.entry[c].st \in {"waiting", "queued"}
                             THEN Settle(U, c, Note(c, "dropped", None)) ELSE U,
               T, s) \in X
  <2> HIDE DEF X, s
  <2> QED
    BY <1>1, <1>2, AgedKeep
<1> QED
  BY <1>3, Zenon DEF Expired

(* The person's next change joins the queue of its page.                   *)
Joining(T, c) ==
  LET kept == {i \in DOMAIN T.order : T.entry[T.order[i]].stored}
      isHead == T.order = <<>>
  IN  [Absent EXCEPT
         !.st = "queued", !.stored = TRUE,
         !.after = IF kept = {} THEN None ELSE T.order[Max(kept)],
         !.fence = IF isHead THEN T.known ELSE None,
         !.fencing = IF isHead THEN "kept" ELSE "unset"]

Joined(T, c) ==
  LET joined == [Sweep(T) EXCEPT !.entry[c] = Joining(T, c), !.order = Append(@, c), !.hears = TRUE]
  IN  Ask(joined, [op |-> "save", id |-> c, rec |-> RecordOf(joined, c)])

LEMMA DispatchedKeeps ==
  ASSUME NEW M \in Histories, Len(M) < MaxChanges, NEW L, NEW B, NEW T \in Pages(M, L, B),
         T.known \in Versions, NEW offline \in BOOLEAN
  PROVE  LET m == [on |-> T.known, offline |-> offline, first |-> T.order = <<>>]
             N == Append(M, m)
         IN  /\ N \in Histories
             /\ DOMAIN M \subseteq DOMAIN N /\ \A c \in DOMAIN M : N[c] = M[c]
             /\ Dispatched(T, Len(M) + 1) \in Pages(N, L, B)
             /\ Joined(T, Len(M) + 1) \in Pages(N, L, B)
             /\ Dispatched(T, Len(M) + 1) = Pump(Joined(T, Len(M) + 1))
<1> DEFINE isHead == T.order = <<>>
           m == [on |-> T.known, offline |-> offline, first |-> T.order = <<>>]
           N == Append(M, m)
           c == Len(M) + 1
           kept == {i \in DOMAIN T.order : T.entry[T.order[i]].stored}
           after == IF kept = {} THEN None ELSE T.order[Max(kept)]
           fence == IF isHead THEN T.known ELSE None
           fencing == IF isHead THEN "kept" ELSE "unset"
           entry == [Absent EXCEPT
                       !.st = "queued", !.stored = TRUE,
                       !.after = IF kept = {} THEN None ELSE T.order[Max(kept)],
                       !.fence = IF isHead THEN T.known ELSE None,
                       !.fencing = IF isHead THEN "kept" ELSE "unset"]
           V == Sweep(T)
           joined == [V EXCEPT !.entry[c] = entry, !.order = Append(@, c), !.hears = TRUE]
           rec == RecordOf(joined, c)
           job == [op |-> "save", id |-> c, rec |-> rec]
           q == Append(T.order, c)
<1>1. m \in Makings /\ m.on = T.known /\ m.first = isHead
  BY DEF Makings
<1> HIDE DEF m
<1>2. /\ N \in Histories /\ DOMAIN N = 1 .. (Len(M) + 1) /\ N[c] = m
      /\ DOMAIN M \subseteq DOMAIN N /\ \A d \in DOMAIN M : N[d] = M[d]
  <2> DEFINE D == Makings
  <2>1. M \in Seq(D) /\ Len(M) \in Nat /\ m \in D /\ MaxChanges \in Nat
    BY <1>1, ReaderAssumption DEF Histories
  <2> HIDE DEF D
  <2>2. N \in Seq(D) /\ Len(N) = Len(M) + 1 /\ DOMAIN N = 1 .. (Len(M) + 1)
        /\ DOMAIN M = 1 .. Len(M) /\ N[c] = m /\ \A d \in 1 .. Len(M) : N[d] = M[d]
    BY <2>1
  <2> HIDE DEF N
  <2> QED
    BY <2>1, <2>2 DEF Histories, D
<1> HIDE DEF N
<1>3. c \in Changes /\ c \in DOMAIN N /\ c \notin DOMAIN M
  BY <1>2, HistoryFacts, ReaderAssumption DEF Changes
<1>4. T \in Pages(N, L, B)
  BY <1>2, PagesGrow
<1>5. /\ T.order \in Seq(Changes) /\ NoRepeats(T.order) /\ T.entry[c].st \in Settled
      /\ ~Occurs(T.order, c)
  <2>1. EntryOK(M, L, B, c, T.entry[c]) /\ T.order \in Seq(Changes) /\ NoRepeats(T.order)
        /\ (T.entry[c].st \notin Settled <=> Occurs(T.order, c))
    BY <1>3, PageFacts
  <2> QED
    BY <1>3, <2>1 DEF EntryOK
<1> HIDE DEF c
<1>6. /\ V \in Pages(N, L, B) /\ V.order = T.order /\ V.known = T.known
      /\ V.entry[c].st \in Settled
  <2>1. T \in PageSet(N, L)
    BY <1>2, <1>4, PageFacts
  <2>2. /\ V.order = T.order /\ V.known = T.known
        /\ V.entry = [d \in Changes |-> IF T.entry[d].st = "over" THEN Absent ELSE T.entry[d]]
    BY <2>1 DEF PageSet, Sweep
  <2>3. V.entry[c].st \in Settled
    BY <1>3, <1>5, <2>2, AbsentIs
  <2> QED
    BY <1>2, <1>4, <2>2, <2>3, SweepKeeps
<1> HIDE DEF V
<1>7. after \in Changes \cup {None}
  <2>1. Len(T.order) \in Nat /\ kept \in SUBSET (1 .. Len(T.order))
    BY <1>5
  <2>2. kept # {} => Max(kept) \in kept
    <3> HIDE DEF kept
    <3> QED
      BY <2>1, MaxInside
  <2> HIDE DEF kept
  <2>3. kept # {} => T.order[Max(kept)] \in Changes
    BY <1>5, <2>1, <2>2
  <2> QED
    BY <2>3
<1>8. fence \in Fences /\ fencing \in {"unset", "writing", "kept", "gone"}
  BY DEF Fences
<1>9. entry \in Entries
  <2> DEFINE e1 == [Absent EXCEPT !.st = "queued", !.stored = TRUE]
             e2 == [e1 EXCEPT !.after = after]
             e3 == [e2 EXCEPT !.fence = fence, !.fencing = fencing]
  <2>1. entry = e3
    BY Zenon
  <2>2. "queued" \in Statuses
    BY DEF Statuses
  <2> HIDE DEF entry, after, fence, fencing
  <2>3. e1 \in Entries
    BY <2>2, AbsentIs DEF Entries
  <2> HIDE DEF e1
  <2>4. e2 \in Entries
    BY <1>7, <2>3 DEF Entries
  <2> HIDE DEF e2
  <2>5. e3 \in Entries
    BY <1>8, <2>4 DEF Entries
  <2> QED
    BY <2>1, <2>5
<1>10. /\ entry.st = "queued" /\ entry.fence = fence /\ entry.fencing = fencing
       /\ entry.heard = None /\ entry.after = after
  <2> HIDE DEF kept
  <2> QED
    BY DEF Absent
<1> HIDE DEF entry, after
<1>11. EntryOK(N, L, B, c, entry) /\ entry.st \notin Settled
  <2>1. "queued" \notin Settled /\ "queued" \notin InExchange /\ "queued" # "sending"
    BY DEF Settled, InExchange
  <2> QED
    BY <1>1, <1>2, <1>3, <1>10, <2>1 DEF EntryOK, c
<1>12. q \in Seq(Changes) /\ NoRepeats(q) /\ \A x : Occurs(q, x) <=> x = c \/ Occurs(T.order, x)
  BY <1>3, <1>5, Appended
<1>13. joined \in Pages(N, L, B) /\ joined.known = T.known /\ joined.entry[c] = entry
  <2>1. joined = [V EXCEPT !.entry[c] = entry, !.order = q, !.hears = TRUE]
    BY <1>6
  <2>2. V \in PageSet(N, L) /\ V.entry \in [Changes -> Entries]
    BY <1>2, <1>6, PageFacts
  <2> HIDE DEF q
  <2>3. joined.known = T.known /\ joined.entry[c] = entry
    BY <1>3, <1>6, <2>2 DEF PageSet
  <2> HIDE DEF joined
  <2> QED
    BY <1>2, <1>3, <1>6, <1>9, <1>11, <1>12, <2>1, <2>3, JoinedAt
<1> HIDE DEF joined
<1>14. RecordOK(N, c, rec)
  <2>1. rec = [fence |-> fence, after |-> after, sent |-> FALSE, on |-> T.known]
    BY <1>10, <1>13 DEF RecordOf
  <2>2. rec \in RecordSet
    <3> HIDE DEF rec, fence
    <3> QED
      BY <1>7, <1>8, <2>1 DEF RecordSet
  <2>3. N[c].first => rec.fence = N[c].on
    <3>1. rec.fence = fence
      BY <2>1
    <3>2. N[c].on = T.known /\ N[c].first = isHead
      BY <1>1, <1>2
    <3> HIDE DEF rec
    <3> QED
      BY <3>1, <3>2
  <2> QED
    BY <2>2, <2>3 DEF RecordOK
<1>15. job \in Tasks(N, L)
  <2>1. rec \in RecordSet
    BY <1>14 DEF RecordOK
  <2> HIDE DEF rec
  <2> QED
    BY <1>3, <1>14, <2>1 DEF Tasks, Jobs
<1> HIDE DEF job
<1>16. Ask(joined, job) \in Pages(N, L, B)
  BY <1>2, <1>13, <1>15, Asked
<1>17. Pump(Ask(joined, job)) \in Pages(N, L, B)
  BY <1>2, <1>16, PumpKeeps
<1>18. Dispatched(T, c) = Pump(Ask(joined, job))
  BY Zenon DEF Dispatched, joined, V, job, entry
<1>19. Joined(T, c) = Ask(joined, job)
  BY Zenon DEF Joined, Joining, joined, V, job, entry
<1> QED
  BY <1>2, <1>16, <1>17, <1>18, <1>19 DEF c, N, m

-----------------------------------------------------------------------------
(* What a page makes of the answers of the queue store.                    *)

LEMMA LookedKeeps ==
  ASSUME NEW M \in Histories, NEW L, NEW B, NEW T \in Pages(M, L, B), NEW c \in Changes,
         T.entry[c].st = "check", NEW present \in BOOLEAN
  PROVE  Looked(T, c, present) \in Pages(M, L, B)
<1>1. /\ T.entry[c] \in Entries /\ EntryOK(M, L, B, c, T.entry[c])
      /\ T.entry \in [Changes -> Entries] /\ T \in PageSet(M, L)
  BY PageFacts
<1>2. T.entry[c].st \notin Settled /\ T.entry[c].st \in InExchange
  BY DEF Settled, InExchange
<1>3. T.entry[c].heard \in Reports(L) \cup {None}
      /\ (T.entry[c].heard # None => T.entry[c].heard.id = c)
  BY <1>1 DEF EntryOK
<1>4. SettleElsewhere(T, c, T.entry[c].heard) \in Pages(M, L, B)
  BY <1>3, SettleElsewhereKeeps
<1>5. Park(T, c) \in Pages(M, L, B)
  BY <1>2, ParkKeeps
<1>6. ~T.entry[c].stored \/ c \in B
  BY <1>1, <1>2 DEF EntryOK
<1>7. Transmit(T, c) \in Pages(M, L, B)
  BY <1>2, <1>6, TransmitKeeps
<1> DEFINE e == [T.entry[c] EXCEPT !.st = "mark", !.sent = TRUE]
           V == [T EXCEPT !.entry[c].st = "mark", !.entry[c].sent = TRUE]
           job == [op |-> "mark", id |-> c]
<1>8. V \in Pages(M, L, B)
  <2>1. "mark" \in Statuses /\ "mark" \notin Settled /\ "mark" \in InExchange
    BY DEF Statuses, InExchange, Settled
  <2>2. e \in Entries
    BY <1>1, <2>1 DEF Entries
  <2>3. /\ e.st = "mark" /\ e.stored = T.entry[c].stored /\ e.heard = T.entry[c].heard
        /\ e.fence = T.entry[c].fence /\ e.fencing = T.entry[c].fencing
    BY <1>1 DEF Entries
  <2>4. V = [T EXCEPT !.entry[c] = e]
    BY <1>1 DEF PageSet, Entries
  <2> HIDE DEF e, V
  <2>5. EntryOK(M, L, B, c, e)
    BY <1>1, <1>2, <1>6, <2>1, <2>3 DEF EntryOK
  <2> QED
    BY <1>2, <2>1, <2>2, <2>3, <2>4, <2>5, WithEntry
<1>9. job \in Tasks(M, L)
  <2>1. c \in DOMAIN M
    BY <1>1, <1>2 DEF EntryOK
  <2> QED
    BY <2>1 DEF Tasks, Jobs
<1>10. Ask(V, job) \in Pages(M, L, B)
  <2> HIDE DEF V, job
  <2> QED
    BY <1>8, <1>9, Asked
<1> HIDE DEF e
<1> QED
  BY <1>4, <1>5, <1>7, <1>10 DEF Looked

LEMMA MarkedKeeps ==
  ASSUME NEW M \in Histories, NEW L, NEW B, NEW T \in Pages(M, L, B), NEW c \in Changes,
         T.entry[c].st = "mark", NEW present \in BOOLEAN
  PROVE  Marked(T, c, present) \in Pages(M, L, B)
<1>1. EntryOK(M, L, B, c, T.entry[c])
  BY PageFacts
<1>2. T.entry[c].st \notin Settled /\ T.entry[c].st \in InExchange
  BY DEF Settled, InExchange
<1>3. T.entry[c].heard \in Reports(L) \cup {None}
      /\ (T.entry[c].heard # None => T.entry[c].heard.id = c)
  BY <1>1 DEF EntryOK
<1>4. SettleElsewhere(T, c, T.entry[c].heard) \in Pages(M, L, B)
  BY <1>3, SettleElsewhereKeeps
<1>5. ~T.entry[c].stored \/ c \in B
  BY <1>1, <1>2 DEF EntryOK
<1>6. Transmit(T, c) \in Pages(M, L, B)
  BY <1>2, <1>5, TransmitKeeps
<1> QED
  BY <1>4, <1>6 DEF Marked

LEMMA AnsweredKeeps ==
  ASSUME NEW M \in Histories, NEW L, NEW B, NEW T \in Pages(M, L, B), NEW job \in Tasks(M, L),
         NEW present \in BOOLEAN
  PROVE  Answered(T, job, present) \in Pages(M, L, B)
<1> DEFINE c == job.id
           E == T.entry[c]
           fencing == IF present THEN "kept" ELSE "gone"
           saved == IF present THEN "yes" ELSE "failed"
           saves == [T EXCEPT !.entry[c].saved = IF present THEN "yes" ELSE "failed"]
           fixes == [T EXCEPT !.entry[c].fencing = IF present THEN "kept" ELSE "gone"]
           fixed == IF job.op = "fence" /\ E.st \notin Settled THEN fixes ELSE T
<1>1. c \in Changes /\ (job.op = "fence" => ~M[c].first)
  BY DEF Tasks, Jobs
<1> HIDE DEF c
<1>2. /\ E \in Entries /\ EntryOK(M, L, B, c, E) /\ T.entry \in [Changes -> Entries]
      /\ T \in PageSet(M, L)
  BY <1>1, PageFacts
<1>3. saves \in Pages(M, L, B)
  <2> DEFINE e == [E EXCEPT !.saved = saved]
  <2>1. e \in Entries
    BY <1>2 DEF Entries
  <2>2. /\ e.st = E.st /\ e.stored = E.stored /\ e.heard = E.heard
        /\ e.fence = E.fence /\ e.fencing = E.fencing
    BY <1>2 DEF Entries
  <2>3. saves = [T EXCEPT !.entry[c] = e]
    OBVIOUS
  <2> HIDE DEF e
  <2>4. EntryOK(M, L, B, c, e)
    BY <1>2, <2>2 DEF EntryOK
  <2> QED
    BY <1>1, <2>1, <2>2, <2>3, <2>4, WithEntry
<1>4. job.op = "fence" => fixes \in Pages(M, L, B)
  <2>1. SUFFICES ASSUME job.op = "fence"
                 PROVE  fixes \in Pages(M, L, B)
    OBVIOUS
  <2> DEFINE e == [E EXCEPT !.fencing = fencing]
  <2>2. e \in Entries
    BY <1>2 DEF Entries
  <2>3. /\ e.st = E.st /\ e.stored = E.stored /\ e.heard = E.heard /\ e.fence = E.fence
    BY <1>2 DEF Entries
  <2>4. fixes = [T EXCEPT !.entry[c] = e]
    OBVIOUS
  <2> HIDE DEF e
  <2>5. EntryOK(M, L, B, c, e)
    BY <1>1, <1>2, <2>1, <2>3 DEF EntryOK
  <2> QED
    BY <1>1, <2>2, <2>3, <2>4, <2>5, WithEntry
<1>5. fixed \in Pages(M, L, B) /\ (E.st = "check" => fixed.entry[c].st = "check")
  <2>1. fixes.entry[c].st = E.st
    BY <1>1, <1>2 DEF PageSet, Entries
  <2> HIDE DEF fixes
  <2> QED
    BY <1>4, <2>1
<1> HIDE DEF fixed, saves
<1>6. E.st = "check" => Looked(fixed, c, present) \in Pages(M, L, B)
  BY <1>1, <1>5, LookedKeeps
<1>7. E.st = "mark" => Marked(T, c, present) \in Pages(M, L, B)
  BY <1>1, MarkedKeeps
<1>8. Answered(T, job, present) =
        CASE job.op = "save" -> (IF E.st \in Settled THEN T ELSE saves)
          [] job.op \in {"fence", "look"} /\ E.st = "check" -> Looked(fixed, c, present)
          [] job.op = "mark" /\ E.st = "mark" -> Marked(T, c, present)
          [] OTHER -> fixed
  BY Zenon DEF Answered, fixed, saves, c
<1> HIDE DEF E
<1> QED
  BY <1>3, <1>5, <1>6, <1>7, <1>8

(* A page that got the Web Lock asks about its record.                     *)
LEMMA AcquiredKeeps ==
  ASSUME NEW M \in Histories, NEW L, NEW B, NEW T0 \in Pages(M, L, B), NEW c \in Changes,
         T0.entry[c].st = "turn"
  PROVE  LET T == [T0 EXCEPT !.entry[c].st = "check"]
             fencing == T.entry[c].fencing
             U == CASE fencing = "unset" -> FixFence(T, c)
                    [] fencing = "writing" -> T
                    [] fencing = "kept" -> Ask(T, [op |-> "look", id |-> c])
                    [] fencing = "gone" -> SettleElsewhere(T, c, T.entry[c].heard)
         IN  U \in Pages(M, L, Changes)
<1> DEFINE C == Changes
           T == [T0 EXCEPT !.entry[c].st = "check"]
           fencing == T.entry[c].fencing
           job == [op |-> "look", id |-> c]
<1>1. T0 \in Pages(M, L, C)
  <2>1. \A d \in Changes : EntryOK(M, L, B, d, T0.entry[d]) => EntryOK(M, L, C, d, T0.entry[d])
    BY DEF EntryOK
  <2> HIDE DEF C
  <2> QED
    BY <2>1 DEF Pages
<1>2. "check" \in Statuses \ Settled /\ T0.entry[c].st \notin Settled
  BY DEF Statuses, InExchange, Settled
<1>3. T \in Pages(M, L, C)
  BY <1>1, <1>2, Restated
<1>4. T.entry[c].st = "check"
  <2>1. T0 \in PageSet(M, L) /\ T0.entry[c] \in Entries
    BY PageFacts
  <2> QED
    BY <2>1 DEF PageSet, Entries
<1> HIDE DEF T
<1>5. T.entry[c] \in Entries /\ EntryOK(M, L, C, c, T.entry[c])
  BY <1>3, PageFacts
<1>6. T.entry[c].st \notin Settled
  BY <1>4 DEF Settled
<1>7. FixFence(T, c) \in Pages(M, L, C)
  BY <1>3, <1>6, FenceFixed
<1>8. Ask(T, job) \in Pages(M, L, C)
  <2>1. job \in Tasks(M, L)
    BY <1>5, <1>6 DEF Tasks, Jobs, EntryOK
  <2> HIDE DEF job
  <2> QED
    BY <1>3, <2>1, Asked
<1>9. SettleElsewhere(T, c, T.entry[c].heard) \in Pages(M, L, C)
  <2>1. T.entry[c].heard \in Reports(L) \cup {None}
        /\ (T.entry[c].heard # None => T.entry[c].heard.id = c)
    BY <1>5 DEF EntryOK
  <2> QED
    BY <1>3, <2>1, SettleElsewhereKeeps
<1>10. fencing \in {"unset", "writing", "kept", "gone"}
  BY <1>5 DEF Entries
<1> QED
  BY <1>3, <1>7, <1>8, <1>9, <1>10 DEF T

(* A change goes on once its record is written, or could not be.           *)
LEMMA ResumedKeeps ==
  ASSUME NEW M \in Histories, NEW L, NEW B, NEW T0 \in Pages(M, L, B), NEW c \in Changes,
         T0.entry[c].st = "saving"
  PROVE  LET T == [T0 EXCEPT !.entry[c].stored = @ /\ T0.entry[c].saved = "yes"]
         IN  /\ [T EXCEPT !.entry[c].st = "turn"] \in Pages(M, L, B)
             /\ Park(T, c) \in Pages(M, L, B)
             /\ ~T.entry[c].stored => Transmit(T, c) \in Pages(M, L, B)
             /\ Settle(T, c, Note(c, "unsent", None)) \in Pages(M, L, B)
<1> DEFINE stored == T0.entry[c].stored /\ T0.entry[c].saved = "yes"
           T == [T0 EXCEPT !.entry[c].stored = @ /\ T0.entry[c].saved = "yes"]
<1>1. T0 \in PageSet(M, L) /\ T0.entry[c] \in Entries
  BY PageFacts
<1>2. T \in Pages(M, L, B)
  <2>1. stored \in BOOLEAN /\ (stored => T0.entry[c].stored)
    BY <1>1 DEF Entries
  <2>2. T = [T0 EXCEPT !.entry[c].stored = stored]
    OBVIOUS
  <2> HIDE DEF stored, T
  <2> QED
    BY <2>1, <2>2, StoredKeeps
<1>3. T.entry[c].st = "saving"
  BY <1>1 DEF PageSet, Entries
<1> HIDE DEF T
<1>4. T.entry[c].st \notin Settled /\ "turn" \in Statuses \ Settled /\ "turn" \notin InExchange
  BY <1>3 DEF Settled, Statuses, InExchange
<1>5. [T EXCEPT !.entry[c].st = "turn"] \in Pages(M, L, B)
  BY <1>2, <1>4, Restated
<1>6. Park(T, c) \in Pages(M, L, B) /\ (~T.entry[c].stored => Transmit(T, c) \in Pages(M, L, B))
  BY <1>2, <1>4, ParkKeeps, TransmitKeeps
<1>7. Settle(T, c, Note(c, "unsent", None)) \in Pages(M, L, B)
  <2>1. "unsent" \in Outcomes \ {"done", "stale"}
    BY DEF Outcomes
  <2>2. Note(c, "unsent", None) \in Reports(L) /\ Note(c, "unsent", None).id = c
    BY <2>1, DroppedNote
  <2> QED
    BY <1>2, <2>2, SettleKeeps
<1> QED
  BY <1>5, <1>6, <1>7 DEF T

(* A request that failed is sent again, or given up.                       *)
LEMMA FailedKeeps ==
  ASSUME NEW M \in Histories, NEW L, NEW B, NEW T \in Pages(M, L, B), NEW c \in Changes,
         T.entry[c].st = "sending"
  PROVE  /\ T.entry[c].try < MaxRetries => [T EXCEPT !.entry[c].try = @ + 1] \in Pages(M, L, B)
         /\ (IF T.entry[c].stored THEN Park(T, c)
             ELSE Drop(T, c, Note(c, "unsent", None))) \in Pages(M, L, B)
<1>1. /\ T \in PageSet(M, L) /\ T.entry[c] \in Entries /\ EntryOK(M, L, B, c, T.entry[c])
  BY PageFacts
<1>2. T.entry[c].st \notin Settled
  BY DEF Settled
<1>3. ASSUME T.entry[c].try < MaxRetries
      PROVE  [T EXCEPT !.entry[c].try = @ + 1] \in Pages(M, L, B)
  <2> DEFINE try == T.entry[c].try + 1
             e == [T.entry[c] EXCEPT !.try = try]
  <2>1. try \in 0 .. MaxRetries
    <3>1. T.entry[c].try \in 0 .. MaxRetries
      BY <1>1 DEF Entries
    <3> QED
      BY <1>3, <3>1, ReaderAssumption
  <2>2. [T EXCEPT !.entry[c].try = @ + 1] = [T EXCEPT !.entry[c] = e]
    OBVIOUS
  <2> HIDE DEF try
  <2>3. e \in Entries
    BY <1>1, <2>1 DEF Entries
  <2>4. /\ e.st = T.entry[c].st /\ e.stored = T.entry[c].stored /\ e.heard = T.entry[c].heard
        /\ e.fence = T.entry[c].fence /\ e.fencing = T.entry[c].fencing
    BY <1>1 DEF Entries
  <2> HIDE DEF e
  <2>5. EntryOK(M, L, B, c, e)
    BY <1>1, <2>4 DEF EntryOK
  <2> QED
    BY <2>2, <2>3, <2>4, <2>5, WithEntry
<1>4. Park(T, c) \in Pages(M, L, B)
  BY <1>2, ParkKeeps
<1>5. Drop(T, c, Note(c, "unsent", None)) \in Pages(M, L, B)
  <2>1. "unsent" \in Outcomes \ {"done", "stale"}
    BY DEF Outcomes
  <2>2. Note(c, "unsent", None) \in Reports(L) /\ Note(c, "unsent", None).id = c
    BY <2>1, DroppedNote
  <2> QED
    BY <2>2, DropKeeps
<1> QED
  BY <1>3, <1>4, <1>5

(* An answer of the server settles the change it is for.                   *)
LEMMA RepliedKeeps ==
  ASSUME NEW M \in Histories, NEW L, NEW B, NEW T0 \in Pages(M, L, B), NEW c \in Changes,
         NEW note \in Reports(L), note.id = c, note.out \in {"done", "stale", "refused"}
  PROVE  LET T == IF note.out = "refused" THEN T0 ELSE Learn(T0, note.version)
         IN  (IF note.out = "done" THEN Settle(T, c, note) ELSE Drop(T, c, note))
               \in Pages(M, L, B)
<1> DEFINE T == IF note.out = "refused" THEN T0 ELSE Learn(T0, note.version)
<1>1. note.out # "refused" => note.version \in Versions
  BY DEF Reports
<1>2. T \in Pages(M, L, B)
  BY <1>1, LearnKeeps
<1> HIDE DEF T
<1>3. Settle(T, c, note) \in Pages(M, L, B) /\ Drop(T, c, note) \in Pages(M, L, B)
  BY <1>2, SettleKeeps, DropKeeps
<1> QED
  BY <1>3 DEF T

(* Another page says how a record ended.                                   *)
LEMMA HeardKeeps ==
  ASSUME NEW M \in Histories, NEW L, NEW B, NEW T \in Pages(M, L, B), NEW note \in Reports(L)
  PROVE  LET E == T.entry[note.id]
         IN  (IF ~E.stored THEN T
              ELSE IF E.st \in {"waiting", "queued"} THEN SettleElsewhere(T, note.id, note)
              ELSE IF E.st \in {"saving", "turn", "check", "mark"}
              THEN [T EXCEPT !.entry[note.id].heard = note]
              ELSE T) \in Pages(M, L, B)
<1> DEFINE c == note.id
           V == [T EXCEPT !.entry[c].heard = note]
           e == [T.entry[c] EXCEPT !.heard = note]
<1>1. c \in Changes /\ note \in Notes
  BY DEF Reports, Notes
<1>2. SettleElsewhere(T, c, note) \in Pages(M, L, B)
  BY <1>1, SettleElsewhereKeeps
<1>3. V \in Pages(M, L, B)
  <2>1. T \in PageSet(M, L) /\ T.entry[c] \in Entries /\ EntryOK(M, L, B, c, T.entry[c])
    BY <1>1, PageFacts
  <2>2. V = [T EXCEPT !.entry[c] = e]
    OBVIOUS
  <2>3. e \in Entries
    BY <1>1, <2>1 DEF Entries
  <2>4. /\ e.st = T.entry[c].st /\ e.stored = T.entry[c].stored /\ e.heard = note
        /\ e.fence = T.entry[c].fence /\ e.fencing = T.entry[c].fencing
    BY <2>1 DEF Entries
  <2> HIDE DEF e, V
  <2>5. EntryOK(M, L, B, c, e)
    BY <2>1, <2>4 DEF EntryOK
  <2> QED
    BY <1>1, <2>2, <2>3, <2>4, <2>5, WithEntry
<1> QED
  BY <1>2, <1>3

(* A page whose exchanges are over may let go of the Web Lock.             *)
LEMMA FreeKeeps ==
  ASSUME NEW M \in Histories, NEW L, NEW B, NEW T \in Pages(M, L, B), ~Busy(T)
  PROVE  \A C : T \in Pages(M, L, C)
<1>1. \A d \in Changes : T.entry[d].stored => T.entry[d].st \notin InExchange
  BY DEF Busy, Kept
<1>2. T \in PageSet(M, L) /\ Lists(T)
      /\ \A d \in Changes : EntryOK(M, L, B, d, T.entry[d]) /\ ("done" \in T.told[d] => d \in L)
  BY PageFacts
<1>3. \A C : \A d \in Changes : EntryOK(M, L, C, d, T.entry[d])
  BY <1>1, <1>2 DEF EntryOK
<1> QED
  BY <1>2, <1>3 DEF Pages

(* What a page starts with.                                                *)
LEMMA FreshKeeps ==
  ASSUME NEW M \in Histories, NEW L, NEW B, NEW told \in [Changes -> SUBSET Outcomes],
         \A c \in Changes : "done" \in told[c] => c \in L
  PROVE  /\ Fresh(told) \in Pages(M, L, B)
         /\ [Fresh(told) EXCEPT !.known = 0] \in Pages(M, L, B)
<1> DEFINE e == [c \in Changes |-> Absent]
           D == Tasks(M, L)
           F == [known |-> Unknown, order |-> <<>>, entry |-> e, disk |-> <<>>,
                 hears |-> FALSE, told |-> told]
<1>1. F \in Pages(M, L, B)
  <2>1. e \in [Changes -> Entries]
    BY AbsentIs
  <2>2. F \in PageSet(M, L)
    <3>1. <<>> \in Seq(D) /\ <<>> \in Seq(Changes)
      OBVIOUS
    <3> HIDE DEF e, D
    <3> QED
      BY <2>1, <3>1 DEF PageSet, D
  <2>3. Lists(F)
    BY AbsentIs DEF Lists, Occurs, NoRepeats
  <2>4. \A c \in Changes : EntryOK(M, L, B, c, F.entry[c])
    BY SettledOK
  <2> HIDE DEF e
  <2> QED
    BY <2>2, <2>3, <2>4 DEF Pages
<1>2. 0 \in Versions
  BY ReaderAssumption DEF Versions
<1>3. Fresh(told) = F
  BY DEF Fresh
<1>4. Fresh(told) \in Pages(M, L, B)
  BY <1>1, <1>3
<1>5. Newer(Fresh(told).known, 0) = 0
  BY DEF Fresh, Newer, Unknown
<1>6. [Fresh(told) EXCEPT !.known = 0] = Learn(Fresh(told), 0)
  BY <1>5 DEF Learn
<1> QED
  BY <1>2, <1>4, <1>6, LearnKeeps

-----------------------------------------------------------------------------
(* The inductive invariant.                                                *)

Landed == {c \in Changes : InLog(c)}
Receipted == {c \in Changes : receipts[c] # None}
Grip(t) == IF lock = t THEN Changes ELSE {}

Replays(M) ==
  [pc : {"idle", "listed", "drain"}, recs : Recordings(M), old : SUBSET Changes,
   cur : Changes \cup {None}]

(* Every request carries the fence its change was made with, if the change *)
(* followed none.                                                          *)
Requests(M) ==
  {r \in [tab : Tabs, id : Changes, fence : Versions, try : 0 .. MaxRetries] :
     r.id \in DOMAIN M /\ (M[r.id].first => r.fence = M[r.id].on)}

Answers(L) ==
  {a \in [tab : Tabs, note : Notes] :
     a.note \in Reports(L) /\ a.note.out \in {"done", "stale", "refused"}}

(* The pages, of which one may be exchanging or replaying.                 *)
PagesInv ==
  /\ tab \in [Tabs -> Pages(made, Landed, Changes)]
  /\ replay \in [Tabs -> Replays(made)]
  /\ lock \in Tabs \cup {None}
  /\ \A t \in Tabs : lock # t => tab[t] \in Pages(made, Landed, {}) /\ replay[t].pc = "idle"

DeviceInv ==
  /\ chan \in [Tabs -> Seq(Reports(Landed))]
  /\ records \in Recordings(made)
  /\ online \in BOOLEAN
  /\ net \subseteq Requests(made)
  /\ replies \subseteq Answers(Landed)

(* The row: a version for every write, a receipt for every change applied. *)
ServerInv ==
  /\ log \in Seq(Changes \cup {Other})
  /\ receipts \in [Changes -> Receipts \cup {None}]
  /\ Landed = Receipted /\ Landed \subseteq DOMAIN made
  /\ spent \in [DOMAIN Limit -> Nat] /\ spent.other <= MaxOther
  /\ Len(log) = spent.other + Cardinality(Receipted)
  /\ AppliedAsMade

ReaderInv == made \in Histories /\ PagesInv /\ DeviceInv /\ ServerInv

Remade == /\ made' \in Histories /\ DOMAIN made \subseteq DOMAIN made'
          /\ \A c \in DOMAIN made : made'[c] = made[c]

LEMMA ReplaysGrow ==
  ASSUME NEW M \in Histories, NEW N \in Histories,
         DOMAIN M \subseteq DOMAIN N, \A c \in DOMAIN M : N[c] = M[c]
  PROVE  /\ Recordings(M) \subseteq Recordings(N) /\ Replays(M) \subseteq Replays(N)
         /\ Requests(M) \subseteq Requests(N)
<1>1. ASSUME NEW f \in Recordings(M)
      PROVE  f \in Recordings(N)
  <2>1. DOMAIN f \subseteq DOMAIN M /\ f \in [DOMAIN f -> RecordSet]
        /\ \A c \in DOMAIN f : RecordOK(M, c, f[c])
    BY RecordingFacts
  <2>2. \A c \in DOMAIN f : RecordOK(N, c, f[c])
    BY <2>1 DEF RecordOK
  <2>3. DOMAIN f \in SUBSET DOMAIN N
    BY <2>1
  <2> QED
    BY <2>1, <2>2, <2>3, RecordingIs
<1>2. Replays(M) \subseteq Replays(N)
  BY <1>1 DEF Replays
<1>3. Requests(M) \subseteq Requests(N)
  BY DEF Requests
<1> QED
  BY <1>1, <1>2, <1>3

LEMMA GripOf ==
  ASSUME PagesInv, made \in Histories, NEW t \in Tabs
  PROVE  tab[t] \in Pages(made, Landed, Grip(t))
BY DEF PagesInv, Grip

(* Changes made or applied besides disturb no page.                        *)
LEMMA PagesStay ==
  ASSUME made \in Histories, PagesInv, Remade, Landed \subseteq Landed',
         UNCHANGED <<tab, replay, lock>>
  PROVE  PagesInv'
<1> DEFINE M == made
           N == made'
           L == Landed
           K == Landed'
           none == {}
<1>1. /\ M \in Histories /\ N \in Histories /\ DOMAIN M \subseteq DOMAIN N
      /\ \A c \in DOMAIN M : N[c] = M[c]
  BY DEF Remade
<1>2. L \subseteq K
  OBVIOUS
<1>3. /\ tab \in [Tabs -> Pages(M, L, Changes)] /\ replay \in [Tabs -> Replays(M)]
      /\ lock \in Tabs \cup {None}
      /\ \A t \in Tabs : lock # t => tab[t] \in Pages(M, L, none) /\ replay[t].pc = "idle"
  BY DEF PagesInv
<1> HIDE DEF M, N, L, K, none
<1>4. Pages(M, L, Changes) \subseteq Pages(N, K, Changes)
  BY <1>1, <1>2, PagesGrow
<1>5. Pages(M, L, none) \subseteq Pages(N, K, none)
  BY <1>1, <1>2, PagesGrow
<1>6. Replays(M) \subseteq Replays(N)
  BY <1>1, ReplaysGrow
<1>7. /\ tab \in [Tabs -> Pages(N, K, Changes)] /\ replay \in [Tabs -> Replays(N)]
      /\ lock \in Tabs \cup {None}
      /\ \A t \in Tabs : lock # t => tab[t] \in Pages(N, K, none) /\ replay[t].pc = "idle"
  BY <1>3, <1>4, <1>5, <1>6
<1> QED
  BY <1>7 DEF PagesInv, N, K, none

(* A page and its replay move on, and it holds the Web Lock if it must.    *)
LEMMA PageMoves ==
  ASSUME made \in Histories, PagesInv, Remade, Landed' = Landed, NEW t \in Tabs,
         NEW T, NEW R \in Replays(made'), NEW l \in {lock, t, None},
         lock \in {None, t} \/ l = lock,
         IF l = t THEN T \in Pages(made', Landed', Changes)
                  ELSE T \in Pages(made', Landed', {}) /\ R.pc = "idle",
         tab' = [tab EXCEPT ![t] = T], replay' = [replay EXCEPT ![t] = R], lock' = l
  PROVE  PagesInv'
<1> DEFINE M == made
           N == made'
           L == Landed
           K == Landed'
           none == {}
<1>1. /\ M \in Histories /\ N \in Histories /\ DOMAIN M \subseteq DOMAIN N
      /\ \A c \in DOMAIN M : N[c] = M[c]
  BY DEF Remade
<1>2. L \subseteq K
  OBVIOUS
<1>3. /\ tab \in [Tabs -> Pages(M, L, Changes)] /\ replay \in [Tabs -> Replays(M)]
      /\ lock \in Tabs \cup {None}
      /\ \A u \in Tabs : lock # u => tab[u] \in Pages(M, L, none) /\ replay[u].pc = "idle"
  BY DEF PagesInv
<1>4. IF l = t THEN T \in Pages(N, K, Changes) ELSE T \in Pages(N, K, none) /\ R.pc = "idle"
  OBVIOUS
<1>5. R \in Replays(N)
  OBVIOUS
<1> HIDE DEF M, N, L, K, none
<1>6. Pages(M, L, Changes) \subseteq Pages(N, K, Changes)
  BY <1>1, <1>2, PagesGrow
<1>7. Pages(M, L, none) \subseteq Pages(N, K, none)
  BY <1>1, <1>2, PagesGrow
<1>8. Replays(M) \subseteq Replays(N)
  BY <1>1, ReplaysGrow
<1>9. T \in Pages(N, K, Changes)
  <2>1. Pages(N, K, none) \subseteq Pages(N, K, Changes)
    BY <1>1, PagesGrow DEF none
  <2> QED
    BY <1>4, <2>1
<1>10. tab' \in [Tabs -> Pages(N, K, Changes)] /\ replay' \in [Tabs -> Replays(N)]
       /\ l \in Tabs \cup {None}
  BY <1>3, <1>5, <1>6, <1>8, <1>9
<1>11. ASSUME NEW u \in Tabs, l # u
       PROVE  tab'[u] \in Pages(N, K, none) /\ replay'[u].pc = "idle"
  <2>1. CASE u = t
    BY <1>3, <1>4, <1>11, <2>1
  <2>2. CASE u # t
    <3>1. lock # u
      BY <1>11, <2>2, ReaderAssumption
    <3> QED
      BY <1>3, <1>7, <2>2, <3>1
  <2> QED
    BY <2>1, <2>2
<1> QED
  BY <1>10, <1>11 DEF PagesInv, N, K, none

LEMMA BecomeKeeps ==
  ASSUME made \in Histories, PagesInv, Remade, Landed' = Landed, NEW t \in Tabs,
         NEW T \in Pages(made', Landed', Grip(t)), NEW R \in Replays(made'),
         R.pc # "idle" => lock = t,
         tab' = [tab EXCEPT ![t] = T], replay' = [replay EXCEPT ![t] = R],
         lock' = IF lock = t /\ ~Busy(tab'[t]) /\ R.pc = "idle" THEN None ELSE lock
  PROVE  PagesInv'
<1> DEFINE l == IF lock = t /\ ~Busy(tab'[t]) /\ R.pc = "idle" THEN None ELSE lock
<1>1. tab'[t] = T
  BY DEF PagesInv
<1>2. None \notin Tabs /\ made' \in Histories
  BY ReaderAssumption DEF Remade
<1>3. IF l = t THEN T \in Pages(made', Landed', Changes)
               ELSE T \in Pages(made', Landed', {}) /\ R.pc = "idle"
  <2>1. CASE lock = t
    <3>1. T \in Pages(made', Landed', Changes)
      BY <2>1 DEF Grip
    <3>2. ~Busy(T) => T \in Pages(made', Landed', {})
      BY <1>2, <3>1, FreeKeeps
    <3> QED
      BY <1>1, <1>2, <2>1, <3>1, <3>2
  <2>2. CASE lock # t
    BY <2>2 DEF Grip
  <2> QED
    BY <2>1, <2>2
<1>4. l \in {lock, t, None} /\ (lock \in {None, t} \/ l = lock) /\ lock' = l
  OBVIOUS
<1> HIDE DEF l
<1> QED
  BY <1>3, <1>4, PageMoves

LEMMA DeviceGrows ==
  ASSUME made \in Histories, Remade, Landed \subseteq Landed', DeviceInv
  PROVE  /\ chan \in [Tabs -> Seq(Reports(Landed'))] /\ records \in Recordings(made')
         /\ net \subseteq Requests(made') /\ replies \subseteq Answers(Landed')
         /\ Reports(Landed) \subseteq Reports(Landed')
<1> DEFINE M == made
           N == made'
           L == Landed
           K == Landed'
           D == Reports(L)
           E == Reports(K)
<1>1. /\ M \in Histories /\ N \in Histories /\ DOMAIN M \subseteq DOMAIN N
      /\ \A c \in DOMAIN M : N[c] = M[c]
  BY DEF Remade
<1>2. L \subseteq K
  OBVIOUS
<1>3. /\ chan \in [Tabs -> Seq(D)] /\ records \in Recordings(M)
      /\ net \subseteq Requests(M) /\ replies \subseteq Answers(L)
  BY DEF DeviceInv
<1> HIDE DEF M, N, L, K
<1>4. D \subseteq E
  BY <1>2 DEF Reports
<1>5. Answers(L) \subseteq Answers(K)
  BY <1>4 DEF Answers
<1>6. Recordings(M) \subseteq Recordings(N) /\ Requests(M) \subseteq Requests(N)
  BY <1>1, ReplaysGrow
<1> HIDE DEF D, E
<1>7. chan \in [Tabs -> Seq(E)]
  <2>1. \A t \in Tabs : chan[t] \in Seq(D)
    BY <1>3
  <2>2. \A t \in Tabs : chan[t] \in Seq(E)
    BY <1>4, <2>1
  <2> QED
    BY <1>3, <2>2
<1> QED
  BY <1>3, <1>4, <1>5, <1>6, <1>7 DEF N, K, E, D, L

LEMMA ServerStay ==
  ASSUME made \in Histories, ServerInv, Remade, UNCHANGED <<log, receipts>>,
         spent' \in [DOMAIN Limit -> Nat], spent'.other = spent.other
  PROVE  ServerInv' /\ Landed' = Landed
<1>1. Landed' = Landed /\ Receipted' = Receipted
  BY DEF Landed, InLog, Receipted
<1>2. AppliedAsMade'
  <2>1. \A i \in DOMAIN log : log[i] \in Changes => log[i] \in DOMAIN made
    BY DEF ServerInv, Landed, InLog
  <2> QED
    BY <2>1 DEF ServerInv, AppliedAsMade, Remade
<1>3. Landed' = Receipted' /\ Landed' \subseteq DOMAIN made'
  BY <1>1 DEF ServerInv, Remade
<1> QED
  BY <1>1, <1>2, <1>3 DEF ServerInv

LEMMA SpentKeeps ==
  ASSUME spent \in [DOMAIN Limit -> Nat], NEW kind \in DOMAIN Limit, Spend(kind)
  PROVE  /\ spent' \in [DOMAIN Limit -> Nat]
         /\ kind # "other" => spent'.other = spent.other
         /\ kind = "other" => spent'.other = spent.other + 1 /\ spent'.other <= MaxOther
<1>1. spent' = [spent EXCEPT ![kind] = @ + 1] /\ spent[kind] < Limit[kind]
  BY DEF Spend, May
<1>2. "other" \in DOMAIN Limit /\ Limit["other"] = MaxOther
  BY DEF Limit
<1>3. spent' \in [DOMAIN Limit -> Nat]
  BY <1>1
<1>4. MaxOther \in Nat
  BY ReaderAssumption
<1>5. kind # "other" => spent'["other"] = spent["other"]
  BY <1>1, <1>2
<1>6. kind = "other" => spent'["other"] = spent["other"] + 1 /\ spent'["other"] <= MaxOther
  BY <1>1, <1>2, <1>4
<1> QED
  BY <1>3, <1>5, <1>6

(* The versions of the row stay within those modelled.                     *)
LEMMA VersionsSuffice ==
  ASSUME ServerInv
  PROVE  /\ Len(log) \in Versions /\ IsFiniteSet(Receipted)
         /\ Cardinality(Receipted) \in Nat /\ Cardinality(Receipted) <= MaxChanges
<1>1. MaxChanges \in Nat /\ MaxOther \in Nat
  BY ReaderAssumption
<1>2. IsFiniteSet(Changes) /\ Cardinality(Changes) = MaxChanges
  BY <1>1, FS_Interval DEF Changes
<1>3. /\ IsFiniteSet(Receipted) /\ Cardinality(Receipted) \in Nat
      /\ Cardinality(Receipted) <= MaxChanges
  <2>1. Receipted \subseteq Changes
    BY DEF Receipted
  <2> QED
    BY <1>2, <2>1, FS_Subset, FS_CardinalityType
<1>4. spent.other \in Nat /\ spent.other <= MaxOther
      /\ Len(log) = spent.other + Cardinality(Receipted)
  <2>1. "other" \in DOMAIN Limit
    BY DEF Limit
  <2> QED
    BY <2>1 DEF ServerInv
<1> HIDE DEF Receipted
<1> QED
  BY <1>1, <1>3, <1>4 DEF Versions

LEMMA RequestIs ==
  ASSUME NEW M \in Histories, NEW L, NEW B, NEW T \in Pages(M, L, B), NEW t \in Tabs,
         NEW c \in Changes, T.entry[c].st = "sending", NEW n \in 0 .. MaxRetries
  PROVE  Request(t, c, T.entry[c].fence, n) \in Requests(M)
<1>1. T.entry[c] \in Entries /\ EntryOK(M, L, B, c, T.entry[c])
  BY PageFacts
<1>2. T.entry[c].fence \in Versions
  BY <1>1 DEF Entries, EntryOK, Fences
<1>3. c \in DOMAIN M /\ (M[c].first => T.entry[c].fence = M[c].on)
  BY <1>1 DEF EntryOK, Settled
<1> DEFINE fence == T.entry[c].fence
<1> HIDE DEF fence
<1>4. fence \in Versions /\ (M[c].first => fence = M[c].on)
  BY <1>2, <1>3 DEF fence
<1>5. Request(t, c, fence, n) \in Requests(M)
  BY <1>3, <1>4 DEF Request, Requests
<1> QED
  BY <1>5 DEF fence

(* What the step of a page has put on its way.                             *)
LEMMA SentIs ==
  ASSUME made' \in Histories, NEW t \in Tabs, NEW L, NEW B, tab'[t] \in Pages(made', L, B)
  PROVE  Sent(t) \subseteq Requests(made')
<1> DEFINE T == tab'[t]
           M == made'
<1>1. T \in Pages(M, L, B) /\ M \in Histories /\ 0 \in 0 .. MaxRetries
  BY ReaderAssumption
<1> HIDE DEF T, M
<1>2. \A c \in Changes : T.entry[c].st = "sending" =>
        Request(t, c, T.entry[c].fence, 0) \in Requests(M)
  BY <1>1, RequestIs
<1> QED
  BY <1>2 DEF Sent, T, M

-----------------------------------------------------------------------------
(* Every step keeps the invariant.                                         *)

(* A step of one page that neither makes a change nor reaches the row.     *)
LEMMA StepKeeps ==
  ASSUME ReaderInv, made' = made, UNCHANGED <<log, receipts>>, NEW t \in Tabs,
         NEW T \in Pages(made, Landed, Grip(t)), NEW R \in Replays(made),
         R.pc # "idle" => lock = t,
         tab' = [tab EXCEPT ![t] = T], replay' = [replay EXCEPT ![t] = R],
         lock' = IF lock = t /\ ~Busy(tab'[t]) /\ R.pc = "idle" THEN None ELSE lock,
         spent' \in [DOMAIN Limit -> Nat], spent'.other = spent.other,
         chan' \in [Tabs -> Seq(Reports(Landed))], records' \in Recordings(made),
         online' \in BOOLEAN, net' \subseteq Requests(made), replies' \subseteq Answers(Landed)
  PROVE  ReaderInv'
<1>1. made \in Histories /\ PagesInv /\ ServerInv /\ Remade
  BY DEF ReaderInv, Remade
<1>2. ServerInv' /\ Landed' = Landed
  BY <1>1, ServerStay
<1>3. PagesInv'
  <2>1. T \in Pages(made', Landed', Grip(t)) /\ R \in Replays(made')
    BY <1>2
  <2> QED
    BY <1>1, <1>2, <2>1, BecomeKeeps
<1>4. DeviceInv'
  BY <1>2 DEF DeviceInv
<1> QED
  BY <1>1, <1>2, <1>3, <1>4 DEF ReaderInv

(* The same, for one that leaves the replay as it is.                      *)
LEMMA PageKeeps ==
  ASSUME ReaderInv, made' = made, UNCHANGED <<log, receipts>>, NEW t \in Tabs,
         NEW T \in Pages(made, Landed, Grip(t)), tab' = [tab EXCEPT ![t] = T],
         replay' = [replay EXCEPT ![t] = replay[t]],
         lock' = IF lock = t /\ ~Busy(tab'[t]) /\ replay[t].pc = "idle" THEN None ELSE lock,
         spent' \in [DOMAIN Limit -> Nat], spent'.other = spent.other,
         chan' \in [Tabs -> Seq(Reports(Landed))], records' \in Recordings(made),
         online' \in BOOLEAN, net' \subseteq Requests(made), replies' \subseteq Answers(Landed)
  PROVE  ReaderInv'
<1> DEFINE R == replay[t]
<1>1. R \in Replays(made) /\ (R.pc # "idle" => lock = t) /\ replay' = [replay EXCEPT ![t] = R]
      /\ lock' = IF lock = t /\ ~Busy(tab'[t]) /\ R.pc = "idle" THEN None ELSE lock
  BY DEF ReaderInv, PagesInv
<1> HIDE DEF R
<1> QED
  BY <1>1, StepKeeps

LEMMA InvFacts ==
  ASSUME ReaderInv
  PROVE  /\ made \in Histories /\ PagesInv /\ DeviceInv /\ ServerInv
         /\ \A t \in Tabs : tab[t] \in Pages(made, Landed, Grip(t))
         /\ spent \in [DOMAIN Limit -> Nat] /\ Len(log) \in Versions
         /\ chan \in [Tabs -> Seq(Reports(Landed))] /\ records \in Recordings(made)
         /\ online \in BOOLEAN /\ net \subseteq Requests(made) /\ replies \subseteq Answers(Landed)
<1>1. made \in Histories /\ PagesInv /\ DeviceInv /\ ServerInv
  BY DEF ReaderInv
<1>2. \A t \in Tabs : tab[t] \in Pages(made, Landed, Grip(t))
  BY <1>1, GripOf
<1>3. Len(log) \in Versions
  BY <1>1, VersionsSuffice
<1> QED
  BY <1>1, <1>2, <1>3 DEF DeviceInv, ServerInv

LEMMA DispatchStep ==
  ASSUME ReaderInv, NEW t \in Tabs, Dispatch(t)
  PROVE  ReaderInv'
<1> DEFINE M == made
           L == Landed
           B == Grip(t)
           T == tab[t]
           offline == ~online
           m == [on |-> T.known, offline |-> offline, first |-> T.order = <<>>]
           N == Append(M, m)
           U == Dispatched(T, Len(M) + 1)
           R == replay[t]
<1>1. M \in Histories /\ T \in Pages(M, L, B) /\ PagesInv /\ ServerInv /\ DeviceInv
      /\ spent \in [DOMAIN Limit -> Nat]
  BY InvFacts
<1>2. Len(M) < MaxChanges /\ made' = N /\ T.known # Unknown
      /\ UNCHANGED <<chan, deviceVars, netVars, serverVars, withdrawn, spent>>
  BY DEF Dispatch
<1>3. T.known \in Versions /\ offline \in BOOLEAN
  BY <1>1, <1>2, PageFacts DEF DeviceInv
<1>4. /\ N \in Histories /\ DOMAIN M \subseteq DOMAIN N /\ \A c \in DOMAIN M : N[c] = M[c]
      /\ U \in Pages(N, L, B)
  <2> HIDE DEF M, L, B, T, offline
  <2> QED
    BY <1>1, <1>2, <1>3, DispatchedKeeps
<1>5. Remade
  BY <1>2, <1>4 DEF Remade
<1>6. ServerInv' /\ Landed' = Landed
  BY <1>1, <1>2, <1>5, ServerStay DEF serverVars
<1>7. PagesInv'
  <2>1. U \in Pages(made', Landed', Grip(t))
    BY <1>2, <1>4, <1>6
  <2>2. R \in Replays(made') /\ (R.pc # "idle" => lock = t)
    <3>1. R \in Replays(M) /\ (R.pc # "idle" => lock = t)
      BY <1>1 DEF PagesInv
    <3> HIDE DEF R, M, N
    <3> QED
      BY <1>1, <1>2, <1>4, <3>1, ReplaysGrow
  <2>3. /\ tab' = [tab EXCEPT ![t] = U] /\ replay' = [replay EXCEPT ![t] = R]
        /\ lock' = IF lock = t /\ ~Busy(tab'[t]) /\ R.pc = "idle" THEN None ELSE lock
    BY DEF Dispatch, Page, Become
  <2> HIDE DEF U, R
  <2> QED
    BY <1>1, <1>5, <1>6, <2>1, <2>2, <2>3, BecomeKeeps
<1>8. DeviceInv'
  <2>1. Landed \subseteq Landed'
    BY <1>6
  <2>2. /\ chan \in [Tabs -> Seq(Reports(Landed'))] /\ records \in Recordings(made')
        /\ net \subseteq Requests(made') /\ replies \subseteq Answers(Landed')
    BY <1>1, <1>5, <2>1, DeviceGrows
  <2> QED
    BY <1>1, <1>2, <2>2 DEF DeviceInv, deviceVars, netVars
<1> QED
  BY <1>5, <1>6, <1>7, <1>8 DEF ReaderInv, Remade

LEMMA UndoStep ==
  ASSUME ReaderInv, NEW t \in Tabs, NEW c \in Changes, Undo(t, c)
  PROVE  ReaderInv'
<1> DEFINE T == Cancelled(tab[t], c)
<1>1. T \in Pages(made, Landed, Grip(t))
  BY InvFacts, CancelledKeeps
<1>2. spent' \in [DOMAIN Limit -> Nat] /\ spent'.other = spent.other
  <2>1. Spend("undo") /\ "undo" \in DOMAIN Limit /\ "undo" # "other"
    BY DEF Undo, Limit
  <2> QED
    BY <2>1, InvFacts, SpentKeeps
<1>3. /\ tab' = [tab EXCEPT ![t] = T] /\ replay' = [replay EXCEPT ![t] = replay[t]]
      /\ lock' = IF lock = t /\ ~Busy(tab'[t]) /\ replay[t].pc = "idle" THEN None ELSE lock
  BY DEF Undo, Page, Become
<1>4. UNCHANGED <<made, log, receipts, chan, records, online, net, replies>>
  BY DEF Undo, deviceVars, netVars, serverVars
<1> HIDE DEF T
<1> QED
  BY <1>1, <1>2, <1>3, <1>4, InvFacts, PageKeeps

LEMMA ResumeStep ==
  ASSUME ReaderInv, NEW t \in Tabs, NEW c \in Changes, Resume(t, c)
  PROVE  ReaderInv'
<1> DEFINE V == [tab[t] EXCEPT !.entry[c].stored = @ /\ tab[t].entry[c].saved = "yes"]
           T == IF V.entry[c].stored
                THEN IF online THEN [V EXCEPT !.entry[c].st = "turn"] ELSE Park(V, c)
                ELSE IF online THEN Transmit(V, c)
                ELSE Settle(V, c, Note(c, "unsent", None))
<1>1. T \in Pages(made, Landed, Grip(t))
  <2> DEFINE T0 == tab[t]
             L == Landed
             B == Grip(t)
  <2>1. made \in Histories /\ T0 \in Pages(made, L, B) /\ T0.entry[c].st = "saving"
        /\ V = [T0 EXCEPT !.entry[c].stored = @ /\ T0.entry[c].saved = "yes"]
    BY InvFacts DEF Resume
  <2> HIDE DEF T0, L, B, V
  <2>2. /\ [V EXCEPT !.entry[c].st = "turn"] \in Pages(made, L, B)
        /\ Park(V, c) \in Pages(made, L, B)
        /\ ~V.entry[c].stored => Transmit(V, c) \in Pages(made, L, B)
        /\ Settle(V, c, Note(c, "unsent", None)) \in Pages(made, L, B)
    BY <2>1, ResumedKeeps, ZenonT(30)
  <2>3. T \in Pages(made, L, B)
    BY <2>2
  <2> HIDE DEF T
  <2> QED
    BY <2>3 DEF L, B
<1>2. /\ tab' = [tab EXCEPT ![t] = T] /\ replay' = [replay EXCEPT ![t] = replay[t]]
      /\ lock' = IF lock = t /\ ~Busy(tab'[t]) /\ replay[t].pc = "idle" THEN None ELSE lock
  BY Zenon DEF Resume, Page, Become
<1>3. UNCHANGED <<made, log, receipts, chan, records, online, replies, spent>>
      /\ net' = net \cup Sent(t)
  BY DEF Resume, deviceVars, serverVars
<1> HIDE DEF T
<1>4. net' \subseteq Requests(made)
  <2>1. tab'[t] = T /\ made' = made
    BY <1>2, <1>3, InvFacts DEF PagesInv
  <2>2. made' \in Histories /\ tab'[t] \in Pages(made', Landed, Grip(t))
    BY <1>1, <2>1, InvFacts
  <2>3. Sent(t) \subseteq Requests(made')
    BY <2>2, SentIs
  <2> QED
    BY <1>3, <2>3, InvFacts
<1> QED
  BY <1>1, <1>2, <1>3, <1>4, InvFacts, PageKeeps

LEMMA AcquireStep ==
  ASSUME ReaderInv, NEW t \in Tabs, NEW c \in Changes, Acquire(t, c)
  PROVE  ReaderInv'
<1> DEFINE V == [tab[t] EXCEPT !.entry[c].st = "check"]
           T == CASE V.entry[c].fencing = "unset" -> FixFence(V, c)
                  [] V.entry[c].fencing = "writing" -> V
                  [] V.entry[c].fencing = "kept" -> Ask(V, [op |-> "look", id |-> c])
                  [] V.entry[c].fencing = "gone" -> SettleElsewhere(V, c, V.entry[c].heard)
           R == replay[t]
           l == IF Busy(T) \/ R.pc # "idle" THEN t ELSE None
<1>1. T \in Pages(made, Landed, Changes)
  <2> DEFINE T0 == tab[t]
             L == Landed
             B == Grip(t)
  <2>1. made \in Histories /\ T0 \in Pages(made, L, B) /\ T0.entry[c].st = "turn"
        /\ V = [T0 EXCEPT !.entry[c].st = "check"]
    BY InvFacts DEF Acquire
  <2> HIDE DEF T0, L, B, V
  <2>2. T \in Pages(made, L, Changes)
    BY <2>1, AcquiredKeeps
  <2> HIDE DEF T
  <2> QED
    BY <2>2 DEF L
<1>2. tab' = [tab EXCEPT ![t] = T] /\ lock \in {None, t}
      /\ lock' = IF Busy(tab'[t]) \/ replay[t].pc # "idle" THEN t ELSE None
  BY Zenon DEF Acquire, LockFree
<1>3. UNCHANGED <<made, replay, log, receipts, chan, records, online, net, replies, spent>>
  BY DEF Acquire, deviceVars, netVars, serverVars
<1> HIDE DEF T
<1>4. made \in Histories /\ PagesInv /\ ServerInv /\ DeviceInv /\ Remade
  BY <1>3, InvFacts DEF Remade
<1>5. ServerInv' /\ Landed' = Landed
  BY <1>3, <1>4, ServerStay, InvFacts
<1>6. PagesInv'
  <2>1. tab'[t] = T /\ lock' = l /\ replay' = [replay EXCEPT ![t] = R] /\ R \in Replays(made')
    BY <1>2, <1>3, <1>4 DEF PagesInv
  <2>2. IF l = t THEN T \in Pages(made', Landed', Changes)
                 ELSE T \in Pages(made', Landed', {}) /\ R.pc = "idle"
    <3>1. made' = made
      BY <1>3
    <3>2. ~Busy(T) => T \in Pages(made, Landed, {})
      BY <1>1, <1>4, FreeKeeps
    <3> QED
      BY <1>1, <1>5, <3>1, <3>2
  <2>3. l \in {lock, t, None}
    OBVIOUS
  <2> HIDE DEF R, l
  <2> QED
    BY <1>2, <1>4, <1>5, <2>1, <2>2, <2>3, PageMoves
<1>7. DeviceInv'
  BY <1>3, <1>4, <1>5 DEF DeviceInv
<1> QED
  BY <1>3, <1>4, <1>5, <1>6, <1>7 DEF ReaderInv

(* A write less is asked for.                                              *)
LEMMA TailKeeps ==
  ASSUME NEW M \in Histories, NEW L, NEW B, NEW T0 \in Pages(M, L, B), T0.disk # <<>>
  PROVE  LET T == [T0 EXCEPT !.disk = Tail(@)]
         IN  /\ T \in Pages(M, L, B) /\ T.entry = T0.entry /\ T.disk = Tail(T0.disk)
             /\ Head(T0.disk) \in Tasks(M, L)
<1> DEFINE D == Tasks(M, L)
           q == Tail(T0.disk)
           T == [T0 EXCEPT !.disk = Tail(@)]
<1>1. T0 \in PageSet(M, L) /\ T0.disk \in Seq(D)
  BY PageFacts
<1> HIDE DEF D
<1>2. Head(T0.disk) \in D /\ q \in Seq(D) /\ T = [T0 EXCEPT !.disk = q]
  BY <1>1
<1>3. q \in Seq(Tasks(M, L))
  BY <1>2 DEF D
<1> HIDE DEF T, q
<1>4. T \in PageSet(M, L)
  BY <1>1, <1>2, <1>3 DEF PageSet
<1>5. /\ T.known = T0.known /\ T.order = T0.order /\ T.told = T0.told /\ T.entry = T0.entry
      /\ T.disk = q
  BY <1>1, <1>2 DEF PageSet
<1>6. Lists(T0) /\ \A d \in Changes : EntryOK(M, L, B, d, T0.entry[d])
                                      /\ ("done" \in T0.told[d] => d \in L)
  BY PageFacts
<1>7. Lists(T)
  BY <1>5, <1>6 DEF Lists
<1>8. T \in Pages(M, L, B)
  BY <1>4, <1>5, <1>6, <1>7 DEF Pages
<1> QED
  BY <1>2, <1>5, <1>8 DEF T, q, D

(* A write of a page is done or fails, and the page goes on.               *)
LEMMA QueueStep ==
  ASSUME ReaderInv, NEW t \in Tabs, tab[t].disk # <<>>, NEW present \in BOOLEAN
  PROVE  LET job == Head(tab[t].disk)
             T == [tab[t] EXCEPT !.disk = Tail(@)]
         IN  /\ job \in Tasks(made, Landed)
             /\ Answered(T, job, present) \in Pages(made, Landed, Grip(t))
             /\ Announced(t, job) \in [Tabs -> Seq(Reports(Landed))]
<1> DEFINE M == made
           L == Landed
           B == Grip(t)
           T0 == tab[t]
           D == Tasks(M, L)
           job == Head(T0.disk)
           T == [T0 EXCEPT !.disk = Tail(@)]
<1>1. M \in Histories /\ T0 \in Pages(M, L, B) /\ T0.disk # <<>>
      /\ chan \in [Tabs -> Seq(Reports(L))]
  BY InvFacts
<1> HIDE DEF M, L, B, T0, job
<1>2. job \in D /\ T \in Pages(M, L, B)
  BY <1>1, TailKeeps DEF job
<1> HIDE DEF D, T
<1>3. Answered(T, job, present) \in Pages(M, L, B)
  BY <1>1, <1>2, AnsweredKeeps DEF D
<1>4. Announced(t, job) \in [Tabs -> Seq(Reports(L))]
  <2> DEFINE E == Reports(L)
             note == job.note
  <2>1. job.op = "remove" => note \in E
    BY <1>2 DEF D, Tasks
  <2>2. \A u \in Tabs : chan[u] \in Seq(E)
    BY <1>1
  <2> HIDE DEF E, note
  <2>3. job.op = "remove" => \A u \in Tabs : Append(chan[u], note) \in Seq(E)
    BY <2>1, <2>2
  <2>4. chan \in [Tabs -> Seq(E)]
    BY <1>1 DEF E
  <2>5. Announced(t, job) \in [Tabs -> Seq(E)]
    <3>1. CASE job.op # "remove"
      BY <2>4, <3>1 DEF Announced
    <3>2. CASE job.op = "remove"
      <4>1. Announced(t, job) =
              [u \in Tabs |-> IF u # t /\ tab[u].hears THEN Append(chan[u], note) ELSE chan[u]]
        BY <3>2 DEF Announced, note
      <4> QED
        BY <2>2, <2>3, <3>2, <4>1
    <3> QED
      BY <3>1, <3>2
  <2> QED
    BY <2>5 DEF E
<1> QED
  BY <1>2, <1>3, <1>4 DEF D, T, job, M, L, B, T0

LEMMA DiskFaultStep ==
  ASSUME ReaderInv, NEW t \in Tabs, DiskFault(t)
  PROVE  ReaderInv'
<1> DEFINE job == Head(tab[t].disk)
           T == Answered([tab[t] EXCEPT !.disk = Tail(@)], job, job.op # "save")
<1>1. T \in Pages(made, Landed, Grip(t)) /\ Announced(t, job) \in [Tabs -> Seq(Reports(Landed))]
  BY QueueStep DEF DiskFault
<1>2. /\ tab' = [tab EXCEPT ![t] = T] /\ replay' = [replay EXCEPT ![t] = replay[t]]
      /\ lock' = IF lock = t /\ ~Busy(tab'[t]) /\ replay[t].pc = "idle" THEN None ELSE lock
      /\ chan' = Announced(t, job) /\ net' = net \cup Sent(t) /\ Spend("fault")
  BY Zenon DEF DiskFault, Page, Become
<1>3. UNCHANGED <<made, log, receipts, records, online, replies>>
  BY DEF DiskFault, deviceVars, serverVars
<1> HIDE DEF T, job
<1>4. net' \subseteq Requests(made)
  <2>1. tab'[t] = T /\ made' = made
    BY <1>2, <1>3, InvFacts DEF PagesInv
  <2>2. made' \in Histories /\ tab'[t] \in Pages(made', Landed, Grip(t))
    BY <1>1, <2>1, InvFacts
  <2>3. Sent(t) \subseteq Requests(made')
    BY <2>2, SentIs
  <2> QED
    BY <1>2, <1>3, <2>3, InvFacts
<1>5. spent' \in [DOMAIN Limit -> Nat] /\ spent'.other = spent.other
  <2>1. "fault" \in DOMAIN Limit /\ "fault" # "other"
    BY DEF Limit
  <2> QED
    BY <1>2, <2>1, InvFacts, SpentKeeps
<1> QED
  BY <1>1, <1>2, <1>3, <1>4, <1>5, InvFacts, PageKeeps

(* A write leaves the queue store sound.                                   *)
LEMMA WrittenKeeps ==
  ASSUME ReaderInv, NEW job \in Tasks(made, Landed)
  PROVE  Stored(job) \in Recordings(made)
<1> DEFINE M == made
           F == records
           c == job.id
<1>1. /\ M \in Histories /\ F \in Recordings(M) /\ c \in DOMAIN M /\ job \in Jobs
      /\ (job.op = "save" => RecordOK(M, c, job.rec)) /\ (job.op = "fence" => ~M[c].first)
  BY InvFacts DEF Tasks
<1>2. DOMAIN F \subseteq DOMAIN M /\ F \in [DOMAIN F -> RecordSet]
      /\ \A d \in DOMAIN F : RecordOK(M, d, F[d])
  BY <1>1, RecordingFacts
<1>3. ASSUME NEW r, RecordOK(M, c, r), c \in DOMAIN F
      PROVE  [F EXCEPT ![c] = r] \in Recordings(M)
  <2> DEFINE G == [F EXCEPT ![c] = r]
             S == DOMAIN F
  <2>1. r \in RecordSet
    BY <1>3 DEF RecordOK
  <2>2. G \in [S -> RecordSet] /\ \A d \in S : G[d] = IF d = c THEN r ELSE F[d]
    BY <1>2, <2>1
  <2>3. S \in SUBSET DOMAIN M
    BY <1>2
  <2> HIDE DEF G
  <2>4. \A d \in S : RecordOK(M, d, G[d])
    BY <1>2, <1>3, <2>2
  <2> HIDE DEF S
  <2> QED
    BY <1>1, <2>2, <2>3, <2>4, RecordingIs DEF G
<1>4. CASE job.op = "save"
  <2> DEFINE S == DOMAIN F \cup {c}
             G == [d \in S |-> IF d = c THEN job.rec ELSE F[d]]
  <2>1. job.rec \in RecordSet /\ RecordOK(M, c, job.rec)
    BY <1>1, <1>4 DEF RecordOK
  <2>2. G \in [S -> RecordSet] /\ \A d \in S : RecordOK(M, d, G[d])
    BY <1>2, <2>1
  <2>3. S \in SUBSET DOMAIN M
    BY <1>1, <1>2
  <2>4. Stored(job) = G
    BY <1>4, Zenon DEF Stored
  <2> HIDE DEF G, S
  <2> QED
    BY <1>1, <2>2, <2>3, <2>4, RecordingIs
<1>5. CASE job.op = "remove"
  <2> DEFINE S == DOMAIN F \ {c}
             G == [d \in S |-> F[d]]
  <2>1. G \in [S -> RecordSet] /\ \A d \in S : RecordOK(M, d, G[d])
    BY <1>2
  <2>2. S \in SUBSET DOMAIN M
    BY <1>2
  <2>3. Stored(job) = G
    BY <1>5, Zenon DEF Stored, Restrict
  <2> HIDE DEF G, S
  <2> QED
    BY <1>1, <2>1, <2>2, <2>3, RecordingIs
<1>6. CASE job.op \notin {"save", "remove"}
  <2> DEFINE amended(r) ==
               CASE job.op = "fence" -> [r EXCEPT !.fence = job.fence]
                 [] job.op = "after" -> [r EXCEPT !.after = job.after]
                 [] job.op = "mark" -> [r EXCEPT !.sent = TRUE]
                 [] job.op = "look" -> r
             G == [d \in DOMAIN F |-> IF d = c THEN amended(F[d]) ELSE F[d]]
  <2>0. Stored(job) = G
    BY <1>6, Zenon DEF Stored
  <2>1. SUFFICES ASSUME c \in DOMAIN F
                 PROVE  G \in Recordings(M)
    <3>1. c \notin DOMAIN F => G = F
      BY <1>2
    <3> HIDE DEF G
    <3> QED
      BY <1>1, <2>0, <3>1
  <2>9. RecordOK(M, c, F[c]) /\ F[c] \in RecordSet
    BY <1>2, <2>1
  <2>2. job.op = "fence" => RecordOK(M, c, [F[c] EXCEPT !.fence = job.fence])
    <3>1. SUFFICES ASSUME job.op = "fence"
                   PROVE  RecordOK(M, c, [F[c] EXCEPT !.fence = job.fence])
      OBVIOUS
    <3> DEFINE fence == job.fence
               r == [F[c] EXCEPT !.fence = fence]
    <3>2. fence \in Fences
      BY <1>1, <3>1 DEF Jobs, Fences
    <3> HIDE DEF fence
    <3>3. r \in RecordSet
      BY <2>9, <3>2 DEF RecordSet
    <3> HIDE DEF r
    <3>4. RecordOK(M, c, r)
      BY <1>1, <3>1, <3>3 DEF RecordOK
    <3> QED
      BY <3>4 DEF r, fence
  <2>3. job.op = "after" => RecordOK(M, c, [F[c] EXCEPT !.after = job.after])
    <3>1. SUFFICES ASSUME job.op = "after"
                   PROVE  RecordOK(M, c, [F[c] EXCEPT !.after = job.after])
      OBVIOUS
    <3> DEFINE after == job.after
               r == [F[c] EXCEPT !.after = after]
    <3>2. after \in Changes \cup {None}
      BY <1>1, <3>1 DEF Jobs
    <3> HIDE DEF after
    <3>3. r \in RecordSet /\ r.fence = F[c].fence
      BY <2>9, <3>2 DEF RecordSet
    <3> HIDE DEF r
    <3>4. RecordOK(M, c, r)
      BY <2>9, <3>3 DEF RecordOK
    <3> QED
      BY <3>4 DEF r, after
  <2>4. RecordOK(M, c, [F[c] EXCEPT !.sent = TRUE])
    <3> DEFINE r == [F[c] EXCEPT !.sent = TRUE]
    <3>1. r \in RecordSet /\ r.fence = F[c].fence
      BY <2>9 DEF RecordSet
    <3> HIDE DEF r
    <3>2. RecordOK(M, c, r)
      BY <2>9, <3>1 DEF RecordOK
    <3> QED
      BY <3>2 DEF r
  <2>5. RecordOK(M, c, amended(F[c]))
    <3>1. job.op \in {"fence", "after", "mark", "look"}
      BY <1>1, <1>6 DEF Jobs
    <3> QED
      BY <2>9, <2>2, <2>3, <2>4, <3>1
  <2> DEFINE r == amended(F[c])
             H == [d \in DOMAIN F |-> IF d = c THEN r ELSE F[d]]
  <2>6. G = H
    <3> HIDE DEF amended
    <3>1. \A d \in DOMAIN F : (IF d = c THEN amended(F[d]) ELSE F[d]) = (IF d = c THEN r ELSE F[d])
      BY Zenon
    <3> HIDE DEF r
    <3> QED
      BY <3>1
  <2>7. RecordOK(M, c, r) /\ G = [F EXCEPT ![c] = r]
    <3>1. RecordOK(M, c, r)
      BY <2>5
    <3> HIDE DEF r, G
    <3> QED
      BY <1>2, <2>1, <2>6, <3>1
  <2> HIDE DEF r, G
  <2> QED
    BY <1>3, <2>1, <2>7
<1> QED
  BY <1>4, <1>5, <1>6

LEMMA DiskStepStep ==
  ASSUME ReaderInv, NEW t \in Tabs, DiskStep(t)
  PROVE  ReaderInv'
<1> DEFINE job == Head(tab[t].disk)
           present == job.op = "save" \/ job.id \in DOMAIN records
           T == Answered([tab[t] EXCEPT !.disk = Tail(@)], job, present)
<1>1. /\ job \in Tasks(made, Landed) /\ T \in Pages(made, Landed, Grip(t))
      /\ Announced(t, job) \in [Tabs -> Seq(Reports(Landed))]
  <2>1. present \in BOOLEAN /\ tab[t].disk # <<>>
    BY DEF DiskStep
  <2> HIDE DEF present
  <2> QED
    BY <2>1, QueueStep
<1>2. Stored(job) \in Recordings(made)
  BY <1>1, WrittenKeeps
<1>3. /\ tab' = [tab EXCEPT ![t] = T] /\ replay' = [replay EXCEPT ![t] = replay[t]]
      /\ lock' = IF lock = t /\ ~Busy(tab'[t]) /\ replay[t].pc = "idle" THEN None ELSE lock
      /\ chan' = Announced(t, job) /\ net' = net \cup Sent(t) /\ records' = Stored(job)
  BY Zenon DEF DiskStep, Page, Become
<1>4. UNCHANGED <<made, log, receipts, online, replies, spent>>
  BY DEF DiskStep, serverVars
<1> HIDE DEF T, job
<1>5. net' \subseteq Requests(made)
  <2>1. tab'[t] = T /\ made' = made
    BY <1>3, <1>4, InvFacts DEF PagesInv
  <2>2. made' \in Histories /\ tab'[t] \in Pages(made', Landed, Grip(t))
    BY <1>1, <2>1, InvFacts
  <2>3. Sent(t) \subseteq Requests(made')
    BY <2>2, SentIs
  <2> QED
    BY <1>3, <1>4, <2>3, InvFacts
<1> QED
  BY <1>1, <1>2, <1>3, <1>4, <1>5, InvFacts, PageKeeps

LEMMA FailStep ==
  ASSUME ReaderInv, NEW t \in Tabs, NEW c \in Changes, Fail(t, c)
  PROVE  ReaderInv'
<1> DEFINE T0 == tab[t]
           E == T0.entry[c]
           retry == [tab[t] EXCEPT !.entry[c].try = @ + 1]
           park == IF E.stored THEN Park(tab[t], c)
                   ELSE Drop(tab[t], c, Note(c, "unsent", None))
           L == Landed
           B == Grip(t)
           again == Request(t, c, E.fence, E.try + 1)
<1>1. made \in Histories /\ T0 \in Pages(made, L, B) /\ E.st = "sending"
  BY InvFacts DEF Fail
<1>2. (E.try < MaxRetries => retry \in Pages(made, L, B)) /\ park \in Pages(made, L, B)
  <2> HIDE DEF L, B
  <2> QED
    BY <1>1, FailedKeeps
<1>3. E.try < MaxRetries => again \in Requests(made)
  <2> DEFINE n == E.try + 1
  <2>1. E.try < MaxRetries => n \in 0 .. MaxRetries
    <3>1. E \in Entries
      BY <1>1, PageFacts
    <3>2. E.try \in 0 .. MaxRetries
      BY <3>1 DEF Entries
    <3> QED
      BY <3>2, ReaderAssumption
  <2> HIDE DEF T0, L, B, n
  <2>2. E.try < MaxRetries => Request(t, c, T0.entry[c].fence, n) \in Requests(made)
    BY <1>1, <2>1, RequestIs
  <2> QED
    BY <2>2 DEF n
<1>4. spent' \in [DOMAIN Limit -> Nat] /\ spent'.other = spent.other
  <2>1. Spend("fail") /\ "fail" \in DOMAIN Limit /\ "fail" # "other"
    BY DEF Fail, Limit
  <2> QED
    BY <2>1, InvFacts, SpentKeeps
<1>5. PICK lost \in BOOLEAN :
        LET left == IF lost THEN net \ {Pending(t, c)} ELSE net
        IN  \/ /\ E.try < MaxRetries /\ online
               /\ Page(t, retry) /\ net' = left \cup {again}
            \/ Page(t, park) /\ net' = left
  BY Zenon DEF Fail
<1>6. UNCHANGED <<made, log, receipts, chan, records, online>> /\ replies' \subseteq Answers(Landed)
  BY InvFacts DEF Fail, deviceVars, serverVars
<1> HIDE DEF again, E, T0
<1>7. CASE E.try < MaxRetries /\ Page(t, retry) /\ net' \subseteq net \cup {again}
  <2> HIDE DEF retry
  <2>1. /\ tab' = [tab EXCEPT ![t] = retry] /\ replay' = [replay EXCEPT ![t] = replay[t]]
        /\ lock' = IF lock = t /\ ~Busy(tab'[t]) /\ replay[t].pc = "idle" THEN None ELSE lock
    BY <1>7 DEF Page, Become
  <2>2. net' \subseteq Requests(made)
    BY <1>3, <1>7, InvFacts
  <2> QED
    BY <1>2, <1>4, <1>6, <1>7, <2>1, <2>2, InvFacts, PageKeeps
<1>8. CASE Page(t, park) /\ net' \subseteq net
  <2> HIDE DEF park
  <2>1. /\ tab' = [tab EXCEPT ![t] = park] /\ replay' = [replay EXCEPT ![t] = replay[t]]
        /\ lock' = IF lock = t /\ ~Busy(tab'[t]) /\ replay[t].pc = "idle" THEN None ELSE lock
    BY <1>8 DEF Page, Become
  <2>2. net' \subseteq Requests(made)
    BY <1>8, InvFacts
  <2> QED
    BY <1>2, <1>4, <1>6, <2>1, <2>2, InvFacts, PageKeeps
<1> QED
  BY <1>5, <1>7, <1>8

LEMMA ReplyStep ==
  ASSUME ReaderInv, NEW t \in Tabs, NEW c \in Changes, Reply(t, c)
  PROVE  ReaderInv'
<1>1. PICK r \in replies :
        LET note == r.note
            T == IF note.out = "refused" THEN tab[t] ELSE Learn(tab[t], note.version)
        IN  /\ r.tab = t /\ note.id = c
            /\ replies' = replies \ {r}
            /\ Page(t, IF note.out = "done" THEN Settle(T, c, note) ELSE Drop(T, c, note))
            /\ UNCHANGED <<made, chan, deviceVars, net, serverVars, withdrawn, spent>>
  BY Zenon DEF Reply
<1> DEFINE note == r.note
           T0 == tab[t]
           L == Landed
           B == Grip(t)
           T == IF note.out = "refused" THEN T0 ELSE Learn(T0, note.version)
           U == IF note.out = "done" THEN Settle(T, c, note) ELSE Drop(T, c, note)
<1>2. note \in Reports(L) /\ note.id = c /\ note.out \in {"done", "stale", "refused"}
      /\ made \in Histories /\ T0 \in Pages(made, L, B)
  BY <1>1, InvFacts DEF Answers
<1>3. U \in Pages(made, L, B)
  <2> HIDE DEF note, T0, L, B
  <2> QED
    BY <1>2, RepliedKeeps
<1>4. /\ tab' = [tab EXCEPT ![t] = U] /\ replay' = [replay EXCEPT ![t] = replay[t]]
      /\ lock' = IF lock = t /\ ~Busy(tab'[t]) /\ replay[t].pc = "idle" THEN None ELSE lock
  BY <1>1, Zenon DEF Page, Become
<1>5. UNCHANGED <<made, log, receipts, chan, records, online, net, spent>>
      /\ replies' \subseteq replies
  BY <1>1 DEF deviceVars, serverVars
<1> HIDE DEF U
<1>6. replies' \subseteq Answers(Landed)
  BY <1>5, InvFacts
<1> QED
  BY <1>3, <1>4, <1>5, <1>6, InvFacts, PageKeeps

LEMMA HearStep ==
  ASSUME ReaderInv, NEW t \in Tabs, Hear(t)
  PROVE  ReaderInv'
<1> DEFINE note == Head(chan[t])
           E == tab[t].entry[note.id]
           T == IF ~E.stored THEN tab[t]
                ELSE IF E.st \in {"waiting", "queued"} THEN SettleElsewhere(tab[t], note.id, note)
                ELSE IF E.st \in {"saving", "turn", "check", "mark"}
                THEN [tab[t] EXCEPT !.entry[note.id].heard = note]
                ELSE tab[t]
           D == Reports(Landed)
<1>1. chan \in [Tabs -> Seq(D)] /\ chan[t] # <<>> /\ chan[t] \in Seq(D)
  BY InvFacts, ZenonT(30) DEF Hear
<1> HIDE DEF D
<1>2. note \in D /\ Tail(chan[t]) \in Seq(D)
  BY <1>1
<1>3. T \in Pages(made, Landed, Grip(t))
  <2> DEFINE T0 == tab[t]
             L == Landed
             B == Grip(t)
  <2>1. made \in Histories /\ T0 \in Pages(made, L, B) /\ note \in Reports(L)
    BY <1>2, InvFacts DEF D
  <2> HIDE DEF T0, L, B, note
  <2>2. (IF ~T0.entry[note.id].stored THEN T0
         ELSE IF T0.entry[note.id].st \in {"waiting", "queued"} THEN SettleElsewhere(T0, note.id, note)
         ELSE IF T0.entry[note.id].st \in {"saving", "turn", "check", "mark"}
         THEN [T0 EXCEPT !.entry[note.id].heard = note]
         ELSE T0) \in Pages(made, L, B)
    BY <2>1, HeardKeeps
  <2> QED
    BY <2>2, Zenon DEF T0, L, B
<1>4. /\ tab' = [tab EXCEPT ![t] = T] /\ replay' = [replay EXCEPT ![t] = replay[t]]
      /\ lock' = IF lock = t /\ ~Busy(tab'[t]) /\ replay[t].pc = "idle" THEN None ELSE lock
  BY ZenonT(60) DEF Hear, Page, Become
<1>5. UNCHANGED <<made, log, receipts, records, online, net, replies, spent>>
      /\ chan' = [chan EXCEPT ![t] = Tail(@)]
  BY ZenonT(30) DEF Hear, deviceVars, netVars, serverVars
<1> HIDE DEF T
<1>6. chan' \in [Tabs -> Seq(D)]
  <2> DEFINE q == Tail(chan[t])
  <2>1. chan' = [chan EXCEPT ![t] = q] /\ q \in Seq(D)
    BY <1>2, <1>5
  <2> HIDE DEF q
  <2> QED
    BY <1>1, <2>1
<1> QED
  BY <1>3, <1>4, <1>5, <1>6, InvFacts, PageKeeps DEF D

LEMMA ObserveStep ==
  ASSUME ReaderInv, NEW t \in Tabs, NEW v \in 0 .. Len(log), Observe(t, v)
  PROVE  ReaderInv'
<1> DEFINE T == Learn(Sweep(tab[t]), v)
<1>1. v \in Versions
  BY InvFacts, ReaderAssumption DEF Versions
<1>2. T \in Pages(made, Landed, Grip(t))
  <2>1. Sweep(tab[t]) \in Pages(made, Landed, Grip(t))
    BY InvFacts, SweepKeeps
  <2> QED
    BY <1>1, <2>1, InvFacts, LearnKeeps
<1>3. /\ tab' = [tab EXCEPT ![t] = T] /\ replay' = [replay EXCEPT ![t] = replay[t]]
      /\ lock' = IF lock = t /\ ~Busy(tab'[t]) /\ replay[t].pc = "idle" THEN None ELSE lock
  BY DEF Observe, Page, Become
<1>4. UNCHANGED <<made, log, receipts, chan, records, online, net, replies, spent>>
  BY DEF Observe, deviceVars, netVars, serverVars
<1> HIDE DEF T
<1> QED
  BY <1>2, <1>3, <1>4, InvFacts, PageKeeps

(* The connection comes and goes.                                          *)
LEMMA ConnectionStep ==
  ASSUME ReaderInv, Disconnect \/ Reconnect
  PROVE  ReaderInv'
<1>1. UNCHANGED <<made, tab, chan, replay, lock, records, net, replies, log, receipts>>
      /\ online' \in BOOLEAN
  BY DEF Disconnect, Reconnect, pageVars, netVars, serverVars
<1>2. spent' \in [DOMAIN Limit -> Nat] /\ spent'.other = spent.other
  <2>1. CASE Disconnect
    <3>1. Spend("drop") /\ "drop" \in DOMAIN Limit /\ "drop" # "other"
      BY <2>1 DEF Disconnect, Limit
    <3> QED
      BY <3>1, InvFacts, SpentKeeps
  <2>2. CASE Reconnect
    BY <2>2, InvFacts DEF Reconnect
  <2> QED
    BY <2>1, <2>2
<1>3. made \in Histories /\ Remade /\ ServerInv /\ PagesInv /\ DeviceInv
  BY <1>1, InvFacts DEF Remade
<1>4. ServerInv' /\ Landed' = Landed
  BY <1>1, <1>2, <1>3, ServerStay
<1>5. PagesInv'
  BY <1>1, <1>3, <1>4, PagesStay
<1>6. DeviceInv'
  BY <1>1, <1>3, <1>4 DEF DeviceInv
<1> QED
  BY <1>1, <1>3, <1>4, <1>5, <1>6 DEF ReaderInv

LEMMA RestingIs ==
  ASSUME NEW M \in Histories
  PROVE  /\ Resting \in Replays(M) /\ Resting.pc = "idle"
         /\ [Resting EXCEPT !.pc = "drain"] \in Replays(M)
<1> DEFINE f == << >>
<1>1. f \in Recordings(M)
  <2>1. f \in [{} -> RecordSet] /\ {} \in SUBSET DOMAIN M
    OBVIOUS
  <2> HIDE DEF f
  <2> QED
    BY <2>1, RecordingIs
<1> HIDE DEF f
<1>2. Resting = [pc |-> "idle", recs |-> f, old |-> {}, cur |-> None]
  BY DEF Resting, f
<1> QED
  BY <1>1, <1>2 DEF Replays

LEMMA ReloadStep ==
  ASSUME ReaderInv, NEW t \in Tabs, Reload(t)
  PROVE  ReaderInv'
<1> DEFINE told == tab[t].told
           T == Fresh(told)
           l == IF lock = t THEN None ELSE lock
           D == Reports(Landed)
<1>1. made \in Histories /\ PagesInv /\ DeviceInv /\ ServerInv /\ None \notin Tabs
  BY InvFacts, ReaderAssumption
<1>2. \A C : T \in Pages(made, Landed, C)
  <2>1. told \in [Changes -> SUBSET Outcomes] /\ \A c \in Changes : "done" \in told[c] => c \in Landed
    BY InvFacts, PageFacts
  <2> HIDE DEF told
  <2> QED
    BY <1>1, <2>1, FreshKeeps
<1>3. /\ tab' = [tab EXCEPT ![t] = T] /\ replay' = [replay EXCEPT ![t] = Resting] /\ lock' = l
      /\ chan' = [chan EXCEPT ![t] = <<>>] /\ replies' \subseteq replies
      /\ UNCHANGED <<made, log, receipts, records, online, net>>
  BY DEF Reload, deviceVars, serverVars
<1>4. spent' \in [DOMAIN Limit -> Nat] /\ spent'.other = spent.other
  <2>1. Spend("crash") /\ "crash" \in DOMAIN Limit /\ "crash" # "other"
    BY DEF Reload, Limit
  <2> QED
    BY <2>1, InvFacts, SpentKeeps
<1>5. Remade
  BY <1>1, <1>3 DEF Remade
<1> HIDE DEF T
<1>6. ServerInv' /\ Landed' = Landed
  BY <1>1, <1>3, <1>4, <1>5, ServerStay
<1>7. PagesInv'
  <2>1. l \in {lock, t, None} /\ l # t
    BY <1>1
  <2>2. l # None \/ lock \in {None, t}
    OBVIOUS
  <2>3. Resting \in Replays(made') /\ Resting.pc = "idle" /\ T \in Pages(made', Landed', {})
    BY <1>1, <1>2, <1>3, <1>6, RestingIs
  <2>4. lock \in {None, t} \/ l = lock
    OBVIOUS
  <2> HIDE DEF l
  <2> QED
    BY <1>1, <1>3, <1>5, <1>6, <2>1, <2>3, <2>4, PageMoves
<1>8. chan' \in [Tabs -> Seq(D)]
  <2>1. chan \in [Tabs -> Seq(D)]
    BY InvFacts
  <2> HIDE DEF D
  <2>2. <<>> \in Seq(D)
    OBVIOUS
  <2> QED
    BY <1>3, <2>1, <2>2
<1>9. DeviceInv'
  BY <1>1, <1>3, <1>6, <1>8 DEF DeviceInv
<1> QED
  BY <1>3, <1>1, <1>6, <1>7, <1>9 DEF ReaderInv

-----------------------------------------------------------------------------
(* The replay's steps.                                                     *)

LEMMA RestoreStep ==
  ASSUME ReaderInv, NEW t \in Tabs, Restore(t)
  PROVE  ReaderInv'
<1> DEFINE T == Adopt(tab[t], records, Durable(tab[t]))
<1>1. T \in Pages(made, Landed, Grip(t))
  BY InvFacts, AdoptKeeps
<1>2. /\ tab' = [tab EXCEPT ![t] = T] /\ replay' = [replay EXCEPT ![t] = replay[t]]
      /\ lock' = IF lock = t /\ ~Busy(tab'[t]) /\ replay[t].pc = "idle" THEN None ELSE lock
  BY DEF Restore, Page, Become
<1>3. UNCHANGED <<made, log, receipts, chan, records, online, net, replies, spent>>
  BY DEF Restore, deviceVars, netVars, serverVars
<1> HIDE DEF T
<1> QED
  BY <1>1, <1>2, <1>3, InvFacts, PageKeeps

LEMMA ReplayBeginStep ==
  ASSUME ReaderInv, NEW t \in Tabs, ReplayBegin(t)
  PROVE  ReaderInv'
<1> DEFINE T == tab[t]
           R == [pc |-> "listed", recs |-> records, old |-> Durable(tab[t]), cur |-> None]
<1>1. made \in Histories /\ PagesInv /\ DeviceInv /\ ServerInv
  BY InvFacts
<1>2. lock \in {None, t} /\ lock' = t /\ replay' = [replay EXCEPT ![t] = R]
      /\ UNCHANGED <<made, tab, chan, records, online, net, replies, log, receipts, spent>>
  BY DEF ReplayBegin, LockFree, deviceVars, netVars, serverVars
<1>3. Remade
  BY <1>1, <1>2 DEF Remade
<1>4. ServerInv' /\ Landed' = Landed
  BY <1>1, <1>2, <1>3, ServerStay, InvFacts
<1>5. R \in Replays(made)
  <2> DEFINE old == Durable(tab[t])
             recs == records
  <2>1. old \subseteq Changes /\ recs \in Recordings(made)
    BY InvFacts DEF Durable, Kept
  <2> HIDE DEF old, recs
  <2>2. [pc |-> "listed", recs |-> recs, old |-> old, cur |-> None] \in Replays(made)
    BY <2>1 DEF Replays
  <2> QED
    BY <2>2 DEF old, recs
<1>6. PagesInv'
  <2>1. tab' = [tab EXCEPT ![t] = T] /\ T \in Pages(made', Landed', Changes)
    BY <1>1, <1>2, <1>4 DEF PagesInv
  <2>2. R \in Replays(made')
    BY <1>2, <1>5
  <2> HIDE DEF T, R
  <2> QED
    BY <1>1, <1>2, <1>3, <1>4, <2>1, <2>2, PageMoves
<1>7. DeviceInv'
  BY <1>1, <1>2, <1>4 DEF DeviceInv
<1> QED
  BY <1>1, <1>2, <1>4, <1>6, <1>7 DEF ReaderInv

LEMMA ReplayFacts ==
  ASSUME ReaderInv, NEW t \in Tabs
  PROVE  /\ replay[t] \in Replays(made) /\ (replay[t].pc # "idle" => lock = t)
         /\ replay[t].recs \in Recordings(made)
BY DEF ReaderInv, PagesInv, Replays

LEMMA ReplayAdoptStep ==
  ASSUME ReaderInv, NEW t \in Tabs, ReplayAdopt(t)
  PROVE  ReaderInv'
<1> DEFINE T == Adopt(tab[t], replay[t].recs, replay[t].old)
           sends == DOMAIN replay[t].recs # {} /\ online
           P == Pages(made, Landed, Grip(t))
<1>1. T \in P
  BY InvFacts, ReplayFacts, AdoptKeeps
<1>2. UNCHANGED <<made, log, receipts, chan, records, online, net, replies>> /\ lock = t
  <2>1. replay[t].pc = "listed"
    BY DEF ReplayAdopt
  <2> QED
    BY <2>1, ReplayFacts DEF ReplayAdopt, deviceVars, netVars, serverVars
<1>3. \A V : Draining(V) \in Replays(made)
  BY InvFacts, RestingIs DEF Draining
<1>4. Resting \in Replays(made)
  BY InvFacts, RestingIs
<1>5. CASE Become(t, T, IF sends THEN Draining(tab'[t]) ELSE Resting) /\ UNCHANGED spent
  <2> DEFINE R == IF sends THEN Draining(tab'[t]) ELSE Resting
  <2>1. /\ tab' = [tab EXCEPT ![t] = T] /\ replay' = [replay EXCEPT ![t] = R]
        /\ lock' = IF lock = t /\ ~Busy(tab'[t]) /\ R.pc = "idle" THEN None ELSE lock
    BY <1>5, Zenon DEF Become
  <2>2. R \in Replays(made)
    BY <1>3, <1>4
  <2> HIDE DEF T, R, P
  <2> QED
    BY <1>1, <1>2, <1>5, <2>1, <2>2, InvFacts, StepKeeps DEF P
<1>6. ASSUME Spend("expiry"), NEW k \in DOMAIN made, Become(t, Expired(T, k), Draining(tab'[t]))
      PROVE  ReaderInv'
  <2> DEFINE U == Expired(T, k)
             R == Draining(tab'[t])
  <2>1. U \in P
    <3>1. k \in Changes
      BY <1>6, InvFacts, HistoryFacts
    <3> HIDE DEF T
    <3> QED
      BY <1>1, <3>1, InvFacts, ExpiredKeeps
  <2>2. /\ tab' = [tab EXCEPT ![t] = U] /\ replay' = [replay EXCEPT ![t] = R]
        /\ lock' = IF lock = t /\ ~Busy(tab'[t]) /\ R.pc = "idle" THEN None ELSE lock
    BY <1>6, Zenon DEF Become
  <2>3. R \in Replays(made)
    BY <1>3
  <2>4. spent' \in [DOMAIN Limit -> Nat] /\ spent'.other = spent.other
    <3>1. "expiry" \in DOMAIN Limit /\ "expiry" # "other"
      BY DEF Limit
    <3> QED
      BY <1>6, <3>1, InvFacts, SpentKeeps
  <2> HIDE DEF T, U, R, P
  <2> QED
    BY <1>2, <2>1, <2>2, <2>3, <2>4, InvFacts, StepKeeps DEF P
<1> QED
  BY <1>5, <1>6, Zenon DEF ReplayAdopt

(* The account check fails, and the drain goes on or ends.                 *)
LEMMA ReplayRestStep ==
  ASSUME ReaderInv, NEW t \in Tabs, ReplayAbandon(t) \/ DrainNext(t) \/ DrainEnd(t)
  PROVE  ReaderInv'
<1> DEFINE P == Pages(made, Landed, Grip(t))
           head == Head0(tab[t])
<1>1. tab[t] \in P /\ made \in Histories /\ Resting \in Replays(made) /\ Resting.pc = "idle"
      /\ replay[t] \in Replays(made)
  BY InvFacts, RestingIs, ReplayFacts
<1>2. UNCHANGED <<made, log, receipts, chan, records, online, net, replies>> /\ lock = t
  <2>1. replay[t].pc # "idle"
    BY DEF ReplayAbandon, DrainNext, DrainEnd
  <2> QED
    BY <2>1, ReplayFacts DEF ReplayAbandon, DrainNext, DrainEnd, deviceVars, netVars, serverVars
<1>3. CASE ReplayAbandon(t)
  <2>1. spent' \in [DOMAIN Limit -> Nat] /\ spent'.other = spent.other
    <3>1. Spend("fail") /\ "fail" \in DOMAIN Limit /\ "fail" # "other"
      BY <1>3 DEF ReplayAbandon, Limit
    <3> QED
      BY <3>1, InvFacts, SpentKeeps
  <2> DEFINE T == tab[t]
             R == Resting
  <2>2. /\ tab' = [tab EXCEPT ![t] = T] /\ replay' = [replay EXCEPT ![t] = R]
        /\ lock' = IF lock = t /\ ~Busy(tab'[t]) /\ R.pc = "idle" THEN None ELSE lock
    BY <1>3 DEF ReplayAbandon, Become
  <2>3. T \in P /\ R \in Replays(made)
    BY <1>1
  <2> HIDE DEF T, R, P
  <2> QED
    BY <1>2, <2>1, <2>2, <2>3, InvFacts, StepKeeps DEF P
<1>4. CASE DrainNext(t)
  <2> DEFINE T == IF tab[t].entry[head].st = "waiting" THEN Start(tab[t], head) ELSE tab[t]
             R == [replay[t] EXCEPT !.cur = head]
  <2>1. head \in Changes
    <3>1. tab[t].order # <<>> /\ head = Head(tab[t].order)
      BY <1>4 DEF DrainNext, Head0
    <3> QED
      BY <1>1, <3>1, HeadFacts
  <2> HIDE DEF head
  <2>2. T \in P
    <3>1. "saving" \in Statuses \ Settled /\ "saving" \notin InExchange /\ "waiting" \notin Settled
      BY DEF Statuses, Settled, InExchange
    <3> QED
      BY <1>1, <2>1, <3>1, Restated DEF Start
  <2>3. R \in Replays(made)
    BY <1>1, <2>1 DEF Replays
  <2>4. /\ tab' = [tab EXCEPT ![t] = T] /\ replay' = [replay EXCEPT ![t] = R]
        /\ lock' = IF lock = t /\ ~Busy(tab'[t]) /\ R.pc = "idle" THEN None ELSE lock
        /\ UNCHANGED spent
    BY <1>4, Zenon DEF DrainNext, Become, head
  <2> HIDE DEF T, R, P
  <2> QED
    BY <1>2, <2>2, <2>3, <2>4, InvFacts, StepKeeps DEF P
<1>5. CASE DrainEnd(t)
  <2> DEFINE T == tab[t]
             R == Resting
  <2>1. /\ tab' = [tab EXCEPT ![t] = T] /\ replay' = [replay EXCEPT ![t] = R]
        /\ lock' = IF lock = t /\ ~Busy(tab'[t]) /\ R.pc = "idle" THEN None ELSE lock
        /\ UNCHANGED spent
    BY <1>5 DEF DrainEnd, Become
  <2>2. T \in P /\ R \in Replays(made)
    BY <1>1
  <2> HIDE DEF T, R, P
  <2> QED
    BY <1>2, <2>1, <2>2, InvFacts, StepKeeps DEF P
<1> QED
  BY <1>3, <1>4, <1>5

-----------------------------------------------------------------------------
(* The server's steps.                                                     *)

(* An answer that is true of the row.                                      *)
LEMMA AnswerIs ==
  ASSUME NEW L, NEW K, replies \subseteq Answers(L), L \subseteq K,
         NEW r, r.tab \in Tabs, NEW note \in Reports(K), note.out \in {"done", "stale", "refused"},
         replies' \subseteq replies \cup {[tab |-> r.tab, note |-> note]}
  PROVE  replies' \subseteq Answers(K)
<1>1. Reports(L) \subseteq Reports(K) /\ note \in Notes
  BY DEF Reports
<1>2. Answers(L) \subseteq Answers(K)
  BY <1>1 DEF Answers
<1>3. [tab |-> r.tab, note |-> note] \in Answers(K)
  BY <1>1 DEF Answers
<1> QED
  BY <1>2, <1>3

LEMMA NoteIs ==
  ASSUME NEW L, NEW c \in Changes, NEW out \in {"done", "stale", "refused"},
         NEW version \in Versions \cup {None},
         out # "refused" => version \in Versions, out = "done" => c \in L
  PROVE  Note(c, out, version) \in Reports(L) /\ Note(c, out, version).out = out
BY DEF Note, Reports, Notes, Outcomes

LEMMA RefusedIs ==
  ASSUME NEW L, NEW c \in Changes
  PROVE  Note(c, "refused", None) \in Reports(L) /\ Note(c, "refused", None).out = "refused"
BY DEF Note, Reports, Notes, Outcomes

LEMMA StaleIs ==
  ASSUME NEW L, NEW c \in Changes, NEW version \in Versions
  PROVE  Note(c, "stale", version) \in Reports(L) /\ Note(c, "stale", version).out = "stale"
BY DEF Note, Reports, Notes, Outcomes

(* A request that changes nothing is answered.                             *)
LEMMA AnsweredStep ==
  ASSUME ReaderInv, NEW r \in net, net' \subseteq net, UNCHANGED <<pageVars, deviceVars, serverVars>>,
         spent' \in [DOMAIN Limit -> Nat], spent'.other = spent.other,
         NEW note \in Reports(Landed), note.out \in {"done", "stale", "refused"},
         replies' \subseteq replies \cup {[tab |-> r.tab, note |-> note]}
  PROVE  ReaderInv'
<1>1. UNCHANGED <<made, tab, chan, replay, lock, records, online, log, receipts>>
  BY DEF pageVars, deviceVars, serverVars
<1>2. made \in Histories /\ Remade /\ ServerInv /\ PagesInv /\ DeviceInv /\ r.tab \in Tabs
  BY <1>1, InvFacts DEF Remade, Requests
<1>3. ServerInv' /\ Landed' = Landed
  BY <1>1, <1>2, ServerStay
<1>4. PagesInv'
  BY <1>1, <1>2, <1>3, PagesStay
<1>5. replies' \subseteq Answers(Landed)
  BY <1>2, InvFacts, AnswerIs
<1>6. DeviceInv'
  BY <1>1, <1>2, <1>3, <1>5 DEF DeviceInv
<1> QED
  BY <1>1, <1>2, <1>3, <1>4, <1>6 DEF ReaderInv

(* One more change is applied: the row and its receipts agree again.       *)
LEMMA AppliedKeeps ==
  ASSUME ReaderInv, NEW r \in net, Applied(r), made' = made, UNCHANGED spent
  PROVE  /\ ServerInv' /\ Landed' = Landed \cup {r.id}
         /\ Len(log) + 1 \in Versions
<1> DEFINE c == r.id
           n == Len(log)
           receipt == [fence |-> r.fence, version |-> Len(log) + 1]
<1>1. made \in Histories /\ ServerInv /\ c \in DOMAIN made /\ c \in Changes /\ r.fence \in Versions
      /\ (made[c].first => r.fence = made[c].on) /\ made' = made
  BY InvFacts DEF Requests
<1>2. receipts[c] = None /\ r.fence = n /\ log' = Append(log, c)
      /\ receipts' = [receipts EXCEPT ![c] = receipt]
  BY DEF Applied
<1> DEFINE D == Changes \cup {Other}
<1>3. /\ log \in Seq(D) /\ c \in D /\ receipts \in [Changes -> Receipts \cup {None}]
      /\ Landed = Receipted /\ Landed \subseteq DOMAIN made
      /\ n = spent.other + Cardinality(Receipted) /\ spent.other <= MaxOther
      /\ spent.other \in Nat
  <2>1. "other" \in DOMAIN Limit
    BY DEF Limit
  <2> QED
    BY <1>1, <2>1 DEF ServerInv
<1> HIDE DEF c, D
<1>4. /\ log' \in Seq(D) /\ Len(log') = n + 1 /\ n \in Nat /\ DOMAIN log = 1 .. n
      /\ DOMAIN log' = 1 .. (n + 1) /\ log'[n + 1] = c /\ \A i \in 1 .. n : log'[i] = log[i]
  BY <1>2, <1>3
<1>5. Landed' = Landed \cup {c}
  BY <1>1, <1>4 DEF Landed, InLog
<1>6. c \notin Receipted /\ IsFiniteSet(Receipted) /\ Cardinality(Receipted) \in Nat
  BY <1>1, <1>2, VersionsSuffice DEF Receipted
<1> DEFINE S == Receipted
           S2 == Receipted \cup {c}
<1>7. IsFiniteSet(S2) /\ Cardinality(S2) = Cardinality(S) + 1
  <2> HIDE DEF S
  <2>1. S2 = S \cup {c} /\ c \notin S /\ IsFiniteSet(S)
    BY <1>6 DEF S
  <2> QED
    BY <2>1, FS_AddElement
<1>8. Cardinality(S2) <= MaxChanges
  <2>1. IsFiniteSet(Changes) /\ Cardinality(Changes) = MaxChanges
    BY ReaderAssumption, FS_Interval DEF Changes
  <2>2. S2 \subseteq Changes
    BY <1>1 DEF Receipted, c
  <2> HIDE DEF S2
  <2> QED
    BY <2>1, <2>2, FS_Subset
<1>9. n + 1 \in Versions
  <2> DEFINE k == Cardinality(S2)
             o == spent.other
  <2>1. k = Cardinality(S) + 1 /\ Cardinality(S) \in Nat /\ k <= MaxChanges
        /\ n = o + Cardinality(S) /\ o \in Nat /\ o <= MaxOther
    BY <1>3, <1>6, <1>7, <1>8
  <2>2. MaxChanges \in Nat /\ MaxOther \in Nat
    BY ReaderAssumption
  <2> HIDE DEF S, S2, n, k, o
  <2> QED
    BY <2>1, <2>2 DEF Versions
<1>10. receipt \in Receipts /\ receipt # None
  <2> HIDE DEF n
  <2>1. receipt = [fence |-> r.fence, version |-> n + 1]
    BY DEF n
  <2> HIDE DEF receipt
  <2> QED
    BY <1>1, <1>9, <2>1, ReaderAssumption DEF Receipts
<1> HIDE DEF receipt
<1>11. receipts' \in [Changes -> Receipts \cup {None}] /\ Receipted' = S2
  <2>1. c \in Changes
    BY <1>1 DEF c
  <2>2. receipts' \in [Changes -> Receipts \cup {None}]
    BY <1>2, <1>3, <1>10, <2>1
  <2>3. \A d \in Changes : receipts'[d] # None <=> d = c \/ receipts[d] # None
    BY <1>2, <1>3, <1>10, <2>1
  <2> QED
    BY <2>1, <2>2, <2>3 DEF Receipted
<1>12. AppliedAsMade'
  <2>1. \A i \in 1 .. n : log[i] # c
    BY <1>1, <1>3, <1>4, <1>6 DEF Landed, InLog, c
  <2>2. ASSUME NEW i \in 1 .. (n + 1), log'[i] \in Changes
        PROVE  /\ \A j \in 1 .. (n + 1) : log'[j] = log'[i] => j = i
               /\ made[log'[i]].first => made[log'[i]].on = i - 1
    <3>1. CASE i = n + 1
      <4>1. made[c].first => made[c].on = n
        BY <1>1, <1>2 DEF c
      <4> HIDE DEF n
      <4>2. \A j \in 1 .. (n + 1) : j = n + 1 \/ j \in 1 .. n
        BY <1>4
      <4> QED
        BY <1>4, <2>1, <3>1, <4>1, <4>2
    <3>2. CASE i # n + 1
      <4>1. i \in 1 .. n /\ log'[i] = log[i]
        BY <1>4, <2>2, <3>2
      <4>2. /\ \A j \in 1 .. n : log[j] = log[i] => j = i
            /\ made[log[i]].first => made[log[i]].on = i - 1
        BY <1>1, <1>4, <2>2, <4>1 DEF ServerInv, AppliedAsMade
      <4> HIDE DEF n
      <4>3. \A j \in 1 .. (n + 1) : j = n + 1 \/ j \in 1 .. n
        BY <1>4
      <4> QED
        BY <1>4, <2>1, <4>1, <4>2, <4>3
    <3> QED
      BY <3>1, <3>2
  <2> HIDE DEF n
  <2> QED
    BY <1>1, <1>4, <2>2 DEF AppliedAsMade
<1>13. Len(log') = spent'.other + Cardinality(Receipted')
  <2>1. Cardinality(S) \in Nat
    BY <1>6
  <2> HIDE DEF S, S2, n
  <2> QED
    BY <1>3, <1>4, <1>7, <1>11, <2>1, SMTT(60) DEF S
<1>14. Landed' = Receipted' /\ Landed' \subseteq DOMAIN made'
  BY <1>1, <1>3, <1>5, <1>11 DEF c
<1>15. spent' \in [DOMAIN Limit -> Nat] /\ spent'.other <= MaxOther
  BY <1>1 DEF ServerInv
<1>16. ServerInv'
  BY <1>4, <1>11, <1>12, <1>13, <1>14, <1>15 DEF ServerInv, D
<1> QED
  BY <1>5, <1>9, <1>16 DEF c

LEMMA HandleStep ==
  ASSUME ReaderInv, NEW r \in net, Handle(r)
  PROVE  ReaderInv'
<1>1. net' \subseteq net /\ UNCHANGED <<pageVars, deviceVars>>
  BY DEF Handle
<1>2. /\ made \in Histories /\ PagesInv /\ DeviceInv /\ ServerInv
      /\ r.id \in Changes /\ r.id \in DOMAIN made /\ r.tab \in Tabs /\ Len(log) \in Versions
      /\ net \subseteq Requests(made) /\ replies \subseteq Answers(Landed)
      /\ spent \in [DOMAIN Limit -> Nat]
  BY InvFacts DEF Requests
<1>3. ASSUME NEW note, Answer(r, note)
      PROVE  replies' \subseteq replies \cup {[tab |-> r.tab, note |-> note]}
  BY <1>3 DEF Answer
<1>4. CASE Replayed(r) /\ UNCHANGED spent
  <2> DEFINE done == Note(r.id, "done", receipts[r.id].version)
             refused == Note(r.id, "refused", None)
             note == IF receipts[r.id].fence = r.fence THEN done ELSE refused
  <2>1. receipts[r.id] \in Receipts /\ r.id \in Landed
    BY <1>2, <1>4 DEF Replayed, ServerInv, Receipted
  <2>2. receipts[r.id].version \in Versions
    BY <2>1 DEF Receipts
  <2>3. done \in Reports(Landed) /\ done.out = "done"
    BY <1>2, <2>1, <2>2, NoteIs
  <2>4. refused \in Reports(Landed) /\ refused.out = "refused"
    BY <1>2, RefusedIs
  <2>5. Answer(r, note) /\ UNCHANGED serverVars
    BY <1>4, Zenon DEF Replayed
  <2> HIDE DEF done, refused
  <2>6. note \in Reports(Landed) /\ note.out \in {"done", "stale", "refused"}
    BY <2>3, <2>4
  <2> HIDE DEF note
  <2>7. replies' \subseteq replies \cup {[tab |-> r.tab, note |-> note]}
    BY <1>3, <2>5
  <2> QED
    BY <1>1, <1>2, <1>4, <2>5, <2>6, <2>7, AnsweredStep
<1>5. CASE StaleState(r) /\ UNCHANGED spent
  <2> DEFINE note == Note(r.id, "stale", Len(log))
  <2>1. note \in Reports(Landed) /\ note.out = "stale"
    BY <1>2, StaleIs
  <2>2. Answer(r, note) /\ UNCHANGED serverVars
    BY <1>5 DEF StaleState
  <2> HIDE DEF note
  <2>3. replies' \subseteq replies \cup {[tab |-> r.tab, note |-> note]}
    BY <1>3, <2>2
  <2> QED
    BY <1>1, <1>2, <1>5, <2>1, <2>2, <2>3, AnsweredStep
<1>6. CASE NotFound(r)
  <2> DEFINE note == Note(r.id, "refused", None)
  <2>1. note \in Reports(Landed) /\ note.out = "refused"
    BY <1>2, RefusedIs
  <2>2. Answer(r, note) /\ UNCHANGED serverVars /\ Spend("fail")
    BY <1>6 DEF NotFound
  <2>3. spent' \in [DOMAIN Limit -> Nat] /\ spent'.other = spent.other
    <3>1. "fail" \in DOMAIN Limit /\ "fail" # "other"
      BY DEF Limit
    <3> QED
      BY <1>2, <2>2, <3>1, SpentKeeps
  <2> HIDE DEF note
  <2>4. replies' \subseteq replies \cup {[tab |-> r.tab, note |-> note]}
    BY <1>3, <2>2
  <2> QED
    BY <1>1, <2>1, <2>2, <2>3, <2>4, AnsweredStep
<1>7. CASE Applied(r) /\ UNCHANGED spent
  <2> DEFINE note == Note(r.id, "done", Len(log) + 1)
  <2>1. UNCHANGED <<made, tab, chan, replay, lock, records, online>>
    BY <1>1 DEF pageVars, deviceVars
  <2>2. ServerInv' /\ Landed' = Landed \cup {r.id} /\ Len(log) + 1 \in Versions
    BY <1>7, <2>1, AppliedKeeps
  <2>3. Remade /\ Landed \subseteq Landed' /\ r.id \in Landed'
    BY <1>2, <2>1, <2>2 DEF Remade
  <2>4. PagesInv'
    BY <1>2, <2>1, <2>3, PagesStay
  <2>5. note \in Reports(Landed') /\ note.out = "done"
    <3> DEFINE K == Landed'
               v == Len(log) + 1
    <3>1. r.id \in K /\ v \in Versions
      BY <2>2, <2>3
    <3> HIDE DEF K, v
    <3>2. Note(r.id, "done", v) \in Reports(K) /\ Note(r.id, "done", v).out = "done"
      BY <1>2, <3>1, NoteIs
    <3> QED
      BY <3>2 DEF K, v
  <2>6. Answer(r, note)
    BY <1>7 DEF Applied
  <2> HIDE DEF note
  <2>7. replies' \subseteq Answers(Landed')
    <3>1. replies' \subseteq replies \cup {[tab |-> r.tab, note |-> note]}
      BY <1>3, <2>6
    <3> DEFINE K == Landed'
    <3>2. replies' \subseteq replies \cup {[tab |-> r.tab, note |-> note]} /\ note \in Reports(K)
          /\ note.out \in {"done", "stale", "refused"} /\ Landed \subseteq K
      BY <2>3, <2>5, <3>1
    <3> HIDE DEF K
    <3>3. replies' \subseteq Answers(K)
      BY <1>2, <3>2, AnswerIs
    <3> QED
      BY <3>3 DEF K
  <2>8. /\ chan \in [Tabs -> Seq(Reports(Landed'))] /\ records \in Recordings(made')
        /\ net \subseteq Requests(made')
    BY <1>2, <2>3, DeviceGrows
  <2>9. DeviceInv'
    BY <1>1, <1>2, <2>1, <2>7, <2>8 DEF DeviceInv
  <2> QED
    BY <1>2, <2>1, <2>2, <2>4, <2>9 DEF ReaderInv
<1> QED
  BY <1>4, <1>5, <1>6, <1>7 DEF Handle

(* Another device writes the article.                                      *)
LEMMA OtherWritesStep ==
  ASSUME ReaderInv, OtherWrites
  PROVE  ReaderInv'
<1> DEFINE n == Len(log)
           D == Changes \cup {Other}
<1>1. UNCHANGED <<made, tab, chan, replay, lock, records, online, net, replies, receipts>>
      /\ log' = Append(log, Other) /\ Spend("other")
  BY DEF OtherWrites, pageVars, deviceVars, netVars
<1>2. made \in Histories /\ PagesInv /\ DeviceInv /\ ServerInv
  BY InvFacts
<1>3. /\ log \in Seq(D) /\ n = spent.other + Cardinality(Receipted) /\ Landed = Receipted
      /\ Landed \subseteq DOMAIN made /\ receipts \in [Changes -> Receipts \cup {None}]
  BY <1>2 DEF ServerInv
<1>4. Other \in D /\ Other \notin Changes
  BY ReaderAssumption DEF Changes
<1>5. spent' \in [DOMAIN Limit -> Nat] /\ spent'.other = spent.other + 1
      /\ spent'.other <= MaxOther /\ spent.other \in Nat
  <2>1. "other" \in DOMAIN Limit
    BY DEF Limit
  <2> QED
    BY <1>1, <1>2, <2>1, SpentKeeps DEF ServerInv
<1> HIDE DEF D
<1>6. /\ log' \in Seq(D) /\ Len(log') = n + 1 /\ n \in Nat /\ DOMAIN log = 1 .. n
      /\ DOMAIN log' = 1 .. (n + 1) /\ log'[n + 1] = Other
      /\ \A i \in 1 .. n : log'[i] = log[i]
  BY <1>1, <1>3, <1>4
<1> HIDE DEF n
<1>7. \A i \in DOMAIN log' : log'[i] \in Changes => i \in 1 .. n
  BY <1>4, <1>6
<1>8. Landed' = Landed /\ Receipted' = Receipted
  <2>1. Receipted' = Receipted
    BY <1>1 DEF Receipted
  <2>2. \A c \in Changes : (\E i \in DOMAIN log' : log'[i] = c) <=> \E i \in DOMAIN log : log[i] = c
    BY <1>6, <1>7
  <2> QED
    BY <2>1, <2>2 DEF Landed, InLog
<1>9. AppliedAsMade'
  <2>1. AppliedAsMade
    BY <1>2 DEF ServerInv
  <2>2. ASSUME NEW i \in DOMAIN log', log'[i] \in Changes
        PROVE  /\ \A j \in DOMAIN log' : log'[j] = log'[i] => j = i
               /\ made[log'[i]].first => made[log'[i]].on = i - 1
    <3>1. i \in DOMAIN log /\ log'[i] = log[i]
      BY <1>6, <1>7, <2>2
    <3>2. ASSUME NEW j \in DOMAIN log', log'[j] = log'[i]
          PROVE  j = i
      <4>1. j \in DOMAIN log /\ log'[j] = log[j]
        BY <1>6, <1>7, <2>2, <3>2
      <4> QED
        BY <2>1, <2>2, <3>1, <3>2, <4>1 DEF AppliedAsMade
    <3> QED
      BY <2>1, <2>2, <3>1, <3>2 DEF AppliedAsMade
  <2> QED
    BY <1>1, <2>2 DEF AppliedAsMade
<1>10. Remade
  BY <1>1, <1>2 DEF Remade
<1>11. PagesInv'
  BY <1>1, <1>2, <1>8, <1>10, PagesStay
<1>12. DeviceInv'
  BY <1>1, <1>2, <1>8 DEF DeviceInv
<1>13. Len(log') = spent'.other + Cardinality(Receipted')
  <2> DEFINE k == Cardinality(Receipted)
  <2>1. k \in Nat
    BY <1>2, VersionsSuffice
  <2>2. Cardinality(Receipted') = k
    BY <1>8
  <2> HIDE DEF k
  <2>3. n = spent.other + k
    BY <1>3 DEF k
  <2> QED
    BY <1>5, <1>6, <2>1, <2>2, <2>3
<1>14. ServerInv'
  BY <1>1, <1>3, <1>5, <1>6, <1>8, <1>9, <1>13 DEF ServerInv, D
<1> QED
  BY <1>1, <1>2, <1>11, <1>12, <1>14 DEF ReaderInv

-----------------------------------------------------------------------------
(* The invariant holds from the start and is kept by every step.           *)

LEMMA InitKeeps ==
  ASSUME Init
  PROVE  ReaderInv
<1>1. Landed = {} /\ Receipted = {} /\ log = <<>>
  BY DEF Init, Landed, InLog, Receipted
<1>2. made \in Histories /\ made = <<>>
  <2>1. made = <<>>
    BY DEF Init
  <2> HIDE DEF Makings
  <2>2. <<>> \in Seq(Makings) /\ Len(<<>>) = 0
    OBVIOUS
  <2> QED
    BY <2>1, <2>2, ReaderAssumption DEF Histories
<1>3. PagesInv
  <2> DEFINE none == [c \in Changes |-> {}]
             T == [Fresh(none) EXCEPT !.known = 0]
  <2>1. none \in [Changes -> SUBSET Outcomes] /\ \A c \in Changes : "done" \in none[c] => c \in Landed
    OBVIOUS
  <2>2. tab = [t \in Tabs |-> T] /\ replay = [t \in Tabs |-> Resting] /\ lock = None
    BY Zenon DEF Init
  <2> HIDE DEF none
  <2>3. \A B : T \in Pages(made, Landed, B)
    BY <1>2, <2>1, FreshKeeps
  <2> HIDE DEF T
  <2> QED
    BY <1>2, <2>2, <2>3, RestingIs DEF PagesInv
<1>4. DeviceInv
  <2> DEFINE D == Reports(Landed)
             f == << >>
  <2>1. chan = [t \in Tabs |-> <<>>] /\ records = f /\ online = TRUE /\ net = {} /\ replies = {}
    BY DEF Init
  <2>2. f \in Recordings(made)
    <3>1. f \in [{} -> RecordSet] /\ {} \in SUBSET DOMAIN made
      OBVIOUS
    <3> HIDE DEF f
    <3> QED
      BY <1>2, <3>1, RecordingIs
  <2> HIDE DEF D
  <2>3. <<>> \in Seq(D)
    OBVIOUS
  <2>4. chan \in [Tabs -> Seq(D)]
    BY <2>1, <2>3
  <2> HIDE DEF f
  <2> QED
    BY <2>1, <2>2, <2>4 DEF DeviceInv, D
<1>5. ServerInv
  <2> DEFINE D == Changes \cup {Other}
  <2>1. log \in Seq(D) /\ Len(log) = 0
    <3> HIDE DEF D
    <3> QED
      BY <1>1
  <2>2. receipts \in [Changes -> Receipts \cup {None}]
    BY DEF Init
  <2>3. spent = [k \in DOMAIN Limit |-> 0] /\ "other" \in DOMAIN Limit /\ MaxOther \in Nat
    BY ReaderAssumption DEF Init, Limit
  <2>4. spent \in [DOMAIN Limit -> Nat] /\ spent.other = 0 /\ spent.other <= MaxOther
    BY <2>3
  <2>5. Cardinality(Receipted) = 0
    BY <1>1, FS_EmptySet
  <2>6. AppliedAsMade
    BY <1>1 DEF AppliedAsMade
  <2> QED
    BY <1>1, <2>1, <2>2, <2>4, <2>5, <2>6 DEF ServerInv
<1> QED
  BY <1>2, <1>3, <1>4, <1>5 DEF ReaderInv

LEMMA StutterKeeps ==
  ASSUME ReaderInv, UNCHANGED vars
  PROVE  ReaderInv'
<1>1. UNCHANGED <<made, tab, chan, replay, lock, records, online, net, replies, log, receipts, spent>>
  BY DEF vars, pageVars, deviceVars, netVars, serverVars
<1>2. made \in Histories /\ PagesInv /\ DeviceInv /\ ServerInv /\ Remade
  BY <1>1, InvFacts DEF Remade
<1>3. spent' \in [DOMAIN Limit -> Nat] /\ spent'.other = spent.other
  BY <1>1, InvFacts
<1>4. ServerInv' /\ Landed' = Landed
  BY <1>1, <1>2, <1>3, ServerStay
<1>5. PagesInv'
  BY <1>1, <1>2, <1>4, PagesStay
<1>6. DeviceInv'
  BY <1>1, <1>2, <1>4 DEF DeviceInv
<1> QED
  BY <1>1, <1>2, <1>4, <1>5, <1>6 DEF ReaderInv

LEMMA NextKeeps ==
  ASSUME ReaderInv, [Next]_vars
  PROVE  ReaderInv'
<1>1. ASSUME NEW t \in Tabs, NEW c \in Changes, Undo(t, c) \/ Fail(t, c)
      PROVE  ReaderInv'
  BY <1>1, UndoStep, FailStep
<1>2. ASSUME NEW t \in Tabs, Carry(t)
      PROVE  ReaderInv'
  BY <1>2, ResumeStep, AcquireStep, ReplyStep DEF Carry
<1>3. ASSUME NEW t \in Tabs, ReplayStep(t)
      PROVE  ReaderInv'
  BY <1>3, ReplayAdoptStep, ReplayRestStep DEF ReplayStep
<1>4. ASSUME NEW t \in Tabs, Dispatch(t) \/ DiskStep(t) \/ Hear(t) \/ DiskFault(t) \/ Reload(t)
      PROVE  ReaderInv'
  BY <1>4, DispatchStep, DiskStepStep, HearStep, DiskFaultStep, ReloadStep
<1>5. ASSUME NEW t \in Tabs, Restore(t) \/ ReplayBegin(t) \/ ReplayAbandon(t)
      PROVE  ReaderInv'
  BY <1>5, RestoreStep, ReplayBeginStep, ReplayRestStep
<1>6. ASSUME NEW t \in Tabs, NEW v \in 0 .. Len(log), Observe(t, v)
      PROVE  ReaderInv'
  BY <1>6, ObserveStep
<1>7. ASSUME NEW r \in net, Handle(r)
      PROVE  ReaderInv'
  BY <1>7, HandleStep
<1>8. CASE Disconnect \/ Reconnect
  BY <1>8, ConnectionStep
<1>9. CASE OtherWrites
  BY <1>9, OtherWritesStep
<1>10. CASE UNCHANGED vars
  BY <1>10, StutterKeeps
<1> QED
  BY <1>1, <1>2, <1>3, <1>4, <1>5, <1>6, <1>7, <1>8, <1>9, <1>10 DEF Next

(* The invariant of the pages, the device and the row holds in every state *)
(* the reader's write path can reach.                                      *)
THEOREM ReaderInvHolds == Spec => []ReaderInv
<1>1. Init => ReaderInv
  BY InitKeeps
<1>2. ReaderInv /\ [Next]_vars => ReaderInv'
  BY NextKeeps
<1> QED
  BY <1>1, <1>2, PTL DEF Spec

-----------------------------------------------------------------------------
(* What it means for the reader.                                           *)

LEMMA ShapesKept ==
  ASSUME ReaderInv
  PROVE  TypeOK
<1>1. made \in Histories /\ PagesInv /\ DeviceInv /\ ServerInv
  BY InvFacts
<1>2. \A i \in DOMAIN made : made[i] \in Makings
  BY <1>1, HistoryFacts
<1>3. ASSUME NEW t \in Tabs
      PROVE  /\ tab[t].known \in Versions \cup {Unknown}
             /\ tab[t].entry \in [Changes -> Entries]
             /\ ToSet(tab[t].order) = {c \in Changes : tab[t].entry[c].st \notin Settled}
             /\ \A c, d \in DOMAIN tab[t].order : c # d => tab[t].order[c] # tab[t].order[d]
  <2> DEFINE T == tab[t]
  <2>1. T \in Pages(made, Landed, Grip(t))
    BY InvFacts
  <2> HIDE DEF T
  <2>2. T \in PageSet(made, Landed) /\ Lists(T)
    BY <1>1, <2>1, PageFacts
  <2>3. T.known \in Versions \cup {Unknown} /\ T.entry \in [Changes -> Entries]
        /\ T.order \in Seq(Changes)
    BY <2>2 DEF PageSet
  <2>4. ToSet(T.order) = {c \in Changes : T.entry[c].st \notin Settled}
    BY <2>2, <2>3 DEF ToSet, Lists, Occurs
  <2>5. \A c, d \in DOMAIN T.order : c # d => T.order[c] # T.order[d]
    BY <2>2 DEF Lists, NoRepeats
  <2> QED
    BY <2>3, <2>4, <2>5 DEF T
<1>4. ASSUME NEW t \in Tabs
      PROVE  ToSet(chan[t]) \subseteq Notes
  <2> DEFINE D == Reports(Landed)
  <2>1. chan[t] \in Seq(D) /\ D \subseteq Notes
    BY <1>1 DEF DeviceInv, Reports
  <2> HIDE DEF D
  <2> QED
    BY <2>1 DEF ToSet
<1>5. ASSUME NEW t \in Tabs, lock # t
      PROVE  ~Busy(tab[t]) /\ replay[t].pc = "idle"
  <2> DEFINE T == tab[t]
  <2>1. T \in Pages(made, Landed, {}) /\ replay[t].pc = "idle"
    BY <1>1, <1>5 DEF PagesInv
  <2> HIDE DEF T
  <2>2. \A c \in Changes : EntryOK(made, Landed, {}, c, T.entry[c])
    BY <1>1, <2>1, PageFacts
  <2>3. ~Busy(T)
    BY <2>2 DEF Busy, Kept, EntryOK
  <2> QED
    BY <2>1, <2>3 DEF T
<1>6. DOMAIN records \subseteq DOMAIN made /\ \A c \in DOMAIN records : records[c] \in RecordSet
  BY <1>1, RecordingFacts DEF DeviceInv
<1>7. lock \in Tabs \cup {None} /\ online \in BOOLEAN
  BY <1>1 DEF PagesInv, DeviceInv
<1>8. ToSet(log) \subseteq Changes \cup {Other}
  <2> DEFINE D == Changes \cup {Other}
  <2>1. log \in Seq(D)
    BY <1>1 DEF ServerInv
  <2> HIDE DEF D
  <2>2. ToSet(log) \subseteq D
    BY <2>1 DEF ToSet
  <2> QED
    BY <2>2 DEF D
<1> QED
  BY <1>2, <1>3, <1>4, <1>5, <1>6, <1>7, <1>8 DEF TypeOK, Makings

(* The state keeps its shape for any number of pages, changes and faults:  *)
(* an unsettled change stands in its page's queue exactly once, whatever   *)
(* restored, adopted, dropped or settled it, and a page that exchanges a   *)
(* kept change, or replays, holds the Web Lock.                            *)
THEOREM ShapesKeptAlways == Spec => []TypeOK
<1>1. ReaderInv => TypeOK
  BY ShapesKept
<1> QED
  BY <1>1, ReaderInvHolds, PTL

(* Two pages of the device never transmit the same kept change at the same *)
(* time: both would hold the one Web Lock.                                 *)
THEOREM OneSenderAlways == Spec => []OneSender
<1>1. ASSUME ReaderInv
      PROVE  OneSender
  <2>1. \A t \in Tabs : lock # t => tab[t] \in Pages(made, Landed, {})
    BY <1>1 DEF ReaderInv, PagesInv
  <2>2. ASSUME NEW t \in Tabs, NEW c \in Kept(tab[t]), tab[t].entry[c].st = "sending"
        PROVE  lock = t
    <3>1. SUFFICES ASSUME lock # t
                   PROVE  FALSE
      OBVIOUS
    <3>2. EntryOK(made, Landed, {}, c, tab[t].entry[c]) /\ tab[t].entry[c].stored
      <4> DEFINE T == tab[t]
      <4>1. T \in Pages(made, Landed, {}) /\ made \in Histories /\ c \in Kept(T)
        BY <1>1, <2>1, <2>2, <3>1 DEF ReaderInv
      <4> HIDE DEF T
      <4>2. EntryOK(made, Landed, {}, c, T.entry[c]) /\ T.entry[c].stored
        BY <4>1, PageFacts DEF Kept
      <4> QED
        BY <4>2 DEF T
    <3> QED
      BY <2>2, <3>2 DEF EntryOK, InExchange
  <2> QED
    BY <2>2 DEF OneSender
<1>2. ReaderInv => OneSender
  BY <1>1
<1> QED
  BY <1>2, ReaderInvHolds, PTL

(* A change of which a page says that it is done was applied by the        *)
(* server, whichever page sent it, however often, and however the page     *)
(* learnt of it.                                                           *)
THEOREM DoneMeansApplied == Spec => []DoneIsApplied
<1>1. ASSUME ReaderInv
      PROVE  DoneIsApplied
  <2>1. ASSUME NEW c \in Changes, NEW t \in Tabs, "done" \in tab[t].told[c]
        PROVE  c \in Landed
    <3> DEFINE T == tab[t]
    <3>1. T \in Pages(made, Landed, Grip(t)) /\ made \in Histories
      BY <1>1, InvFacts
    <3> HIDE DEF T
    <3>2. \A d \in Changes : "done" \in T.told[d] => d \in Landed
      BY <3>1, PageFacts
    <3> QED
      BY <2>1, <3>2 DEF T
  <2> QED
    BY <2>1 DEF DoneIsApplied, Told, Landed
<1>2. ReaderInv => DoneIsApplied
  BY <1>1
<1> QED
  BY <1>2, ReaderInvHolds, PTL

(* A change is applied at most once, however often and by whichever page   *)
(* it is sent, and one that followed no other only to the state it was     *)
(* made on.                                                                *)
THEOREM AppliedAsMadeAlways == Spec => []AppliedAsMade
<1>1. ReaderInv => AppliedAsMade
  BY DEF ReaderInv, ServerInv
<1> QED
  BY <1>1, ReaderInvHolds, PTL

-----------------------------------------------------------------------------
(* What one page takes back.  With one page and a database that answers,   *)
(* everything turns on the order of the writes the page has asked for.     *)
(* Below, D is that order, rs the device's records, R the records a replay *)
(* has listed and not yet used, G the changes that have reached the server *)
(* or are on their way, and W those taken back.                            *)

Asks(D, i, c, op) == D[i].id = c /\ D[i].op = op
AsksFor(D, c, op) == \E i \in DOMAIN D : Asks(D, i, c, op)
TakesBack(D, i, c) == Asks(D, i, c, "remove") /\ D[i].note.out = "undone"

EntryNeat(e) ==
  /\ e.st \notin Settled => e.stored /\ e.heard = None /\ e.saved # "failed"
  /\ e.st = "queued" => ~e.sent
  /\ e.st \in {"mark", "sending"} => e.sent

Sending(e) == e.st \notin Settled /\ e.sent

(* Before the first write of a change, a page has asked nothing else of it. *)
SaveComesFirst(e, D, rs, R, G, c) ==
  \A i \in DOMAIN D : Asks(D, i, c, "save") =>
    /\ ~D[i].rec.sent /\ c \notin DOMAIN rs /\ c \notin DOMAIN R /\ c \notin G
    /\ \A j \in 1 .. (i - 1) : D[j].id # c
    /\ ~AsksFor(D, c, "mark")
    /\ e.st \notin Settled => ~e.sent /\ e.saved = "no"

(* A record that may have reached the server says so, and the page knows.  *)
SentIsMarked(e, D, rs, R, G, c) ==
  c \in DOMAIN rs =>
    /\ \/ c \in G
       \/ Sending(e) /\ e.st # "mark"
       \/ c \in DOMAIN R /\ R[c].sent
       => rs[c].sent
    /\ \A i \in DOMAIN D : Asks(D, i, c, "mark") =>
         Sending(e) \/ \E j \in DOMAIN D : i < j /\ Asks(D, j, c, "remove")
    /\ rs[c].sent /\ ~AsksFor(D, c, "remove") =>
         /\ e.st \notin Settled => e.sent
         /\ e.st \in Settled /\ c \in DOMAIN R => R[c].sent
    /\ \A i \in DOMAIN D :
         TakesBack(D, i, c) /\ (\A j \in 1 .. (i - 1) : ~Asks(D, j, c, "remove"))
         => ~rs[c].sent /\ \A j \in 1 .. (i - 1) : ~Asks(D, j, c, "mark")

(* A record that is gone, or was taken back, does not come again.          *)
StaysAway(e, D, rs, G, W, c) ==
  /\ e.st \notin Settled /\ e.fencing = "gone" => c \notin DOMAIN rs /\ ~AsksFor(D, c, "save")
  /\ c \in W => c \notin DOMAIN rs /\ ~AsksFor(D, c, "save") /\ c \notin G /\ e.st # "sending"

Neat(e, D, rs, R, G, W, c) ==
  /\ EntryNeat(e)
  /\ SaveComesFirst(e, D, rs, R, G, c)
  /\ SentIsMarked(e, D, rs, R, G, c)
  /\ StaysAway(e, D, rs, G, W, c)

(* Steps of a page from T to U that are calm about a change c: they send   *)
(* nothing of it and only ask for writes that save and mark nothing.  It   *)
(* may settle without its record's removal only if in X, be taken back     *)
(* only if in Y.                                                           *)
CalmEntry(e, f) ==
  /\ e.st \notin Settled /\ f.stored = e.stored /\ f.heard = e.heard
  /\ f.saved = e.saved /\ f.sent = e.sent /\ (f.fencing = "gone" => e.fencing = "gone")
  /\ f.st = e.st \/ (e.st # "mark" /\ f.st \in {"saving", "waiting", "turn", "check"})

CalmJob(job, Y) ==
  /\ job.op \in {"remove", "fence", "after", "look"}
  /\ job.op = "remove" /\ job.note.out = "undone" => job.id \in Y

Calm(T, U, X, Y, c) ==
  /\ Len(T.disk) <= Len(U.disk) /\ \A i \in DOMAIN T.disk : U.disk[i] = T.disk[i]
  /\ \A i \in DOMAIN U.disk : i \notin DOMAIN T.disk /\ U.disk[i].id = c => CalmJob(U.disk[i], Y)
  /\ U.entry[c].st \notin Settled => CalmEntry(T.entry[c], U.entry[c])
  /\ T.entry[c].st \notin Settled /\ U.entry[c].st \in Settled =>
       c \in X \/ \E i \in DOMAIN U.disk : i \notin DOMAIN T.disk /\ Asks(U.disk, i, c, "remove")

LEMMA NeatCalm ==
  ASSUME NEW S, NEW T, NEW U, T.disk \in Seq(S), U.disk \in Seq(S),
         NEW rs, NEW R, NEW G, NEW W, NEW X, NEW Y, NEW c,
         Neat(T.entry[c], T.disk, rs, R, G, W, c), Calm(T, U, X, Y, c),
         c \in X => c \notin DOMAIN rs,
         c \in Y => T.entry[c].st \notin Settled /\ ~T.entry[c].sent
  PROVE  Neat(U.entry[c], U.disk, rs, R, G, W, c)
<1> DEFINE e == T.entry[c]
           f == U.entry[c]
           D == T.disk
           E == U.disk
           m == Len(T.disk)
           n == Len(U.disk)
<1>1. /\ m \in Nat /\ n \in Nat /\ m <= n /\ DOMAIN D = 1 .. m /\ DOMAIN E = 1 .. n
      /\ \A i \in 1 .. m : E[i] = D[i]
  BY DEF Calm
<1>2. /\ \A i \in 1 .. n : i > m /\ E[i].id = c => CalmJob(E[i], Y)
      /\ f.st \notin Settled => CalmEntry(e, f)
      /\ e.st \notin Settled /\ f.st \in Settled =>
           c \in X \/ \E i \in 1 .. n : i > m /\ Asks(E, i, c, "remove")
  BY <1>1 DEF Calm
<1>3. Neat(e, D, rs, R, G, W, c)
  OBVIOUS
<1> HIDE DEF e, f, D, E, m, n
<1>4. \A i \in 1 .. m : \A op : Asks(E, i, c, op) <=> Asks(D, i, c, op)
  BY <1>1 DEF Asks
<1>5. \A i \in 1 .. n : i > m => ~Asks(E, i, c, "save") /\ ~Asks(E, i, c, "mark")
  BY <1>2 DEF Asks, CalmJob
<1>6. /\ \A i \in 1 .. n : Asks(E, i, c, "save") => i \in 1 .. m /\ Asks(D, i, c, "save")
      /\ \A i \in 1 .. n : Asks(E, i, c, "mark") => i \in 1 .. m /\ Asks(D, i, c, "mark")
  BY <1>1, <1>4, <1>5
<1>7. /\ AsksFor(E, c, "save") => AsksFor(D, c, "save")
      /\ AsksFor(E, c, "mark") => AsksFor(D, c, "mark")
      /\ AsksFor(D, c, "remove") => AsksFor(E, c, "remove")
  BY <1>1, <1>4, <1>6 DEF AsksFor
<1>8. EntryNeat(f)
  BY <1>2, <1>3 DEF EntryNeat, Neat, CalmEntry, Settled
<1>9. SaveComesFirst(f, E, rs, R, G, c)
  <2>1. ASSUME NEW i \in 1 .. n, Asks(E, i, c, "save")
        PROVE  /\ ~E[i].rec.sent /\ c \notin DOMAIN rs /\ c \notin DOMAIN R /\ c \notin G
               /\ \A j \in 1 .. (i - 1) : E[j].id # c
               /\ ~AsksFor(E, c, "mark")
               /\ f.st \notin Settled => ~f.sent /\ f.saved = "no"
    <3>1. i \in 1 .. m /\ Asks(D, i, c, "save")
      BY <1>6, <2>1
    <3>2. /\ ~D[i].rec.sent /\ c \notin DOMAIN rs /\ c \notin DOMAIN R /\ c \notin G
          /\ \A j \in 1 .. (i - 1) : D[j].id # c
          /\ ~AsksFor(D, c, "mark")
          /\ e.st \notin Settled => ~e.sent /\ e.saved = "no"
      BY <1>1, <1>3, <3>1 DEF Neat, SaveComesFirst
    <3> QED
      BY <1>1, <1>2, <1>7, <3>1, <3>2 DEF CalmEntry
  <2> QED
    BY <1>1, <2>1 DEF SaveComesFirst
<1>10. ASSUME c \in DOMAIN rs
       PROVE  /\ \/ c \in G
                 \/ Sending(f) /\ f.st # "mark"
                 \/ c \in DOMAIN R /\ R[c].sent
                 => rs[c].sent
              /\ rs[c].sent /\ ~AsksFor(E, c, "remove") =>
                   /\ f.st \notin Settled => f.sent
                   /\ f.st \in Settled /\ c \in DOMAIN R => R[c].sent
  <2>1. c \notin X /\ (e.st \notin Settled /\ f.st \in Settled => AsksFor(E, c, "remove"))
    BY <1>1, <1>2, <1>10 DEF AsksFor
  <2> QED
    BY <1>2, <1>3, <1>7, <1>10, <2>1 DEF Neat, SentIsMarked, Sending, CalmEntry, Settled
<1>11. ASSUME c \in DOMAIN rs, NEW i \in 1 .. n, Asks(E, i, c, "mark")
       PROVE  Sending(f) \/ \E j \in 1 .. n : i < j /\ Asks(E, j, c, "remove")
  <2>1. i \in 1 .. m /\ Asks(D, i, c, "mark")
    BY <1>6, <1>11
  <2>2. Sending(e) \/ \E j \in 1 .. m : i < j /\ Asks(D, j, c, "remove")
    BY <1>1, <1>3, <1>11, <2>1 DEF Neat, SentIsMarked
  <2>3. CASE \E j \in 1 .. m : i < j /\ Asks(D, j, c, "remove")
    BY <1>1, <1>4, <2>3
  <2>4. CASE Sending(e)
    <3>1. f.st \notin Settled => Sending(f)
      BY <1>2, <2>4 DEF Sending, CalmEntry
    <3>2. f.st \in Settled => \E j \in 1 .. n : i < j /\ Asks(E, j, c, "remove")
      BY <1>1, <1>2, <1>11, <2>1, <2>4 DEF Sending
    <3> QED
      BY <3>1, <3>2
  <2> QED
    BY <2>2, <2>3, <2>4
<1>12. ASSUME c \in DOMAIN rs, NEW i \in 1 .. n, TakesBack(E, i, c),
              \A j \in 1 .. (i - 1) : ~Asks(E, j, c, "remove")
       PROVE  ~rs[c].sent /\ \A j \in 1 .. (i - 1) : ~Asks(E, j, c, "mark")
  <2>1. CASE i \in 1 .. m
    <3>1. TakesBack(D, i, c) /\ \A j \in 1 .. (i - 1) : ~Asks(D, j, c, "remove")
      BY <1>1, <1>4, <1>12, <2>1 DEF TakesBack
    <3>2. ~rs[c].sent /\ \A j \in 1 .. (i - 1) : ~Asks(D, j, c, "mark")
      BY <1>1, <1>3, <1>12, <2>1, <3>1 DEF Neat, SentIsMarked
    <3> QED
      BY <1>1, <1>4, <2>1, <3>2
  <2>2. CASE i > m
    <3>1. c \in Y
      BY <1>2, <1>12, <2>2 DEF TakesBack, Asks, CalmJob
    <3>2. e.st \notin Settled /\ ~e.sent
      BY <3>1 DEF e
    <3>3. \A j \in 1 .. m : ~Asks(D, j, c, "remove")
      BY <1>1, <1>4, <1>12, <2>2
    <3>4. ~AsksFor(D, c, "remove") /\ ~AsksFor(D, c, "mark")
      <4>1. ~AsksFor(D, c, "remove")
        BY <1>1, <3>3 DEF AsksFor
      <4>2. ASSUME NEW j \in 1 .. m, Asks(D, j, c, "mark")
            PROVE  FALSE
        <5>1. Sending(e) \/ \E k \in 1 .. m : j < k /\ Asks(D, k, c, "remove")
          BY <1>1, <1>3, <1>12, <4>2 DEF Neat, SentIsMarked
        <5> QED
          BY <3>2, <3>3, <5>1 DEF Sending
      <4> QED
        BY <1>1, <4>1, <4>2 DEF AsksFor
    <3>5. ~rs[c].sent
      BY <1>3, <1>12, <3>2, <3>4 DEF Neat, SentIsMarked
    <3> QED
      BY <1>1, <1>6, <2>2, <3>4, <3>5 DEF AsksFor
  <2> QED
    BY <1>1, <2>1, <2>2
<1>13. SentIsMarked(f, E, rs, R, G, c)
  <2>1. SUFFICES ASSUME c \in DOMAIN rs
                 PROVE  SentIsMarked(f, E, rs, R, G, c)
    BY DEF SentIsMarked
  <2> QED
    BY <1>1, <1>10, <1>11, <1>12, <2>1, Zenon DEF SentIsMarked
<1>14. StaysAway(f, E, rs, G, W, c)
  BY <1>2, <1>3, <1>7 DEF Neat, StaysAway, CalmEntry, Settled
<1>15. Neat(f, E, rs, R, G, W, c)
  BY <1>8, <1>9, <1>13, <1>14 DEF Neat
<1> QED
  BY <1>15 DEF f, E

LEMMA CalmSelf ==
  ASSUME NEW T, NEW X, NEW Y, NEW c
  PROVE  Calm(T, T, X, Y, c)
BY DEF Calm, CalmEntry

LEMMA CalmOn ==
  ASSUME NEW S, NEW T, NEW U, NEW V, T.disk \in Seq(S), U.disk \in Seq(S), V.disk \in Seq(S),
         NEW X, NEW Y, NEW c, Calm(T, U, X, Y, c), Calm(U, V, X, Y, c)
  PROVE  Calm(T, V, X, Y, c)
<1> DEFINE l == Len(T.disk)
           m == Len(U.disk)
           n == Len(V.disk)
<1>1. /\ l \in Nat /\ m \in Nat /\ n \in Nat /\ l <= m /\ m <= n
      /\ DOMAIN T.disk = 1 .. l /\ DOMAIN U.disk = 1 .. m /\ DOMAIN V.disk = 1 .. n
      /\ \A i \in 1 .. l : U.disk[i] = T.disk[i]
      /\ \A i \in 1 .. m : V.disk[i] = U.disk[i]
  BY DEF Calm
<1>2. /\ \A i \in 1 .. m : i > l /\ U.disk[i].id = c => CalmJob(U.disk[i], Y)
      /\ \A i \in 1 .. n : i > m /\ V.disk[i].id = c => CalmJob(V.disk[i], Y)
      /\ U.entry[c].st \notin Settled => CalmEntry(T.entry[c], U.entry[c])
      /\ V.entry[c].st \notin Settled => CalmEntry(U.entry[c], V.entry[c])
      /\ T.entry[c].st \notin Settled /\ U.entry[c].st \in Settled =>
           c \in X \/ \E i \in 1 .. m : i > l /\ Asks(U.disk, i, c, "remove")
      /\ U.entry[c].st \notin Settled /\ V.entry[c].st \in Settled =>
           c \in X \/ \E i \in 1 .. n : i > m /\ Asks(V.disk, i, c, "remove")
  BY <1>1 DEF Calm
<1> HIDE DEF l, m, n
<1>3. \A i \in 1 .. n : i > l /\ V.disk[i].id = c => CalmJob(V.disk[i], Y)
  BY <1>1, <1>2
<1>4. V.entry[c].st \notin Settled => CalmEntry(T.entry[c], V.entry[c])
  BY <1>2 DEF CalmEntry
<1>5. T.entry[c].st \notin Settled /\ V.entry[c].st \in Settled =>
        c \in X \/ \E i \in 1 .. n : i > l /\ Asks(V.disk, i, c, "remove")
  BY <1>1, <1>2 DEF Asks
<1>6. l <= n /\ \A i \in 1 .. l : V.disk[i] = T.disk[i]
  BY <1>1
<1> QED
  <2>1. /\ Len(T.disk) <= Len(V.disk) /\ \A i \in DOMAIN T.disk : V.disk[i] = T.disk[i]
        /\ \A i \in DOMAIN V.disk : i \notin DOMAIN T.disk <=> i \in 1 .. n /\ i > l
    BY <1>1, <1>6 DEF l, n
  <2> QED
    BY <1>1, <1>3, <1>4, <1>5, <2>1, Zenon DEF Calm

(* A page that only changes in what it has in memory.                      *)
LEMMA CalmInMemory ==
  ASSUME NEW T, NEW U, U.disk = T.disk, NEW X, NEW Y, NEW c,
         U.entry[c].st \notin Settled => CalmEntry(T.entry[c], U.entry[c]),
         T.entry[c].st \notin Settled /\ U.entry[c].st \in Settled => c \in X
  PROVE  Calm(T, U, X, Y, c)
BY DEF Calm, CalmEntry

CalmPages(M, L, B, T, X, Y) ==
  {U \in Pages(M, L, B) : \A c \in Changes : Calm(T, U, X, Y, c)}

LEMMA CalmFirst ==
  ASSUME NEW M, NEW L, NEW B, NEW T \in Pages(M, L, B), NEW X, NEW Y
  PROVE  T \in CalmPages(M, L, B, T, X, Y)
BY CalmSelf DEF CalmPages

LEMMA CalmThen ==
  ASSUME NEW M \in Histories, NEW L, NEW B, NEW T \in Pages(M, L, B), NEW X, NEW Y,
         NEW U \in CalmPages(M, L, B, T, X, Y), NEW V \in CalmPages(M, L, B, U, X, Y)
  PROVE  V \in CalmPages(M, L, B, T, X, Y)
<1> DEFINE S == Tasks(M, L)
<1>1. /\ U \in Pages(M, L, B) /\ V \in Pages(M, L, B)
      /\ \A c \in Changes : Calm(T, U, X, Y, c) /\ Calm(U, V, X, Y, c)
  BY DEF CalmPages
<1>2. T.disk \in Seq(S) /\ U.disk \in Seq(S) /\ V.disk \in Seq(S)
  BY <1>1, PageFacts
<1> HIDE DEF S
<1>3. \A c \in Changes : Calm(T, V, X, Y, c)
  BY <1>1, <1>2, CalmOn
<1> QED
  BY <1>1, <1>3 DEF CalmPages

LEMMA CalmAsk ==
  ASSUME NEW M \in Histories, NEW L, NEW B, NEW T \in Pages(M, L, B), NEW job \in Tasks(M, L),
         NEW X, NEW Y, CalmJob(job, Y)
  PROVE  /\ Ask(T, job) \in CalmPages(M, L, B, T, X, Y)
         /\ job.op = "remove" =>
              \E i \in DOMAIN Ask(T, job).disk :
                i \notin DOMAIN T.disk /\ Asks(Ask(T, job).disk, i, job.id, "remove")
<1> DEFINE U == Ask(T, job)
           m == Len(T.disk)
           S == Tasks(M, L)
<1>1. U.disk = Append(T.disk, job) /\ U.entry = T.entry /\ T.disk \in Seq(S) /\ job \in S
  BY PageFacts DEF Ask, PageSet
<1> HIDE DEF S
<1>2. /\ m \in Nat /\ DOMAIN T.disk = 1 .. m /\ Len(U.disk) = m + 1 /\ DOMAIN U.disk = 1 .. (m + 1)
      /\ U.disk[m + 1] = job /\ \A i \in 1 .. m : U.disk[i] = T.disk[i]
  BY <1>1
<1>3. U \in Pages(M, L, B)
  BY Asked
<1> HIDE DEF U, m
<1>4. \A c \in Changes : Calm(T, U, X, Y, c)
  BY <1>1, <1>2 DEF Calm, CalmEntry, m
<1>5. job.op = "remove" =>
        \E i \in DOMAIN U.disk : i \notin DOMAIN T.disk /\ Asks(U.disk, i, job.id, "remove")
  BY <1>2 DEF Asks
<1> QED
  BY <1>3, <1>4, <1>5 DEF U, CalmPages

LEMMA PumpCalm ==
  ASSUME NEW M \in Histories, NEW L, NEW B, NEW T \in Pages(M, L, B), NEW X, NEW Y
  PROVE  Pump(T) \in CalmPages(M, L, B, T, X, Y)
<1>1. Pump(T) \in Pages(M, L, B)
  BY PumpKeeps
<1>2. CASE T.order # <<>> /\ T.entry[Head(T.order)].st = "queued"
  <2> DEFINE h == Head(T.order)
             U == [T EXCEPT !.entry[h].st = "saving"]
  <2>1. Pump(T) = U /\ h \in Changes /\ T.entry \in [Changes -> Entries] /\ T \in PageSet(M, L)
    BY <1>2, HeadFacts, PageFacts DEF Pump, Start
  <2> HIDE DEF h
  <2>2. /\ U.disk = T.disk /\ U.entry = [T.entry EXCEPT ![h].st = "saving"]
    BY <2>1 DEF PageSet
  <2>3. /\ \A c \in Changes : c # h => U.entry[c] = T.entry[c]
        /\ U.entry[h] = [T.entry[h] EXCEPT !.st = "saving"] /\ T.entry[h] \in Entries
    BY <2>1, <2>2
  <2> HIDE DEF U
  <2>4. /\ U.entry[h].st = "saving" /\ U.entry[h].stored = T.entry[h].stored
        /\ U.entry[h].heard = T.entry[h].heard /\ U.entry[h].saved = T.entry[h].saved
        /\ U.entry[h].sent = T.entry[h].sent /\ U.entry[h].fencing = T.entry[h].fencing
    BY <2>3 DEF Entries
  <2>5. CalmEntry(T.entry[h], U.entry[h]) /\ U.entry[h].st \notin Settled
    BY <1>2, <2>4 DEF CalmEntry, Settled, h
  <2>6. ASSUME NEW c \in Changes
        PROVE  Calm(T, U, X, Y, c)
    <3>1. U.entry[c].st \notin Settled => CalmEntry(T.entry[c], U.entry[c])
      BY <2>3, <2>5 DEF CalmEntry
    <3>2. T.entry[c].st \notin Settled => U.entry[c].st \notin Settled
      BY <2>3, <2>5
    <3> QED
      BY <2>2, <3>1, <3>2, CalmInMemory
  <2> QED
    BY <1>1, <2>1, <2>6 DEF CalmPages
<1>3. CASE ~(T.order # <<>> /\ T.entry[Head(T.order)].st = "queued")
  BY <1>3, CalmFirst DEF Pump
<1> QED
  BY <1>2, <1>3

(* Only the entry of one change changes.                                   *)
LEMMA CalmEdit ==
  ASSUME NEW M, NEW L, NEW B, NEW T, NEW U \in Pages(M, L, B), U.disk = T.disk,
         NEW X, NEW Y, NEW h, \A d \in Changes : d # h => U.entry[d] = T.entry[d],
         \/ CalmEntry(T.entry[h], U.entry[h]) /\ U.entry[h].st \notin Settled
         \/ U.entry[h].st \in Settled /\ (h \in X \/ T.entry[h].st \in Settled)
  PROVE  U \in CalmPages(M, L, B, T, X, Y)
<1>1. ASSUME NEW c \in Changes
      PROVE  Calm(T, U, X, Y, c)
  <2>1. U.entry[c].st \notin Settled => CalmEntry(T.entry[c], U.entry[c])
    BY DEF CalmEntry
  <2>2. T.entry[c].st \notin Settled /\ U.entry[c].st \in Settled => c \in X
    OBVIOUS
  <2> QED
    BY <2>1, <2>2, CalmInMemory
<1> QED
  BY <1>1 DEF CalmPages

LEMMA FixFenceCalm ==
  ASSUME NEW M \in Histories, NEW L, NEW B, NEW T \in Pages(M, L, B), NEW c \in Changes,
         T.entry[c].st \notin Settled, NEW X, NEW Y
  PROVE  FixFence(T, c) \in CalmPages(M, L, B, T, X, Y)
<1>1. CASE T.entry[c].fencing # "unset"
  BY <1>1, CalmFirst DEF FixFence
<1>2. CASE T.entry[c].fencing = "unset"
  <2> DEFINE f == FenceOf(T, c)
             V == [T EXCEPT !.entry[c].fence = f, !.entry[c].fencing = "writing"]
             job == [op |-> "fence", id |-> c, fence |-> f]
  <2>1. FixFence(T, c) = Ask(V, job) /\ Ask(V, job) \in Pages(M, L, B)
    BY <1>2, FenceFixed DEF FixFence
  <2>2. /\ T.entry[c] \in Entries /\ EntryOK(M, L, B, c, T.entry[c]) /\ T \in PageSet(M, L)
        /\ T.entry \in [Changes -> Entries] /\ Occurs(T.order, c)
    BY PageFacts
  <2>3. T.known \in Versions
    <3>1. T.order # <<>>
      BY <2>2 DEF Occurs
    <3> QED
      BY <3>1, PageFacts
  <2>4. f \in Versions
    BY <2>2, <2>3 DEF FenceOf, Entries, Fences
  <2>5. c \in DOMAIN M /\ ~M[c].first
    BY <1>2, <2>2 DEF EntryOK
  <2> HIDE DEF f
  <2> DEFINE e == [T.entry[c] EXCEPT !.fence = f, !.fencing = "writing"]
  <2>6. V = [T EXCEPT !.entry[c] = e]
    BY <2>2 DEF PageSet, Entries
  <2>7. /\ e.st = T.entry[c].st /\ e.stored = T.entry[c].stored /\ e.heard = T.entry[c].heard
        /\ e.saved = T.entry[c].saved /\ e.sent = T.entry[c].sent /\ e.fencing = "writing"
        /\ e.fence = f
    BY <2>2 DEF Entries
  <2>8. e \in Entries /\ EntryOK(M, L, B, c, e)
    <3>1. e \in Entries
      BY <2>2, <2>4 DEF Entries, Fences
    <3> HIDE DEF e
    <3> QED
      BY <2>2, <2>4, <2>5, <2>7, <3>1, HistoryFacts DEF EntryOK
  <2> HIDE DEF e, V
  <2>9. V \in Pages(M, L, B)
    BY <2>6, <2>7, <2>8, WithEntry
  <2>10. /\ V.disk = T.disk /\ V.entry[c] = e /\ \A d \in Changes : d # c => V.entry[d] = T.entry[d]
    BY <2>2, <2>6 DEF PageSet
  <2>11. V \in CalmPages(M, L, B, T, X, Y)
    BY <2>7, <2>9, <2>10, CalmEdit DEF CalmEntry
  <2>12. job \in Tasks(M, L) /\ CalmJob(job, Y)
    BY <2>4, <2>5 DEF Tasks, Jobs, CalmJob
  <2>13. Ask(V, job) \in CalmPages(M, L, B, V, X, Y)
    BY <2>9, <2>12, CalmAsk
  <2> QED
    BY <2>1, <2>11, <2>13, CalmThen
<1> QED
  BY <1>1, <1>2

LEMMA FixNextCalm ==
  ASSUME NEW M \in Histories, NEW L, NEW B, NEW T \in Pages(M, L, B), NEW X, NEW Y
  PROVE  FixNext(T) \in CalmPages(M, L, B, T, X, Y)
BY HeadFacts, FixFenceCalm, CalmFirst DEF FixNext

(* A change settles, of which the page may just have learnt that it is     *)
(* stored no longer.                                                       *)
LEMMA SettleCalm ==
  ASSUME NEW M \in Histories, NEW L, NEW B, NEW T \in Pages(M, L, B), NEW U \in Pages(M, L, B),
         NEW c \in Changes, U.disk = T.disk, \A d \in Changes : d # c => U.entry[d] = T.entry[d],
         NEW note \in Reports(L), note.id = c, NEW X, NEW Y, note.out = "undone" => c \in Y,
         T.entry[c].st \in Settled \/ U.entry[c].stored \/ c \in X
  PROVE  Settle(U, c, note) \in CalmPages(M, L, B, T, X, Y)
<1> DEFINE acknowledged == note.out = "done" /\ U.entry[c].st = "sending"
           over == IF acknowledged \/ note.out \in {"refused", "unsent"} THEN Remembered ELSE Over
           left == [U EXCEPT !.order = RemoveFirst(@, c), !.entry[c] = over,
                             !.told[c] = @ \cup {note.out}]
           fenced == FixNext(left)
           last == IF U.entry[c].stored THEN Retire(fenced, c, note) ELSE fenced
           Z == X \cup {c}
<1>1. left \in Pages(M, L, B)
  <2>1. note.out \in Outcomes /\ (note.out = "done" => c \in L)
    BY DEF Reports, Notes
  <2>2. over \in {Over, Remembered}
    OBVIOUS
  <2> HIDE DEF over
  <2> QED
    BY <2>1, <2>2, LeftKeeps
<1>2. left.disk = T.disk /\ left.entry[c].st \in Settled
      /\ \A d \in Changes : d # c => left.entry[d] = T.entry[d]
  <2>1. U \in PageSet(M, L) /\ U.entry \in [Changes -> Entries]
    BY PageFacts
  <2>2. left.disk = U.disk /\ left.entry = [U.entry EXCEPT ![c] = over]
    BY <2>1 DEF PageSet
  <2>3. over.st \in Settled
    BY AbsentIs
  <2> HIDE DEF left, over
  <2> QED
    BY <2>1, <2>2, <2>3
<1> HIDE DEF left
<1>3. left \in CalmPages(M, L, B, T, Z, Y)
  BY <1>1, <1>2, CalmEdit
<1>4. fenced \in CalmPages(M, L, B, left, Z, Y) /\ fenced \in CalmPages(M, L, B, T, Z, Y)
  BY <1>1, <1>3, FixNextCalm, CalmThen
<1> HIDE DEF fenced, Z
<1>5. last \in CalmPages(M, L, B, T, X, Y)
  <2>1. CASE U.entry[c].stored
    <3> DEFINE job == [op |-> "remove", id |-> c, note |-> note]
    <3>1. last = Ask(fenced, job) /\ fenced \in Pages(M, L, B)
      BY <1>4, <2>1 DEF Retire, CalmPages
    <3>2. job \in Tasks(M, L) /\ CalmJob(job, Y)
      <4>1. c \in DOMAIN M /\ note \in Notes
        BY <2>1, PageFacts DEF EntryOK, Reports
      <4> QED
        BY <4>1 DEF Tasks, Jobs, CalmJob
    <3>3. /\ Ask(fenced, job) \in CalmPages(M, L, B, fenced, Z, Y)
          /\ \E i \in DOMAIN Ask(fenced, job).disk :
               i \notin DOMAIN fenced.disk /\ Asks(Ask(fenced, job).disk, i, c, "remove")
      BY <3>1, <3>2, CalmAsk
    <3> HIDE DEF job, last
    <3>4. last \in CalmPages(M, L, B, T, Z, Y)
      BY <1>4, <3>1, <3>3, CalmThen
    <3>5. DOMAIN T.disk \subseteq DOMAIN fenced.disk
      <4> DEFINE S == Tasks(M, L)
      <4>1. T.disk \in Seq(S) /\ fenced.disk \in Seq(S)
        BY <3>1, PageFacts
      <4>2. Len(T.disk) <= Len(fenced.disk)
        BY <1>4 DEF CalmPages, Calm
      <4> HIDE DEF S
      <4> QED
        BY <4>1, <4>2
    <3>6. ASSUME NEW d \in Changes
          PROVE  Calm(T, last, X, Y, d)
      <4>1. Calm(T, last, Z, Y, d)
        BY <3>4 DEF CalmPages
      <4>2. d # c => (d \in Z => d \in X)
        BY DEF Z
      <4>3. \E i \in DOMAIN last.disk : i \notin DOMAIN T.disk /\ Asks(last.disk, i, c, "remove")
        BY <3>1, <3>3, <3>5
      <4> QED
        BY <4>1, <4>2, <4>3 DEF Calm
    <3> QED
      BY <3>4, <3>6 DEF CalmPages
  <2>2. CASE ~U.entry[c].stored
    <3>1. last = fenced /\ (T.entry[c].st \in Settled \/ c \in X)
      BY <2>2
    <3>2. ASSUME NEW d \in Changes
          PROVE  Calm(T, fenced, X, Y, d)
      <4>1. Calm(T, fenced, Z, Y, d)
        BY <1>4 DEF CalmPages
      <4>2. d # c => (d \in Z => d \in X)
        BY DEF Z
      <4> QED
        BY <3>1, <4>1, <4>2 DEF Calm
    <3> QED
      BY <1>4, <3>1, <3>2 DEF CalmPages
  <2> QED
    BY <2>1, <2>2
<1> HIDE DEF last
<1>6. last \in Pages(M, L, B)
  BY <1>5 DEF CalmPages
<1>7. Pump(last) \in CalmPages(M, L, B, last, X, Y)
  BY <1>6, PumpCalm
<1>8. Settle(U, c, note) = Pump(last)
  BY DEF Settle, last, fenced, left
<1> QED
  BY <1>5, <1>7, <1>8, CalmThen

LEMMA CalmIs ==
  ASSUME NEW M, NEW L, NEW B, NEW T, NEW X, NEW Y, NEW U \in CalmPages(M, L, B, T, X, Y)
  PROVE  /\ U \in Pages(M, L, B)
         /\ \A c \in Changes : /\ Calm(T, U, X, Y, c)
                               /\ U.entry[c].st \notin Settled => CalmEntry(T.entry[c], U.entry[c])
BY DEF CalmPages, Calm

LEMMA LearnCalm ==
  ASSUME NEW M \in Histories, NEW L, NEW B, NEW T \in Pages(M, L, B), NEW version \in Versions,
         NEW X, NEW Y
  PROVE  /\ Learn(T, version) \in CalmPages(M, L, B, T, X, Y)
         /\ Learn(T, version).disk = T.disk
<1> DEFINE U == Learn(T, version)
<1>1. U \in Pages(M, L, B) /\ U.entry = T.entry
  BY LearnKeeps
<1>2. U.disk = T.disk
  BY PageFacts DEF Learn, PageSet
<1> HIDE DEF U
<1>3. \A c \in Changes : Calm(T, U, X, Y, c)
  BY <1>1, <1>2 DEF Calm, CalmEntry
<1> QED
  BY <1>1, <1>2, <1>3 DEF U, CalmPages

LEMMA SettleElsewhereCalm ==
  ASSUME NEW M \in Histories, NEW L, NEW B, NEW T \in Pages(M, L, B), NEW c \in Changes,
         NEW note \in Reports(L) \cup {None}, note # None => note.id = c,
         NEW X, NEW Y, T.entry[c].st \in Settled \/ c \in X
  PROVE  SettleElsewhere(T, c, note) \in CalmPages(M, L, B, T, X, Y)
<1> DEFINE said == Heard(c, note)
           learnt == IF said.out \in {"done", "stale"} THEN Learn(T, said.version) ELSE T
           U == [learnt EXCEPT !.entry[c].stored = FALSE]
<1>1. said \in Reports(L) /\ said.id = c /\ said.out # "undone"
  <2>1. "gone" \in Outcomes \ {"done", "stale"}
    BY DEF Outcomes
  <2>2. Note(c, "gone", None) \in Reports(L) /\ Note(c, "gone", None).id = c
        /\ Note(c, "gone", None).out = "gone"
    BY <2>1, DroppedNote
  <2> QED
    BY <2>2 DEF Heard
<1>2. learnt \in Pages(M, L, B) /\ learnt.entry = T.entry /\ learnt.disk = T.disk
  <2>1. said.out \in {"done", "stale"} => said.version \in Versions
    BY <1>1 DEF Reports
  <2> HIDE DEF said
  <2> QED
    BY <2>1, LearnKeeps, LearnCalm
<1> HIDE DEF learnt
<1>3. U \in Pages(M, L, B)
  BY <1>2, StoredKeeps
<1>4. U.disk = T.disk /\ \A d \in Changes : d # c => U.entry[d] = T.entry[d]
  BY <1>2, PageFacts DEF PageSet
<1>5. SettleElsewhere(T, c, note) = Settle(U, c, said)
  BY DEF SettleElsewhere, learnt
<1> HIDE DEF U, said
<1> QED
  BY <1>1, <1>3, <1>4, <1>5, SettleCalm

LEMMA DropCalm ==
  ASSUME NEW M \in Histories, NEW L, NEW B, NEW T \in Pages(M, L, B), NEW c \in Changes,
         \A d \in Changes : T.entry[d].st \notin Settled => T.entry[d].stored,
         NEW note \in Reports(L), note.id = c, note.out # "undone", NEW X, NEW Y
  PROVE  Drop(T, c, note) \in CalmPages(M, L, B, T, X, Y)
<1> DEFINE Q == CalmPages(M, L, B, T, X, Y)
           later == IF T.entry[c].stored /\ T.entry[c].replayed THEN Behind(T, c) ELSE <<>>
           last == FoldLeft(LAMBDA U, d : IF T.entry[d].stored
                                          THEN Settle(U, d, Note(d, "dropped", None)) ELSE U,
                            T, Reverse(later))
<1>1. IsList(Reverse(later))
  <2>1. CASE T.entry[c].stored /\ T.entry[c].replayed
    <3>1. T.order \in Seq(Changes) /\ Occurs(T.order, c)
      BY <2>1, PageFacts DEF EntryOK
    <3>2. later = Behind(T, c)
      BY <2>1
    <3> HIDE DEF later
    <3> QED
      BY <3>1, <3>2, BehindIs
  <2>2. CASE ~(T.entry[c].stored /\ T.entry[c].replayed)
    <3>1. later = <<>>
      BY <2>2
    <3>2. Reverse(later) = <<>> /\ DOMAIN <<>> = 1 .. 0 /\ 0 \in Nat
      BY <3>1 DEF Reverse
    <3> QED
      BY <3>2 DEF IsList
  <2> QED
    BY <2>1, <2>2
<1>2. ASSUME NEW U \in Q, NEW d \in Changes, NEW n \in Reports(L), n.id = d, n.out # "undone"
      PROVE  Settle(U, d, n) \in Q
  <2>1. U \in Pages(M, L, B) /\ (U.entry[d].st \in Settled \/ U.entry[d].stored)
    BY CalmIs DEF CalmEntry
  <2>2. Settle(U, d, n) \in CalmPages(M, L, B, U, X, Y)
    BY <1>2, <2>1, SettleCalm
  <2> QED
    BY <2>2, CalmThen
<1>3. \A U \in Q, d \in Changes : Dropped(T, U, d) \in Q
  <2>1. ASSUME NEW U \in Q, NEW d \in Changes
        PROVE  Settle(U, d, Note(d, "dropped", None)) \in Q
    <3>1. "dropped" \in Outcomes \ {"done", "stale"}
      BY DEF Outcomes
    <3>2. Note(d, "dropped", None) \in Reports(L) /\ Note(d, "dropped", None).id = d
          /\ Note(d, "dropped", None).out # "undone"
      BY <3>1, DroppedNote
    <3> HIDE DEF Q
    <3> QED
      BY <1>2, <3>2
  <2> QED
    BY <2>1 DEF Dropped
<1>4. last \in Q
  <2>1. T \in Q
    BY CalmFirst
  <2> HIDE DEF Q, later
  <2> QED
    BY <1>1, <1>3, <2>1, DropsKeep
<1>5. Drop(T, c, note) = Settle(last, c, note)
  BY Zenon DEF Drop, last, later
<1> HIDE DEF last, later, Q
<1>6. Drop(T, c, note) \in Q
  BY <1>2, <1>4, <1>5
<1> QED
  BY <1>6 DEF Q

LEMMA ExpiredCalm ==
  ASSUME NEW M \in Histories, NEW L, NEW B, NEW T \in Pages(M, L, B), NEW cutoff \in Changes,
         NEW X, NEW Y
  PROVE  Expired(T, cutoff) \in CalmPages(M, L, B, T, X, Y)
<1> DEFINE Q == CalmPages(M, L, B, T, X, Y)
           s == SubSeq(InOrder, 1, cutoff)
<1>1. ASSUME NEW U \in Q, NEW d \in Changes
      PROVE  Aged(U, d) \in Q
  <2>1. "dropped" \in Outcomes \ {"done", "stale"}
    BY DEF Outcomes
  <2>2. Note(d, "dropped", None) \in Reports(L) /\ Note(d, "dropped", None).id = d
        /\ Note(d, "dropped", None).out # "undone"
    BY <2>1, DroppedNote
  <2>3. U \in Pages(M, L, B)
    BY CalmIs
  <2>4. U.entry[d].stored => Settle(U, d, Note(d, "dropped", None)) \in CalmPages(M, L, B, U, X, Y)
    BY <2>2, <2>3, SettleCalm
  <2> QED
    BY <2>4, CalmThen DEF Aged
<1>2. IsList(s) /\ T \in Q
  BY InOrderIs, CalmFirst
<1>3. FoldLeft(LAMBDA U, c : IF U.entry[c].stored /\ U.entry[c].st \in {"waiting", "queued"}
                             THEN Settle(U, c, Note(c, "dropped", None)) ELSE U,
               T, s) \in Q
  <2> HIDE DEF Q, s
  <2> QED
    BY <1>1, <1>2, AgedKeep
<1> QED
  BY <1>3, Zenon DEF Expired

LEMMA HandOverCalm ==
  ASSUME NEW M \in Histories, NEW L, NEW B, NEW T \in Pages(M, L, B), NEW c \in Changes,
         T.entry[c].stored, NEW X, NEW Y
  PROVE  HandOver(T, c) \in CalmPages(M, L, B, T, X, Y)
<1> DEFINE Q == {U \in CalmPages(M, L, B, T, X, Y) :
                   \A d \in Changes : U.entry[d].st = T.entry[d].st}
           behind == Behind(T, c)
           moved == Rewrites(T, c, T, behind)
           next == IF behind = <<>> THEN None ELSE Head(behind)
           last == [moved EXCEPT !.entry[next].fence = T.entry[c].fence]
<1>1. /\ T.order \in Seq(Changes) /\ Occurs(T.order, c)
      /\ \A d \in Changes : T.entry[d] \in Entries /\ EntryOK(M, L, B, d, T.entry[d])
  BY PageFacts DEF EntryOK
<1>2. IsList(behind) /\ behind \in Seq(Changes)
  BY <1>1, BehindIs
<1>3. ASSUME NEW U \in Q, NEW d \in Changes
      PROVE  Rewritten(T, c, U, d) \in Q
  <2>1. CASE ~(T.entry[d].stored /\ T.entry[d].after = c)
    BY <1>3, <2>1 DEF Rewritten
  <2>2. CASE T.entry[d].stored /\ T.entry[d].after = c
    <3> DEFINE after == T.entry[c].after
               e == [U.entry[d] EXCEPT !.after = T.entry[c].after]
               V == [U EXCEPT !.entry[d] = e]
               job == [op |-> "after", id |-> d, after |-> T.entry[c].after]
    <3>1. /\ U \in Pages(M, L, B) /\ U.entry[d] \in Entries /\ EntryOK(M, L, B, d, U.entry[d])
          /\ U.entry \in [Changes -> Entries] /\ U \in PageSet(M, L)
          /\ U \in CalmPages(M, L, B, T, X, Y) /\ \A x \in Changes : U.entry[x].st = T.entry[x].st
      BY CalmIs, PageFacts
    <3>2. after \in Changes \cup {None} /\ d \in DOMAIN M /\ T.entry[d].st \notin Settled
      BY <1>1, <2>2 DEF Entries, EntryOK
    <3>3. e \in Entries
      <4> HIDE DEF after
      <4>1. e = [U.entry[d] EXCEPT !.after = after]
        BY DEF after
      <4> HIDE DEF e
      <4> QED
        BY <3>1, <3>2, <4>1 DEF Entries
    <3>4. /\ e.st = U.entry[d].st /\ e.stored = U.entry[d].stored /\ e.heard = U.entry[d].heard
          /\ e.fence = U.entry[d].fence /\ e.fencing = U.entry[d].fencing
          /\ e.saved = U.entry[d].saved /\ e.sent = U.entry[d].sent
      BY <3>1 DEF Entries
    <3> HIDE DEF e
    <3>5. EntryOK(M, L, B, d, e)
      BY <3>1, <3>4 DEF EntryOK
    <3>6. V \in Pages(M, L, B)
      BY <3>1, <3>3, <3>4, <3>5, WithEntry
    <3>7. V.entry = [U.entry EXCEPT ![d] = e] /\ V.disk = U.disk
      BY <3>1 DEF PageSet
    <3> HIDE DEF V
    <3>8. V \in CalmPages(M, L, B, U, X, Y)
      <4>1. V.entry[d] = e /\ \A x \in Changes : x # d => V.entry[x] = U.entry[x]
        BY <3>1, <3>7
      <4>2. CalmEntry(U.entry[d], e) /\ e.st \notin Settled
        BY <3>1, <3>2, <3>4 DEF CalmEntry
      <4> QED
        BY <3>6, <3>7, <4>1, <4>2, CalmEdit
    <3>9. job \in Tasks(M, L) /\ CalmJob(job, Y)
      BY <3>2 DEF Tasks, Jobs, CalmJob
    <3> HIDE DEF job
    <3>10. Ask(V, job) \in CalmPages(M, L, B, V, X, Y)
      BY <3>6, <3>9, CalmAsk
    <3>11. Ask(V, job) \in CalmPages(M, L, B, T, X, Y)
      <4>1. V \in CalmPages(M, L, B, T, X, Y)
        BY <3>1, <3>8, CalmThen
      <4> QED
        BY <3>10, <4>1, CalmThen
    <3>12. \A x \in Changes : Ask(V, job).entry[x].st = T.entry[x].st
      <4>1. Ask(V, job).entry = V.entry
        BY <3>6, PageFacts DEF Ask, PageSet
      <4> QED
        BY <3>1, <3>4, <3>7, <4>1
    <3>13. Rewritten(T, c, U, d) = Ask(V, job)
      BY <2>2 DEF Rewritten, V, job, e
    <3> QED
      BY <3>11, <3>12, <3>13
  <2> QED
    BY <2>1, <2>2
<1>4. moved \in Q
  <2>1. T \in Q
    BY CalmFirst
  <2> HIDE DEF Q, behind
  <2>2. \A U \in Q, d \in Changes : Rewritten(T, c, U, d) \in Q
    BY <1>3
  <2>3. IsList(behind)
    BY <1>2
  <2> QED
    BY <2>1, <2>2, <2>3, RewritesKeep
<1> HIDE DEF moved
<1>5. CASE ~(/\ Head0(T) = c /\ next # None /\ T.entry[next].stored
             /\ T.entry[next].fencing # "kept" /\ T.entry[next].fence = None)
  <2>1. HandOver(T, c) = moved
    BY <1>5, Zenon DEF HandOver, Rewrites, moved, next, behind
  <2> QED
    BY <1>4, <2>1
<1>6. CASE /\ Head0(T) = c /\ next # None /\ T.entry[next].stored
           /\ T.entry[next].fencing # "kept" /\ T.entry[next].fence = None
  <2>1. HandOver(T, c) = last /\ last \in Pages(M, L, B)
    BY <1>6, HandOverKeeps, Zenon DEF HandOver, Rewrites, moved, next, behind
  <2>2. next \in Changes
    BY <1>2, <1>6
  <2> HIDE DEF next
  <2>3. /\ moved \in Pages(M, L, B) /\ moved.entry[next].st = T.entry[next].st
        /\ moved.entry[next] \in Entries /\ moved \in PageSet(M, L)
        /\ moved.entry \in [Changes -> Entries] /\ moved \in CalmPages(M, L, B, T, X, Y)
    BY <1>4, <2>2, CalmIs, PageFacts
  <2>4. T.entry[next].st \notin Settled
    BY <1>1, <1>6, <2>2 DEF EntryOK
  <2> DEFINE e == [moved.entry[next] EXCEPT !.fence = T.entry[c].fence]
  <2>5. last.disk = moved.disk /\ last.entry = [moved.entry EXCEPT ![next] = e]
    BY <2>3 DEF PageSet
  <2>6. /\ e.st = moved.entry[next].st /\ e.stored = moved.entry[next].stored
        /\ e.heard = moved.entry[next].heard /\ e.saved = moved.entry[next].saved
        /\ e.sent = moved.entry[next].sent /\ e.fencing = moved.entry[next].fencing
    BY <2>3 DEF Entries
  <2> HIDE DEF e, last
  <2>7. CalmEntry(moved.entry[next], e) /\ e.st \notin Settled
    BY <2>3, <2>4, <2>6 DEF CalmEntry
  <2>8. last.entry[next] = e /\ \A d \in Changes : d # next => last.entry[d] = moved.entry[d]
    BY <2>2, <2>3, <2>5
  <2>9. last \in CalmPages(M, L, B, moved, X, Y)
    BY <2>1, <2>5, <2>7, <2>8, CalmEdit
  <2> QED
    BY <2>1, <2>3, <2>9, CalmThen
<1> QED
  BY <1>5, <1>6

LEMMA CancelledCalm ==
  ASSUME NEW M \in Histories, NEW L, NEW B, NEW T \in Pages(M, L, B), NEW c \in Changes,
         T.entry[c].stored, NEW X
  PROVE  Cancelled(T, c) \in CalmPages(M, L, B, T, X, {c})
<1> DEFINE U == HandOver(T, c)
           note == Note(c, "undone", None)
<1>1. "undone" \in Outcomes \ {"done", "stale"}
  BY DEF Outcomes
<1>2. note \in Reports(L) /\ note.id = c
  BY <1>1, DroppedNote
<1>3. U \in CalmPages(M, L, B, T, X, {c})
  BY HandOverCalm
<1> HIDE DEF U, note
<1>4. U \in Pages(M, L, B) /\ (U.entry[c].st \in Settled \/ U.entry[c].stored)
  BY <1>3, CalmIs DEF CalmEntry
<1>5. Settle(U, c, note) \in CalmPages(M, L, B, U, X, {c})
  BY <1>2, <1>4, SettleCalm
<1>6. Cancelled(T, c) = Settle(U, c, note)
  BY DEF Cancelled, U, note
<1> QED
  BY <1>3, <1>5, <1>6, CalmThen

LEMMA SweepCalm ==
  ASSUME NEW M \in Histories, NEW L, NEW B, NEW T \in Pages(M, L, B), NEW X, NEW Y
  PROVE  Sweep(T) \in CalmPages(M, L, B, T, X, Y) /\ Sweep(T).disk = T.disk
<1> DEFINE U == Sweep(T)
<1>1. T \in PageSet(M, L) /\ T.entry \in [Changes -> Entries] /\ U \in Pages(M, L, B)
  BY PageFacts, SweepKeeps
<1>2. U.disk = T.disk
      /\ \A c \in Changes : U.entry[c] = IF T.entry[c].st = "over" THEN Absent ELSE T.entry[c]
  BY <1>1 DEF Sweep, PageSet
<1> HIDE DEF U
<1>3. ASSUME NEW c \in Changes
      PROVE  Calm(T, U, X, Y, c)
  <2>1. U.entry[c].st \notin Settled => CalmEntry(T.entry[c], U.entry[c])
    BY <1>2, AbsentIs DEF CalmEntry
  <2>2. T.entry[c].st \notin Settled => U.entry[c].st \notin Settled
    BY <1>2 DEF Settled
  <2> QED
    BY <1>2, <2>1, <2>2, CalmInMemory
<1> QED
  BY <1>1, <1>2, <1>3 DEF U, CalmPages

(* A change waits, starts, takes its turn, or is looked for.               *)
LEMMA RestatedCalm ==
  ASSUME NEW M \in Histories, NEW L, NEW B, NEW T \in Pages(M, L, B), NEW c \in Changes,
         T.entry[c].st \notin Settled \cup {"mark"}, NEW st \in {"saving", "turn", "check"},
         st = "check" => c \in B, NEW X, NEW Y
  PROVE  [T EXCEPT !.entry[c].st = st] \in CalmPages(M, L, B, T, X, Y)
<1> DEFINE U == [T EXCEPT !.entry[c].st = st]
<1>1. st \in Statuses \ Settled /\ (st \in InExchange => c \in B) /\ st # "sending"
  BY DEF Statuses, Settled, InExchange
<1>2. U \in Pages(M, L, B)
  BY <1>1, Restated
<1>3. T \in PageSet(M, L) /\ T.entry \in [Changes -> Entries] /\ T.entry[c] \in Entries
  BY PageFacts
<1>4. U.disk = T.disk /\ U.entry = [T.entry EXCEPT ![c].st = st]
  BY <1>3 DEF PageSet
<1> HIDE DEF U
<1>5. /\ U.entry[c] = [T.entry[c] EXCEPT !.st = st]
      /\ \A d \in Changes : d # c => U.entry[d] = T.entry[d]
  BY <1>3, <1>4
<1>6. /\ U.entry[c].st = st /\ U.entry[c].stored = T.entry[c].stored
      /\ U.entry[c].heard = T.entry[c].heard /\ U.entry[c].saved = T.entry[c].saved
      /\ U.entry[c].sent = T.entry[c].sent /\ U.entry[c].fencing = T.entry[c].fencing
  BY <1>3, <1>5 DEF Entries
<1>7. CalmEntry(T.entry[c], U.entry[c]) /\ U.entry[c].st \notin Settled
  BY <1>1, <1>6 DEF CalmEntry
<1>8. U \in CalmPages(M, L, B, T, X, Y)
  BY <1>2, <1>4, <1>5, <1>7, CalmEdit
<1> QED
  BY <1>8 DEF U

LEMMA ParkCalm ==
  ASSUME NEW M \in Histories, NEW L, NEW B, NEW T \in Pages(M, L, B), NEW c \in Changes,
         T.entry[c].st \notin Settled \cup {"mark"}, NEW X, NEW Y
  PROVE  Park(T, c) \in CalmPages(M, L, B, T, X, Y)
<1> DEFINE U == Park(T, c)
<1>1. U \in Pages(M, L, B)
  BY ParkKeeps
<1>2. T \in PageSet(M, L) /\ T.entry \in [Changes -> Entries] /\ T.entry[c] \in Entries
  BY PageFacts
<1>3. U.disk = T.disk
      /\ U.entry = [T.entry EXCEPT ![c] = [@ EXCEPT !.st = "waiting", !.replayed = TRUE, !.try = 0]]
  BY <1>2, ZenonT(60) DEF PageSet, Park, Entries
<1> HIDE DEF U
<1>4. /\ U.entry[c] = [T.entry[c] EXCEPT !.st = "waiting", !.replayed = TRUE, !.try = 0]
      /\ \A d \in Changes : d # c => U.entry[d] = T.entry[d]
  BY <1>2, <1>3
<1>5. /\ U.entry[c].st = "waiting" /\ U.entry[c].stored = T.entry[c].stored
      /\ U.entry[c].heard = T.entry[c].heard /\ U.entry[c].saved = T.entry[c].saved
      /\ U.entry[c].sent = T.entry[c].sent /\ U.entry[c].fencing = T.entry[c].fencing
  BY <1>2, <1>4 DEF Entries
<1>6. CalmEntry(T.entry[c], U.entry[c]) /\ U.entry[c].st \notin Settled
  BY <1>5 DEF CalmEntry, Settled
<1>7. U \in CalmPages(M, L, B, T, X, Y)
  BY <1>1, <1>3, <1>4, <1>6, CalmEdit
<1> QED
  BY <1>7 DEF U

-----------------------------------------------------------------------------
(* What calm steps, answers of the queue store, and the server make of it. *)

NeatAll(T, rs, R, G, W) ==
  \A c \in Changes : Neat(T.entry[c], T.disk, rs, R, G, W, c)

LEMMA CalmKeeps ==
  ASSUME NEW M \in Histories, NEW L, NEW B, NEW T \in Pages(M, L, B),
         NEW rs, NEW R, NEW G, NEW W, NeatAll(T, rs, R, G, W),
         NEW X, \A c \in X : c \notin DOMAIN rs,
         NEW Y, \A c \in Y : T.entry[c].st \notin Settled /\ ~T.entry[c].sent,
         NEW U \in CalmPages(M, L, B, T, X, Y)
  PROVE  /\ NeatAll(U, rs, R, G, W)
         /\ \A c \in Changes : AsksFor(U.disk, c, "save") => AsksFor(T.disk, c, "save")
<1> DEFINE S == Tasks(M, L)
<1>1. T.disk \in Seq(S) /\ U.disk \in Seq(S)
  BY CalmIs, PageFacts
<1> HIDE DEF S
<1>2. \A c \in Changes : Calm(T, U, X, Y, c)
  BY CalmIs
<1>3. NeatAll(U, rs, R, G, W)
  BY <1>1, <1>2, NeatCalm DEF NeatAll
<1>4. ASSUME NEW c \in Changes, AsksFor(U.disk, c, "save")
      PROVE  AsksFor(T.disk, c, "save")
  <2>1. PICK i \in DOMAIN U.disk : Asks(U.disk, i, c, "save")
    BY <1>4 DEF AsksFor
  <2>2. i \in DOMAIN T.disk /\ U.disk[i] = T.disk[i]
    BY <1>2, <2>1 DEF Calm, CalmJob, Asks
  <2> QED
    BY <2>1, <2>2 DEF AsksFor, Asks
<1> QED
  BY <1>3, <1>4

(* A request of a change the page is sending is on its way; a replay ends. *)
LEMMA OnItsWay ==
  ASSUME NEW T, NEW rs, NEW R, NEW G, NEW W, NeatAll(T, rs, R, G, W),
         NEW Q, Q = R \/ DOMAIN Q = {},
         NEW H, \A c \in H : c \in G \/ T.entry[c].st = "sending"
  PROVE  NeatAll(T, rs, Q, H, W)
<1>1. ASSUME NEW c \in Changes
      PROVE  Neat(T.entry[c], T.disk, rs, Q, H, W, c)
  <2> DEFINE e == T.entry[c]
             D == T.disk
  <2>1. Neat(e, D, rs, R, G, W, c)
    BY DEF NeatAll
  <2>2. /\ c \in H => c \in G \/ e.st = "sending"
        /\ c \in DOMAIN Q => c \in DOMAIN R /\ Q[c] = R[c]
    OBVIOUS
  <2>3. e.st = "sending" => Sending(e) /\ e.st # "mark"
    BY <2>1 DEF Neat, EntryNeat, Sending, Settled
  <2> HIDE DEF e, D
  <2>4. SaveComesFirst(e, D, rs, Q, H, c)
    BY <2>1, <2>2, <2>3 DEF Neat, SaveComesFirst, Sending
  <2>5. SentIsMarked(e, D, rs, Q, H, c)
    BY <2>1, <2>2, <2>3 DEF Neat, SentIsMarked
  <2>6. StaysAway(e, D, rs, H, W, c)
    BY <2>1, <2>2 DEF Neat, StaysAway
  <2> QED
    BY <2>1, <2>4, <2>5, <2>6 DEF Neat, e, D
<1> QED
  BY <1>1 DEF NeatAll

(* The writes asked for, but the first.                                    *)
LEMMA TailIs ==
  ASSUME NEW S, NEW D \in Seq(S), D # <<>>, NEW c
  PROVE  LET E == Tail(D)
             n == Len(D) - 1
         IN  /\ n \in Nat /\ DOMAIN D = 1 .. (n + 1) /\ DOMAIN E = 1 .. n /\ E \in Seq(S)
             /\ D[1] = Head(D) /\ \A i \in 1 .. n : E[i] = D[i + 1]
             /\ \A op : AsksFor(D, c, op) <=> Asks(D, 1, c, op) \/ AsksFor(E, c, op)
<1> DEFINE E == Tail(D)
           n == Len(D) - 1
<1>1. /\ n \in Nat /\ DOMAIN D = 1 .. (n + 1) /\ DOMAIN E = 1 .. n /\ E \in Seq(S)
      /\ D[1] = Head(D) /\ \A i \in 1 .. n : E[i] = D[i + 1]
  OBVIOUS
<1> HIDE DEF E, n
<1>2. ASSUME NEW op
      PROVE  AsksFor(D, c, op) <=> Asks(D, 1, c, op) \/ AsksFor(E, c, op)
  <2>1. ASSUME AsksFor(D, c, op), ~Asks(D, 1, c, op)
        PROVE  AsksFor(E, c, op)
    <3>1. PICK i \in 1 .. (n + 1) : Asks(D, i, c, op)
      BY <1>1, <2>1 DEF AsksFor
    <3> DEFINE k == i - 1
    <3>2. k \in 1 .. n /\ i = k + 1
      BY <1>1, <2>1, <3>1
    <3> HIDE DEF k
    <3> QED
      BY <1>1, <3>1, <3>2 DEF AsksFor, Asks
  <2>2. ASSUME AsksFor(E, c, op)
        PROVE  AsksFor(D, c, op)
    <3>1. PICK i \in 1 .. n : Asks(E, i, c, op)
      BY <1>1, <2>2 DEF AsksFor
    <3>2. i + 1 \in 1 .. (n + 1) /\ Asks(D, i + 1, c, op)
      BY <1>1, <3>1 DEF Asks
    <3> QED
      BY <1>1, <3>2 DEF AsksFor
  <2>3. Asks(D, 1, c, op) => AsksFor(D, c, op)
    BY <1>1 DEF AsksFor
  <2> QED
    BY <2>1, <2>2, <2>3
<1> QED
  BY <1>1, <1>2 DEF E, n

(* No save of a change is asked for after another write of it.             *)
LEMMA SavedOnce ==
  ASSUME NEW S, NEW D \in Seq(S), D # <<>>, NEW e, NEW rs, NEW R, NEW G, NEW c,
         SaveComesFirst(e, D, rs, R, G, c), D[1].id = c
  PROVE  ~AsksFor(Tail(D), c, "save")
<1> DEFINE E == Tail(D)
           n == Len(D) - 1
<1>1. /\ n \in Nat /\ DOMAIN D = 1 .. (n + 1) /\ DOMAIN E = 1 .. n
      /\ \A i \in 1 .. n : E[i] = D[i + 1]
  OBVIOUS
<1> HIDE DEF E, n
<1>2. ASSUME NEW i \in 1 .. n, Asks(E, i, c, "save")
      PROVE  FALSE
  <2>1. i + 1 \in DOMAIN D /\ Asks(D, i + 1, c, "save") /\ 1 \in 1 .. (i + 1 - 1)
    BY <1>1, <1>2 DEF Asks
  <2> QED
    BY <2>1 DEF SaveComesFirst
<1> QED
  BY <1>1, <1>2 DEF AsksFor, E

(* A write that neither saves, removes nor marks a change leaves it neat.  *)
LEMMA NeatBesides ==
  ASSUME NEW S, NEW D \in Seq(S), D # <<>>, NEW e, NEW rs, NEW qs, NEW R, NEW G, NEW W, NEW V,
         NEW c, Neat(e, D, rs, R, G, W, c),
         D[1].id = c => D[1].op \notin {"save", "remove", "mark"},
         c \in DOMAIN qs <=> c \in DOMAIN rs, c \in DOMAIN rs => (qs[c].sent <=> rs[c].sent),
         c \in V <=> c \in W
  PROVE  Neat(e, Tail(D), qs, R, G, V, c)
<1> DEFINE E == Tail(D)
           n == Len(D) - 1
<1>1. /\ n \in Nat /\ DOMAIN D = 1 .. (n + 1) /\ DOMAIN E = 1 .. n
      /\ \A i \in 1 .. n : E[i] = D[i + 1]
      /\ \A op : AsksFor(D, c, op) <=> Asks(D, 1, c, op) \/ AsksFor(E, c, op)
  BY TailIs
<1> HIDE DEF E, n
<1>2. \A op \in {"save", "remove", "mark"} : ~Asks(D, 1, c, op)
  BY DEF Asks
<1>3. \A op \in {"save", "remove", "mark"} : AsksFor(D, c, op) <=> AsksFor(E, c, op)
  BY <1>1, <1>2
<1>4. \A i \in 1 .. n : i + 1 \in 1 .. (n + 1) /\ \A op : Asks(E, i, c, op) <=> Asks(D, i + 1, c, op)
  BY <1>1 DEF Asks
<1>5. SaveComesFirst(e, E, qs, R, G, c)
  <2>1. ASSUME NEW i \in 1 .. n, Asks(E, i, c, "save")
        PROVE  /\ ~E[i].rec.sent /\ c \notin DOMAIN qs /\ c \notin DOMAIN R /\ c \notin G
               /\ \A j \in 1 .. (i - 1) : E[j].id # c
               /\ ~AsksFor(E, c, "mark")
               /\ e.st \notin Settled => ~e.sent /\ e.saved = "no"
    <3>1. i + 1 \in DOMAIN D /\ Asks(D, i + 1, c, "save")
      BY <1>1, <1>4, <2>1
    <3>2. /\ ~D[i + 1].rec.sent /\ c \notin DOMAIN rs /\ c \notin DOMAIN R /\ c \notin G
          /\ \A j \in 1 .. (i + 1 - 1) : D[j].id # c
          /\ ~AsksFor(D, c, "mark")
          /\ e.st \notin Settled => ~e.sent /\ e.saved = "no"
      BY <3>1 DEF Neat, SaveComesFirst
    <3>3. \A j \in 1 .. (i - 1) : E[j].id # c
      <4>1. ASSUME NEW j \in 1 .. (i - 1)
            PROVE  E[j].id # c
        <5>1. j \in 1 .. n /\ j + 1 \in 1 .. (i + 1 - 1) /\ E[j] = D[j + 1]
          BY <1>1
        <5> QED
          BY <3>2, <5>1
      <4> QED
        BY <4>1
    <3> QED
      BY <1>1, <1>3, <3>2, <3>3
  <2> QED
    BY <1>1, <2>1 DEF SaveComesFirst
<1>6. SentIsMarked(e, E, qs, R, G, c)
  <2>1. SUFFICES ASSUME c \in DOMAIN qs
                 PROVE  SentIsMarked(e, E, qs, R, G, c)
    BY DEF SentIsMarked
  <2>2. /\ c \in DOMAIN rs
        /\ \/ c \in G
           \/ Sending(e) /\ e.st # "mark"
           \/ c \in DOMAIN R /\ R[c].sent
           => rs[c].sent
        /\ \A i \in DOMAIN D : Asks(D, i, c, "mark") =>
             Sending(e) \/ \E j \in DOMAIN D : i < j /\ Asks(D, j, c, "remove")
        /\ rs[c].sent /\ ~AsksFor(D, c, "remove") =>
             /\ e.st \notin Settled => e.sent
             /\ e.st \in Settled /\ c \in DOMAIN R => R[c].sent
        /\ \A i \in DOMAIN D :
             TakesBack(D, i, c) /\ (\A j \in 1 .. (i - 1) : ~Asks(D, j, c, "remove"))
             => ~rs[c].sent /\ \A j \in 1 .. (i - 1) : ~Asks(D, j, c, "mark")
    BY <2>1 DEF Neat, SentIsMarked
  <2>3. ASSUME NEW i \in 1 .. n, Asks(E, i, c, "mark")
        PROVE  Sending(e) \/ \E j \in 1 .. n : i < j /\ Asks(E, j, c, "remove")
    <3>1. i + 1 \in DOMAIN D /\ Asks(D, i + 1, c, "mark")
      BY <1>1, <1>4, <2>3
    <3>2. CASE \E j \in DOMAIN D : i + 1 < j /\ Asks(D, j, c, "remove")
      <4>1. PICK j \in DOMAIN D : i + 1 < j /\ Asks(D, j, c, "remove")
        BY <3>2
      <4> DEFINE k == j - 1
      <4>2. k \in 1 .. n /\ i < k /\ k + 1 = j
        BY <1>1, <4>1
      <4> HIDE DEF k
      <4>3. Asks(E, k, c, "remove")
        BY <1>4, <4>1, <4>2
      <4> QED
        BY <4>2, <4>3
    <3> QED
      BY <2>2, <3>1, <3>2
  <2>4. ASSUME NEW i \in 1 .. n, TakesBack(E, i, c),
               \A j \in 1 .. (i - 1) : ~Asks(E, j, c, "remove")
        PROVE  ~qs[c].sent /\ \A j \in 1 .. (i - 1) : ~Asks(E, j, c, "mark")
    <3>1. i + 1 \in DOMAIN D /\ TakesBack(D, i + 1, c)
      BY <1>1, <2>4 DEF TakesBack, Asks
    <3>2. ASSUME NEW j \in 1 .. (i + 1 - 1), Asks(D, j, c, "remove")
          PROVE  FALSE
      <4>1. j # 1
        BY <1>2, <3>2
      <4> DEFINE k == j - 1
      <4>2. k \in 1 .. n /\ k \in 1 .. (i - 1) /\ k + 1 = j
        BY <1>1, <4>1
      <4> HIDE DEF k
      <4> QED
        BY <1>4, <2>4, <3>2, <4>2
    <3>3. ~rs[c].sent /\ \A j \in 1 .. (i + 1 - 1) : ~Asks(D, j, c, "mark")
      BY <2>2, <3>1, <3>2
    <3>4. ASSUME NEW j \in 1 .. (i - 1)
          PROVE  ~Asks(E, j, c, "mark")
      <4>1. j \in 1 .. n /\ j + 1 \in 1 .. (i + 1 - 1)
        BY <1>1
      <4> QED
        BY <1>4, <3>3, <4>1
    <3> QED
      BY <2>1, <2>2, <3>3, <3>4
  <2>5. /\ \/ c \in G
           \/ Sending(e) /\ e.st # "mark"
           \/ c \in DOMAIN R /\ R[c].sent
           => qs[c].sent
        /\ qs[c].sent /\ ~AsksFor(E, c, "remove") =>
             /\ e.st \notin Settled => e.sent
             /\ e.st \in Settled /\ c \in DOMAIN R => R[c].sent
    BY <1>3, <2>1, <2>2
  <2> QED
    BY <1>1, <2>3, <2>4, <2>5, Zenon DEF SentIsMarked
<1>7. EntryNeat(e) /\ StaysAway(e, E, qs, G, V, c)
  BY <1>3 DEF Neat, StaysAway
<1> QED
  BY <1>5, <1>6, <1>7 DEF Neat, E

(* The first write is done: a record is kept, removed, or marked as sent.  *)
LEMMA NeatSaved ==
  ASSUME NEW S, NEW D \in Seq(S), D # <<>>, NEW e, NEW rs, NEW qs, NEW R, NEW G, NEW W, NEW c,
         Neat(e, D, rs, R, G, W, c), Asks(D, 1, c, "save"), qs[c] = D[1].rec
  PROVE  Neat(e, Tail(D), qs, R, G, W, c) /\ ~AsksFor(Tail(D), c, "save")
<1> DEFINE E == Tail(D)
           n == Len(D) - 1
<1>1. /\ n \in Nat /\ DOMAIN D = 1 .. (n + 1) /\ DOMAIN E = 1 .. n
      /\ \A i \in 1 .. n : E[i] = D[i + 1]
      /\ \A op : AsksFor(D, c, op) <=> Asks(D, 1, c, op) \/ AsksFor(E, c, op)
  BY TailIs
<1>2. ~AsksFor(E, c, "save")
  BY SavedOnce DEF Neat, Asks
<1> HIDE DEF E, n
<1>3. /\ ~qs[c].sent /\ c \notin DOMAIN R /\ c \notin G /\ ~AsksFor(D, c, "mark")
      /\ e.st \notin Settled => ~e.sent
  BY <1>1 DEF Neat, SaveComesFirst
<1>4. AsksFor(D, c, "save") /\ ~AsksFor(E, c, "mark")
  BY <1>1, <1>3
<1>5. SaveComesFirst(e, E, qs, R, G, c)
  BY <1>2 DEF SaveComesFirst, AsksFor
<1>6. SentIsMarked(e, E, qs, R, G, c)
  <2>1. \A i \in DOMAIN E : ~Asks(E, i, c, "mark")
    BY <1>4 DEF AsksFor
  <2>2. \A i \in DOMAIN E : \A j \in 1 .. (i - 1) : j \in DOMAIN E
    BY <1>1
  <2> QED
    BY <1>3, <2>1, <2>2 DEF SentIsMarked, Sending
<1>7. EntryNeat(e) /\ StaysAway(e, E, qs, G, W, c)
  BY <1>4 DEF Neat, StaysAway
<1> QED
  BY <1>2, <1>5, <1>6, <1>7 DEF Neat, E

LEMMA NeatRemoved ==
  ASSUME NEW S, NEW D \in Seq(S), D # <<>>, NEW e, NEW rs, NEW qs, NEW R, NEW G, NEW W, NEW V,
         NEW c, Neat(e, D, rs, R, G, W, c), Asks(D, 1, c, "remove"), c \notin DOMAIN qs,
         c \in V => c \in W \/ (c \in DOMAIN rs /\ TakesBack(D, 1, c))
  PROVE  Neat(e, Tail(D), qs, R, G, V, c)
<1> DEFINE E == Tail(D)
<1>1. ~AsksFor(E, c, "save")
  BY SavedOnce DEF Neat, Asks
<1>2. 1 \in DOMAIN D /\ \A j \in 1 .. (1 - 1) : FALSE
  OBVIOUS
<1> HIDE DEF E
<1>3. SaveComesFirst(e, E, qs, R, G, c) /\ SentIsMarked(e, E, qs, R, G, c)
  BY <1>1 DEF SaveComesFirst, SentIsMarked, AsksFor
<1>4. c \in DOMAIN rs /\ TakesBack(D, 1, c) => c \notin G /\ e.st # "sending"
  <2>1. SUFFICES ASSUME c \in DOMAIN rs, TakesBack(D, 1, c)
                 PROVE  c \notin G /\ e.st # "sending"
    OBVIOUS
  <2>2. ~rs[c].sent
    BY <1>2, <2>1 DEF Neat, SentIsMarked
  <2> QED
    BY <2>1, <2>2 DEF Neat, SentIsMarked, EntryNeat, Sending, Settled
<1>5. EntryNeat(e) /\ StaysAway(e, E, qs, G, V, c)
  BY <1>1, <1>4 DEF Neat, StaysAway
<1> QED
  BY <1>3, <1>5 DEF Neat, E

LEMMA NeatMarked ==
  ASSUME NEW S, NEW D \in Seq(S), D # <<>>, NEW e, NEW rs, NEW qs, NEW R, NEW G, NEW W,
         NEW c, Neat(e, D, rs, R, G, W, c), Asks(D, 1, c, "mark"),
         c \in DOMAIN qs <=> c \in DOMAIN rs, c \in DOMAIN rs => qs[c].sent = TRUE
  PROVE  Neat(e, Tail(D), qs, R, G, W, c)
<1> DEFINE E == Tail(D)
           n == Len(D) - 1
<1>1. /\ n \in Nat /\ DOMAIN D = 1 .. (n + 1) /\ DOMAIN E = 1 .. n
      /\ \A i \in 1 .. n : E[i] = D[i + 1]
      /\ \A op : AsksFor(D, c, op) <=> Asks(D, 1, c, op) \/ AsksFor(E, c, op)
  BY TailIs
<1>2. ~AsksFor(E, c, "save")
  BY SavedOnce DEF Neat, Asks
<1> HIDE DEF E, n
<1>3. \A i \in 1 .. n : i + 1 \in 1 .. (n + 1) /\ \A op : Asks(E, i, c, op) <=> Asks(D, i + 1, c, op)
  BY <1>1 DEF Asks
<1>4. SaveComesFirst(e, E, qs, R, G, c)
  BY <1>2 DEF SaveComesFirst, AsksFor
<1>5. SentIsMarked(e, E, qs, R, G, c)
  <2>1. SUFFICES ASSUME c \in DOMAIN qs
                 PROVE  SentIsMarked(e, E, qs, R, G, c)
    BY DEF SentIsMarked
  <2>2. /\ c \in DOMAIN rs /\ qs[c].sent
        /\ \A i \in DOMAIN D : Asks(D, i, c, "mark") =>
             Sending(e) \/ \E j \in DOMAIN D : i < j /\ Asks(D, j, c, "remove")
        /\ \A i \in DOMAIN D :
             TakesBack(D, i, c) /\ (\A j \in 1 .. (i - 1) : ~Asks(D, j, c, "remove"))
             => ~rs[c].sent /\ \A j \in 1 .. (i - 1) : ~Asks(D, j, c, "mark")
    BY <2>1 DEF Neat, SentIsMarked
  <2>3. ASSUME NEW i \in 1 .. (n + 1), Asks(D, i, c, "mark"), ~Sending(e)
        PROVE  \E j \in 1 .. n : i < j + 1 /\ Asks(E, j, c, "remove")
    <3>1. PICK j \in 1 .. (n + 1) : i < j /\ Asks(D, j, c, "remove")
      BY <1>1, <2>2, <2>3
    <3> DEFINE k == j - 1
    <3>2. k \in 1 .. n /\ k + 1 = j
      BY <1>1, <3>1
    <3> HIDE DEF k
    <3>3. Asks(E, k, c, "remove")
      BY <1>3, <3>1, <3>2
    <3> QED
      BY <3>1, <3>2, <3>3
  <2>4. ~AsksFor(E, c, "remove") => Sending(e)
    <3>1. 1 \in 1 .. (n + 1)
      BY <1>1
    <3> QED
      BY <1>1, <2>3, <3>1 DEF AsksFor
  <2>5. ASSUME NEW i \in 1 .. n, Asks(E, i, c, "mark")
        PROVE  Sending(e) \/ \E j \in 1 .. n : i < j /\ Asks(E, j, c, "remove")
    <3>1. i + 1 \in 1 .. (n + 1) /\ Asks(D, i + 1, c, "mark")
      BY <1>3, <2>5
    <3>2. \A j \in 1 .. n : i + 1 < j + 1 => i < j
      BY <1>1
    <3> QED
      BY <2>3, <3>1, <3>2
  <2>6. ASSUME NEW i \in 1 .. n, TakesBack(E, i, c),
               \A j \in 1 .. (i - 1) : ~Asks(E, j, c, "remove")
        PROVE  FALSE
    <3>1. i + 1 \in DOMAIN D /\ TakesBack(D, i + 1, c)
      BY <1>1, <2>6 DEF TakesBack, Asks
    <3>2. ASSUME NEW j \in 1 .. (i + 1 - 1), Asks(D, j, c, "remove")
          PROVE  FALSE
      <4>1. j # 1
        BY <3>2 DEF Asks
      <4> DEFINE k == j - 1
      <4>2. k \in 1 .. n /\ k \in 1 .. (i - 1) /\ k + 1 = j
        BY <1>1, <4>1
      <4> HIDE DEF k
      <4> QED
        BY <1>3, <2>6, <3>2, <4>2
    <3>3. \A j \in 1 .. (i + 1 - 1) : ~Asks(D, j, c, "mark")
      BY <2>2, <3>1, <3>2
    <3>4. 1 \in 1 .. (i + 1 - 1)
      BY <1>1
    <3> QED
      BY <3>3, <3>4
  <2> QED
    BY <1>1, <2>1, <2>2, <2>4, <2>5, <2>6 DEF SentIsMarked, Sending
<1>6. EntryNeat(e) /\ StaysAway(e, E, qs, G, W, c)
  BY <1>2 DEF Neat, StaysAway
<1> QED
  BY <1>4, <1>5, <1>6 DEF Neat, E

(* What a write makes of the queue store.                                  *)
LEMMA StoredIs ==
  ASSUME NEW M \in Histories, records \in Recordings(M), NEW job \in Jobs
  PROVE  LET c == job.id
             F == Stored(job)
         IN  /\ job.op = "save" => DOMAIN F = DOMAIN records \cup {c} /\ F[c] = job.rec
             /\ job.op = "remove" => DOMAIN F = DOMAIN records \ {c}
             /\ job.op \notin {"save", "remove"} =>
                  /\ DOMAIN F = DOMAIN records
                  /\ c \in DOMAIN records /\ job.op = "mark" => F[c].sent = TRUE
                  /\ c \in DOMAIN records /\ job.op # "mark" => F[c].sent = records[c].sent
             /\ \A d \in Changes : d # c => /\ d \in DOMAIN F <=> d \in DOMAIN records
                                            /\ d \in DOMAIN records => F[d] = records[d]
<1> DEFINE c == job.id
           F == Stored(job)
<1>1. c \in Changes /\ DOMAIN records \subseteq DOMAIN M
      /\ \A d \in DOMAIN records : records[d] \in RecordSet
  BY RecordingFacts DEF Jobs
<1>2. CASE job.op = "save"
  <2>1. F = [d \in DOMAIN records \cup {c} |-> IF d = c THEN job.rec ELSE records[d]]
    BY <1>2, Zenon DEF Stored
  <2> HIDE DEF F
  <2> QED
    BY <1>1, <1>2, <2>1 DEF F
<1>3. CASE job.op = "remove"
  <2>1. F = [d \in DOMAIN records \ {c} |-> records[d]]
    BY <1>3, Zenon DEF Stored, Restrict
  <2> HIDE DEF F
  <2> QED
    BY <1>1, <1>3, <2>1 DEF F
<1>4. CASE job.op \notin {"save", "remove"}
  <2> DEFINE amended(r) ==
               CASE job.op = "fence" -> [r EXCEPT !.fence = job.fence]
                 [] job.op = "after" -> [r EXCEPT !.after = job.after]
                 [] job.op = "mark" -> [r EXCEPT !.sent = TRUE]
                 [] job.op = "look" -> r
  <2>1. F = [d \in DOMAIN records |-> IF d = c THEN amended(records[d]) ELSE records[d]]
    BY <1>4, Zenon DEF Stored
  <2>2. ASSUME c \in DOMAIN records
        PROVE  amended(records[c]).sent = IF job.op = "mark" THEN TRUE ELSE records[c].sent
    <3>1. job.op \in {"fence", "after", "mark", "look"}
      BY <1>4 DEF Jobs
    <3> DEFINE r == records[c]
    <3>2. r \in RecordSet
      BY <1>1, <2>2
    <3> HIDE DEF r
    <3>3. amended(r).sent = IF job.op = "mark" THEN TRUE ELSE r.sent
      BY <3>1, <3>2 DEF RecordSet
    <3> QED
      BY <3>3 DEF r
  <2> HIDE DEF F, amended
  <2>3. DOMAIN F = DOMAIN records
        /\ \A d \in DOMAIN records : F[d] = IF d = c THEN amended(records[c]) ELSE records[d]
    BY <2>1
  <2> QED
    BY <1>4, <2>2, <2>3 DEF F
<1> QED
  BY <1>2, <1>3, <1>4

LEMMA NeatWritten ==
  ASSUME NEW M \in Histories, NEW L, NEW B, NEW T0 \in Pages(M, L, B), T0.disk # <<>>,
         records \in Recordings(M), NEW R, NEW G, NEW W, NeatAll(T0, records, R, G, W),
         NEW V, \A c \in V : c \in W \/ (c \in DOMAIN records /\ TakesBack(T0.disk, 1, c)),
         W \subseteq V
  PROVE  /\ NeatAll([T0 EXCEPT !.disk = Tail(@)], Stored(Head(T0.disk)), R, G, V)
         /\ ~AsksFor(Tail(T0.disk), Head(T0.disk).id, "save")
<1> DEFINE T == [T0 EXCEPT !.disk = Tail(@)]
           S == Tasks(M, L)
           D == T0.disk
           job == D[1]
           F == Stored(job)
<1>1. T.entry = T0.entry /\ T.disk = Tail(D) /\ Head(D) \in S /\ D \in Seq(S)
  BY TailKeeps, PageFacts
<1>2. Head(D) = D[1] /\ job \in Jobs /\ D # <<>>
  BY <1>1 DEF Tasks
<1> HIDE DEF S, T, D
<1>3. /\ job.op = "save" => DOMAIN F = DOMAIN records \cup {job.id} /\ F[job.id] = job.rec
      /\ job.op = "remove" => DOMAIN F = DOMAIN records \ {job.id}
      /\ job.op \notin {"save", "remove"} =>
           /\ DOMAIN F = DOMAIN records
           /\ job.id \in DOMAIN records /\ job.op = "mark" => F[job.id].sent = TRUE
           /\ job.id \in DOMAIN records /\ job.op # "mark" => F[job.id].sent = records[job.id].sent
      /\ \A d \in Changes : d # job.id => /\ d \in DOMAIN F <=> d \in DOMAIN records
                                          /\ d \in DOMAIN records => F[d] = records[d]
  <2> HIDE DEF job
  <2> QED
    BY <1>2, StoredIs
<1>4. ASSUME NEW c \in Changes
      PROVE  Neat(T0.entry[c], Tail(D), F, R, G, V, c)
  <2> DEFINE e == T0.entry[c]
  <2>1. Neat(e, D, records, R, G, W, c)
    BY <1>4 DEF NeatAll, D
  <2>2. c \in W => c \in V
    OBVIOUS
  <2>3. c \in V => c \in W \/ (c \in DOMAIN records /\ TakesBack(D, 1, c))
    BY DEF D
  <2> HIDE DEF e, F
  <2>4. CASE job.id = c /\ job.op = "save"
    <3>1. Asks(D, 1, c, "save") /\ ~TakesBack(D, 1, c) /\ F[c] = D[1].rec
      BY <1>3, <2>4 DEF Asks, TakesBack
    <3>2. Neat(e, Tail(D), F, R, G, W, c)
      BY <1>1, <1>2, <2>1, <3>1, NeatSaved
    <3> QED
      BY <2>2, <2>3, <3>1, <3>2 DEF Neat, StaysAway, e
  <2>5. CASE job.id = c /\ job.op = "remove"
    <3>1. Asks(D, 1, c, "remove") /\ c \notin DOMAIN F
      BY <1>3, <2>5 DEF Asks
    <3>2. Neat(e, Tail(D), F, R, G, V, c)
      BY <1>1, <1>2, <2>1, <2>3, <3>1, NeatRemoved
    <3> QED
      BY <3>2 DEF e
  <2>6. CASE job.id = c /\ job.op = "mark"
    <3>1. /\ Asks(D, 1, c, "mark") /\ ~TakesBack(D, 1, c)
          /\ c \in DOMAIN F <=> c \in DOMAIN records
          /\ c \in DOMAIN records => F[c].sent = TRUE
      BY <1>3, <2>6 DEF Asks, TakesBack
    <3>2. Neat(e, Tail(D), F, R, G, W, c)
      BY <1>1, <1>2, <2>1, <3>1, NeatMarked
    <3> QED
      BY <2>2, <2>3, <3>1, <3>2 DEF Neat, StaysAway, e
  <2>7. CASE job.id # c \/ job.op \notin {"save", "remove", "mark"}
    <3>1. /\ ~TakesBack(D, 1, c)
          /\ D[1].id = c => D[1].op \notin {"save", "remove", "mark"}
          /\ c \in DOMAIN F <=> c \in DOMAIN records
          /\ c \in DOMAIN records => (F[c].sent <=> records[c].sent)
      BY <1>3, <2>7 DEF Asks, TakesBack
    <3>2. c \in V <=> c \in W
      BY <2>2, <2>3, <3>1
    <3>3. Neat(e, Tail(D), F, R, G, V, c)
      BY <1>1, <1>2, <2>1, <3>1, <3>2, NeatBesides
    <3> QED
      BY <3>3 DEF e
  <2> QED
    BY <2>4, <2>5, <2>6, <2>7
<1>5. ~AsksFor(Tail(D), job.id, "save")
  <2> DEFINE c == job.id
  <2>1. c \in Changes
    BY <1>2 DEF Jobs
  <2>2. SaveComesFirst(T0.entry[c], D, records, R, G, c)
    BY <2>1 DEF NeatAll, Neat, D
  <2> HIDE DEF c
  <2>3. D[1].id = c
    BY DEF c
  <2>4. ~AsksFor(Tail(D), c, "save")
    BY <1>1, <1>2, <2>2, <2>3, SavedOnce
  <2> QED
    BY <2>4 DEF c
<1>6. NeatAll(T, F, R, G, V)
  <2> HIDE DEF F
  <2> QED
    BY <1>1, <1>4 DEF NeatAll
<1> QED
  BY <1>2, <1>5, <1>6 DEF T, D

(* Only the entry of one change is another.                                *)
LEMMA NeatEdit ==
  ASSUME NEW T, NEW U, U.disk = T.disk, NEW h, \A d \in Changes : d # h => U.entry[d] = T.entry[d],
         NEW rs, NEW R, NEW G, NEW W, NeatAll(T, rs, R, G, W),
         h \in Changes => Neat(U.entry[h], T.disk, rs, R, G, W, h)
  PROVE  NeatAll(U, rs, R, G, W)
BY DEF NeatAll

(* A page learns that a record is kept, or how its fence stands there.     *)
LEMMA LearntNeat ==
  ASSUME NEW e, NEW f, NEW D, NEW rs, NEW R, NEW G, NEW W, NEW c, Neat(e, D, rs, R, G, W, c),
         ~AsksFor(D, c, "save"), f.st = e.st, f.stored = e.stored, f.heard = e.heard,
         f.sent = e.sent, f.saved = e.saved \/ f.saved = "yes",
         f.fencing = "gone" => c \notin DOMAIN rs
  PROVE  Neat(f, D, rs, R, G, W, c)
<1>1. EntryNeat(f)
  BY DEF Neat, EntryNeat
<1>2. SaveComesFirst(f, D, rs, R, G, c)
  BY DEF SaveComesFirst, AsksFor
<1>3. SentIsMarked(f, D, rs, R, G, c)
  <2>1. Sending(f) <=> Sending(e)
    BY DEF Sending
  <2> QED
    BY <2>1 DEF Neat, SentIsMarked
<1>4. StaysAway(f, D, rs, G, W, c)
  BY DEF Neat, StaysAway
<1> QED
  BY <1>1, <1>2, <1>3, <1>4 DEF Neat

(* A change is sent whose record says so.                                  *)
LEMMA TransmitNeat ==
  ASSUME NEW M \in Histories, NEW L, NEW B, NEW T \in Pages(M, L, B), NEW c \in Changes,
         T.entry[c].st \in {"check", "mark"}, T.entry[c].sent,
         NEW rs, NEW R, NEW G, NEW W, NeatAll(T, rs, R, G, W), c \in DOMAIN rs, rs[c].sent
  PROVE  NeatAll(Transmit(T, c), rs, R, G, W) /\ Transmit(T, c).disk = T.disk
<1> DEFINE fence == FenceOf(T, c)
           U == [T EXCEPT !.entry[c].st = "sending", !.entry[c].try = 0, !.entry[c].fence = fence]
           e == T.entry[c]
           f == [e EXCEPT !.st = "sending", !.try = 0, !.fence = fence]
<1>1. T \in PageSet(M, L) /\ T.entry \in [Changes -> Entries] /\ e \in Entries
  BY PageFacts
<1> HIDE DEF fence
<1>2. U.disk = T.disk /\ U.entry = [T.entry EXCEPT ![c] = f]
  BY <1>1, ZenonT(60) DEF PageSet, Entries
<1>3. /\ f.st = "sending" /\ f.stored = e.stored /\ f.heard = e.heard /\ f.saved = e.saved
      /\ f.sent = e.sent /\ f.fencing = e.fencing
  BY <1>1 DEF Entries
<1> HIDE DEF U, f
<1>4. U.entry[c] = f /\ \A d \in Changes : d # c => U.entry[d] = T.entry[d]
  BY <1>1, <1>2
<1> HIDE DEF e
<1>5. Neat(e, T.disk, rs, R, G, W, c) /\ e.st \in {"check", "mark"} /\ e.sent
  BY DEF e, NeatAll
<1>6. e.st \notin Settled /\ f.st \notin Settled
  BY <1>3, <1>5 DEF Settled
<1>7. EntryNeat(f)
  BY <1>3, <1>5, <1>6 DEF Neat, EntryNeat
<1>8. SaveComesFirst(f, T.disk, rs, R, G, c)
  BY <1>3, <1>5, <1>6 DEF Neat, SaveComesFirst
<1>9. SentIsMarked(f, T.disk, rs, R, G, c)
  BY <1>3, <1>5, <1>6 DEF Neat, SentIsMarked, Sending
<1>10. StaysAway(f, T.disk, rs, G, W, c)
  BY <1>3, <1>5, <1>6 DEF Neat, StaysAway
<1>11. Neat(U.entry[c], T.disk, rs, R, G, W, c)
  BY <1>4, <1>7, <1>8, <1>9, <1>10 DEF Neat
<1>12. NeatAll(U, rs, R, G, W)
  BY <1>2, <1>4, <1>11, NeatEdit
<1> QED
  BY <1>2, <1>12 DEF Transmit, U, fence

(* The page has the mark of a change written before it sends the change.   *)
Marking(T, c) ==
  Ask([T EXCEPT !.entry[c].st = "mark", !.entry[c].sent = TRUE], [op |-> "mark", id |-> c])

LEMMA AskMarkNeat ==
  ASSUME NEW M \in Histories, NEW L, NEW B, NEW T \in Pages(M, L, B), NEW c \in Changes,
         T.entry[c].st = "check", NEW rs, NEW R, NEW G, NEW W, NeatAll(T, rs, R, G, W),
         c \in DOMAIN rs
  PROVE  /\ NeatAll(Marking(T, c), rs, R, G, W)
         /\ \A d \in Changes : AsksFor(Marking(T, c).disk, d, "save") => AsksFor(T.disk, d, "save")
<1> DEFINE job == [op |-> "mark", id |-> c]
           D == T.disk
           E == Append(D, job)
           n == Len(D)
           e == T.entry[c]
           f == [e EXCEPT !.st = "mark", !.sent = TRUE]
           U == Marking(T, c)
           S == Tasks(M, L)
<1>1. /\ T \in PageSet(M, L) /\ T.entry \in [Changes -> Entries] /\ e \in Entries
      /\ D \in Seq(S) /\ job.id = c /\ job.op = "mark"
  BY PageFacts
<1>2. U.disk = E /\ U.entry = [T.entry EXCEPT ![c] = f]
  BY <1>1 DEF PageSet, Marking, Ask, Entries
<1>3. /\ f.st = "mark" /\ f.stored = e.stored /\ f.heard = e.heard /\ f.saved = e.saved
      /\ f.sent = TRUE /\ f.fencing = e.fencing
  BY <1>1 DEF Entries
<1> HIDE DEF U, f, S
<1>4. U.entry[c] = f /\ \A d \in Changes : d # c => U.entry[d] = T.entry[d]
  BY <1>1, <1>2
<1>5. /\ n \in Nat /\ DOMAIN D = 1 .. n /\ DOMAIN E = 1 .. (n + 1) /\ E[n + 1] = job
      /\ \A i \in 1 .. n : E[i] = D[i]
  BY <1>1
<1> HIDE DEF D, E, n, e, job
<1>6. /\ \A d, op : \A i \in 1 .. n : Asks(E, i, d, op) <=> Asks(D, i, d, op)
      /\ \A d, op : Asks(E, n + 1, d, op) <=> d = c /\ op = "mark"
  BY <1>1, <1>5 DEF Asks
<1>7. /\ \A d, op : op # "mark" => (AsksFor(E, d, op) <=> AsksFor(D, d, op))
      /\ \A d : \A i \in 1 .. (n + 1) : Asks(E, i, d, "save") => i \in 1 .. n
      /\ \A d : \A i \in 1 .. (n + 1) : TakesBack(E, i, d) => i \in 1 .. n /\ TakesBack(D, i, d)
      /\ \A d : d # c => (AsksFor(E, d, "mark") <=> AsksFor(D, d, "mark"))
  <2>1. ASSUME NEW d, NEW op, op # "mark" \/ d # c
        PROVE  AsksFor(E, d, op) <=> AsksFor(D, d, op)
    <3>1. \A i \in 1 .. (n + 1) : i \in 1 .. n \/ i = n + 1
      BY <1>5
    <3>2. \A i \in 1 .. n : i \in 1 .. (n + 1)
      BY <1>5
    <3> QED
      BY <1>5, <1>6, <2>1, <3>1, <3>2 DEF AsksFor
  <2>2. ASSUME NEW d, NEW i \in 1 .. (n + 1), Asks(E, i, d, "save") \/ TakesBack(E, i, d)
        PROVE  i \in 1 .. n
    BY <1>5, <1>6, <2>2 DEF TakesBack
  <2> QED
    BY <1>5, <1>6, <2>1, <2>2 DEF TakesBack
<1>8. ASSUME NEW d \in Changes
      PROVE  Neat(U.entry[d], E, rs, R, G, W, d)
  <2> DEFINE g == T.entry[d]
             h == U.entry[d]
  <2>1. Neat(g, D, rs, R, G, W, d)
    BY <1>8 DEF NeatAll, D
  <2>2. /\ d # c => h = g
        /\ d = c => /\ d \in DOMAIN rs /\ h.st = "mark" /\ g.st = "check" /\ h.sent = TRUE
                    /\ h.stored = g.stored /\ h.heard = g.heard
                    /\ h.saved = g.saved /\ h.fencing = g.fencing
    BY <1>3, <1>4 DEF e
  <2> HIDE DEF g, h
  <2>3. d = c => h.st \notin Settled /\ g.st \notin Settled /\ ~AsksFor(D, c, "save")
    BY <2>1, <2>2 DEF Settled, Neat, SaveComesFirst, AsksFor
  <2>4. EntryNeat(h)
    BY <2>1, <2>2, <2>3 DEF Neat, EntryNeat
  <2>5. SaveComesFirst(h, E, rs, R, G, d)
    <3>1. ASSUME NEW i \in 1 .. (n + 1), Asks(E, i, d, "save")
          PROVE  /\ ~E[i].rec.sent /\ d \notin DOMAIN rs /\ d \notin DOMAIN R /\ d \notin G
                 /\ \A j \in 1 .. (i - 1) : E[j].id # d
                 /\ ~AsksFor(E, d, "mark")
                 /\ h.st \notin Settled => ~h.sent /\ h.saved = "no"
      <4>1. i \in 1 .. n /\ Asks(D, i, d, "save") /\ E[i] = D[i]
            /\ \A j \in 1 .. (i - 1) : E[j] = D[j]
        BY <1>5, <1>6, <1>7, <3>1
      <4>2. d # c
        BY <1>5, <2>3, <4>1 DEF AsksFor
      <4>3. /\ ~D[i].rec.sent /\ d \notin DOMAIN rs /\ d \notin DOMAIN R /\ d \notin G
            /\ \A j \in 1 .. (i - 1) : D[j].id # d
            /\ ~AsksFor(D, d, "mark")
            /\ g.st \notin Settled => ~g.sent /\ g.saved = "no"
        BY <1>5, <2>1, <4>1 DEF Neat, SaveComesFirst
      <4> QED
        BY <1>7, <2>2, <4>1, <4>2, <4>3
    <3> QED
      BY <1>5, <3>1 DEF SaveComesFirst
  <2>6. SentIsMarked(h, E, rs, R, G, d)
    <3>1. SUFFICES ASSUME d \in DOMAIN rs
                   PROVE  SentIsMarked(h, E, rs, R, G, d)
      BY DEF SentIsMarked
    <3>2. /\ \/ d \in G
             \/ Sending(g) /\ g.st # "mark"
             \/ d \in DOMAIN R /\ R[d].sent
             => rs[d].sent
          /\ \A i \in DOMAIN D : Asks(D, i, d, "mark") =>
               Sending(g) \/ \E j \in DOMAIN D : i < j /\ Asks(D, j, d, "remove")
          /\ rs[d].sent /\ ~AsksFor(D, d, "remove") =>
               /\ g.st \notin Settled => g.sent
               /\ g.st \in Settled /\ d \in DOMAIN R => R[d].sent
          /\ \A i \in DOMAIN D :
               TakesBack(D, i, d) /\ (\A j \in 1 .. (i - 1) : ~Asks(D, j, d, "remove"))
               => ~rs[d].sent /\ \A j \in 1 .. (i - 1) : ~Asks(D, j, d, "mark")
      BY <2>1, <3>1 DEF Neat, SentIsMarked
    <3>3. /\ \/ d \in G
             \/ Sending(h) /\ h.st # "mark"
             \/ d \in DOMAIN R /\ R[d].sent
             => rs[d].sent
          /\ rs[d].sent /\ ~AsksFor(E, d, "remove") =>
               /\ h.st \notin Settled => h.sent
               /\ h.st \in Settled /\ d \in DOMAIN R => R[d].sent
      BY <1>7, <2>2, <2>3, <3>2 DEF Sending
    <3>4. ASSUME NEW i \in 1 .. (n + 1), Asks(E, i, d, "mark")
          PROVE  Sending(h) \/ \E j \in 1 .. (n + 1) : i < j /\ Asks(E, j, d, "remove")
      <4>1. CASE d = c
        BY <2>2, <2>3, <4>1 DEF Sending
      <4>2. CASE d # c
        <5>1. i \in 1 .. n /\ Asks(D, i, d, "mark")
          BY <1>5, <1>6, <3>4, <4>2
        <5>2. Sending(g) \/ \E j \in 1 .. n : i < j /\ Asks(D, j, d, "remove")
          BY <1>5, <3>2, <5>1
        <5>3. 1 .. n \subseteq 1 .. (n + 1)
          BY <1>5
        <5> QED
          BY <1>6, <2>2, <4>2, <5>2, <5>3
      <4> QED
        BY <4>1, <4>2
    <3>5. ASSUME NEW i \in 1 .. (n + 1), TakesBack(E, i, d),
                 \A j \in 1 .. (i - 1) : ~Asks(E, j, d, "remove")
          PROVE  ~rs[d].sent /\ \A j \in 1 .. (i - 1) : ~Asks(E, j, d, "mark")
      <4>1. i \in 1 .. n /\ TakesBack(D, i, d) /\ 1 .. (i - 1) \subseteq 1 .. n
        BY <1>5, <1>7, <3>5
      <4>2. ~rs[d].sent /\ \A j \in 1 .. (i - 1) : ~Asks(D, j, d, "mark")
        BY <1>5, <1>6, <3>2, <3>5, <4>1
      <4> QED
        BY <1>6, <4>1, <4>2
    <3> QED
      BY <1>5, <3>1, <3>3, <3>4, <3>5, Zenon DEF SentIsMarked
  <2>7. StaysAway(h, E, rs, G, W, d)
    BY <1>7, <2>1, <2>2, <2>3 DEF Neat, StaysAway
  <2> QED
    BY <2>4, <2>5, <2>6, <2>7 DEF Neat, h
<1>9. NeatAll(U, rs, R, G, W)
  BY <1>2, <1>8 DEF NeatAll
<1> QED
  BY <1>2, <1>7, <1>9 DEF U, D

-----------------------------------------------------------------------------
(* What the page makes of the answers of the queue store.                  *)

(* It is left neat, and has asked for no other save.                       *)
StaysNeat(T, U, rs, R, G, W) ==
  /\ NeatAll(U, rs, R, G, W)
  /\ \A c \in Changes : AsksFor(U.disk, c, "save") => AsksFor(T.disk, c, "save")

(* A change of which there is no record settles.                           *)
LEMMA GoneNeat ==
  ASSUME NEW M \in Histories, NEW L, NEW B, NEW T \in Pages(M, L, B), NEW c \in Changes,
         NEW rs, NEW R, NEW G, NEW W, NeatAll(T, rs, R, G, W), c \notin DOMAIN rs,
         T.entry[c].st \notin Settled
  PROVE  StaysNeat(T, SettleElsewhere(T, c, T.entry[c].heard), rs, R, G, W)
<1> DEFINE X == {c}
           Y == {}
<1>1. T.entry[c].heard = None
  BY DEF NeatAll, Neat, EntryNeat
<1>2. SettleElsewhere(T, c, None) \in CalmPages(M, L, B, T, X, Y)
  BY SettleElsewhereCalm
<1>3. \A d \in X : d \notin DOMAIN rs
  OBVIOUS
<1>4. \A d \in Y : T.entry[d].st \notin Settled /\ ~T.entry[d].sent
  OBVIOUS
<1> HIDE DEF X, Y
<1> QED
  BY <1>1, <1>2, <1>3, <1>4, CalmKeeps DEF StaysNeat

LEMMA CalmNeat ==
  ASSUME NEW M \in Histories, NEW L, NEW B, NEW T \in Pages(M, L, B),
         NEW rs, NEW R, NEW G, NEW W, NeatAll(T, rs, R, G, W),
         NEW U \in CalmPages(M, L, B, T, {}, {})
  PROVE  StaysNeat(T, U, rs, R, G, W)
<1> DEFINE X == {}
<1>1. \A d \in X : d \notin DOMAIN rs /\ T.entry[d].st \notin Settled /\ ~T.entry[d].sent
  OBVIOUS
<1>2. U \in CalmPages(M, L, B, T, X, X)
  OBVIOUS
<1> HIDE DEF X
<1> QED
  BY <1>1, <1>2, CalmKeeps DEF StaysNeat

LEMMA LookedNeat ==
  ASSUME NEW M \in Histories, NEW L, NEW B, NEW T \in Pages(M, L, B), NEW c \in Changes,
         T.entry[c].st = "check", NEW rs, NEW R, NEW G, NEW W, NeatAll(T, rs, R, G, W),
         NEW present \in BOOLEAN, present <=> c \in DOMAIN rs
  PROVE  StaysNeat(T, Looked(T, c, present), rs, R, G, W)
<1>1. T.entry[c].st \notin Settled /\ T.entry[c].st \notin Settled \cup {"mark"}
  BY DEF Settled
<1>2. T.entry[c].heard = None /\ Neat(T.entry[c], T.disk, rs, R, G, W, c)
  BY <1>1 DEF NeatAll, Neat, EntryNeat
<1>3. CASE ~present
  BY <1>1, <1>3, GoneNeat DEF Looked
<1>4. CASE present /\ ~online
  <2>1. Park(T, c) \in CalmPages(M, L, B, T, {}, {})
    BY <1>1, ParkCalm
  <2> QED
    BY <1>2, <1>4, <2>1, CalmNeat DEF Looked
<1>5. CASE present /\ online /\ T.entry[c].sent
  <2>1. rs[c].sent
    BY <1>1, <1>2, <1>5 DEF Neat, SentIsMarked, Sending
  <2>2. NeatAll(Transmit(T, c), rs, R, G, W) /\ Transmit(T, c).disk = T.disk
    BY <1>5, <2>1, TransmitNeat
  <2> QED
    BY <1>2, <1>5, <2>2 DEF Looked, StaysNeat
<1>6. CASE present /\ online /\ ~T.entry[c].sent
  <2>1. Looked(T, c, present) = Marking(T, c)
    BY <1>2, <1>6, Zenon DEF Looked, Marking
  <2> QED
    BY <1>6, <2>1, AskMarkNeat DEF StaysNeat
<1> QED
  BY <1>3, <1>4, <1>5, <1>6

LEMMA MarkedNeat ==
  ASSUME NEW M \in Histories, NEW L, NEW B, NEW T \in Pages(M, L, B), NEW c \in Changes,
         T.entry[c].st = "mark", NEW rs, NEW R, NEW G, NEW W, NeatAll(T, rs, R, G, W),
         NEW present \in BOOLEAN, present <=> c \in DOMAIN rs, c \in DOMAIN rs => rs[c].sent
  PROVE  StaysNeat(T, Marked(T, c, present), rs, R, G, W)
<1>1. T.entry[c].st \notin Settled
  BY DEF Settled
<1>2. T.entry[c].heard = None /\ T.entry[c].sent
  BY <1>1 DEF NeatAll, Neat, EntryNeat
<1>3. CASE ~present
  BY <1>1, <1>3, GoneNeat DEF Marked
<1>4. CASE present
  <2>1. NeatAll(Transmit(T, c), rs, R, G, W) /\ Transmit(T, c).disk = T.disk
    BY <1>2, <1>4, TransmitNeat
  <2> QED
    BY <1>2, <1>4, <2>1 DEF Marked, StaysNeat
<1> QED
  BY <1>3, <1>4

LEMMA AnsweredNeat ==
  ASSUME NEW M \in Histories, NEW L, NEW B, NEW T \in Pages(M, L, B), NEW job \in Tasks(M, L),
         NEW rs, NEW R, NEW G, NEW W, NeatAll(T, rs, R, G, W),
         ~AsksFor(T.disk, job.id, "save"), NEW present \in BOOLEAN,
         IF job.op = "save" THEN present ELSE present <=> job.id \in DOMAIN rs,
         job.op = "mark" /\ job.id \in DOMAIN rs => rs[job.id].sent
  PROVE  StaysNeat(T, Answered(T, job, present), rs, R, G, W)
<1> DEFINE c == job.id
           E == T.entry[c]
           saves == [T EXCEPT !.entry[c].saved = IF present THEN "yes" ELSE "failed"]
           fixes == [T EXCEPT !.entry[c].fencing = IF present THEN "kept" ELSE "gone"]
           fixed == IF job.op = "fence" /\ E.st \notin Settled THEN fixes ELSE T
<1>1. c \in Changes
  BY DEF Tasks, Jobs
<1> HIDE DEF c
<1>2. E \in Entries /\ T.entry \in [Changes -> Entries] /\ T \in PageSet(M, L)
  BY <1>1, PageFacts
<1>3. Neat(E, T.disk, rs, R, G, W, c) /\ ~AsksFor(T.disk, c, "save")
  BY <1>1 DEF NeatAll, c
<1>4. job.op = "save" => StaysNeat(T, saves, rs, R, G, W)
  <2>1. SUFFICES ASSUME present
                 PROVE  StaysNeat(T, saves, rs, R, G, W)
    BY DEF c
  <2> DEFINE f == [E EXCEPT !.saved = "yes"]
  <2>2. saves.disk = T.disk /\ saves.entry = [T.entry EXCEPT ![c] = f]
    BY <1>2, <2>1 DEF PageSet
  <2>3. /\ f.st = E.st /\ f.stored = E.stored /\ f.heard = E.heard /\ f.sent = E.sent
        /\ f.saved = "yes" /\ f.fencing = E.fencing
    BY <1>2 DEF Entries
  <2> HIDE DEF saves, f, E
  <2>4. saves.entry[c] = f /\ \A d \in Changes : d # c => saves.entry[d] = T.entry[d]
    BY <1>1, <1>2, <2>2
  <2>5. EntryNeat(f)
    BY <1>3, <2>3 DEF Neat, EntryNeat
  <2>6. SaveComesFirst(f, T.disk, rs, R, G, c)
    BY <1>3 DEF SaveComesFirst, AsksFor
  <2>7. SentIsMarked(f, T.disk, rs, R, G, c)
    <3>1. Sending(f) <=> Sending(E)
      BY <2>3 DEF Sending
    <3> QED
      BY <1>3, <2>3, <3>1 DEF Neat, SentIsMarked
  <2>8. StaysAway(f, T.disk, rs, G, W, c)
    BY <1>3, <2>3 DEF Neat, StaysAway
  <2>9. Neat(saves.entry[c], T.disk, rs, R, G, W, c)
    BY <2>4, <2>5, <2>6, <2>7, <2>8 DEF Neat
  <2> QED
    BY <2>2, <2>4, <2>9, NeatEdit DEF StaysNeat
<1>5. job.op = "fence" => NeatAll(fixes, rs, R, G, W) /\ fixes \in Pages(M, L, B)
                          /\ fixes.disk = T.disk /\ fixes.entry[c].st = E.st
  <2>1. SUFFICES ASSUME job.op = "fence"
                 PROVE  NeatAll(fixes, rs, R, G, W) /\ fixes \in Pages(M, L, B)
                        /\ fixes.disk = T.disk /\ fixes.entry[c].st = E.st
    OBVIOUS
  <2> DEFINE fencing == IF present THEN "kept" ELSE "gone"
             f == [E EXCEPT !.fencing = fencing]
  <2>2. fixes = [T EXCEPT !.entry[c] = f] /\ fixes.disk = T.disk
        /\ fixes.entry = [T.entry EXCEPT ![c] = f]
    BY <1>2 DEF PageSet
  <2>3. /\ f.st = E.st /\ f.stored = E.stored /\ f.heard = E.heard /\ f.sent = E.sent
        /\ f.saved = E.saved /\ f.fencing = fencing /\ f.fence = E.fence /\ f \in Entries
    BY <1>2 DEF Entries
  <2>4. fencing = "gone" => c \notin DOMAIN rs
    BY <2>1 DEF c
  <2>5. ~M[c].first /\ EntryOK(M, L, B, c, E)
    BY <1>1, <2>1, PageFacts DEF Tasks, c
  <2> HIDE DEF fixes, f, fencing, E
  <2>6. EntryOK(M, L, B, c, f)
    BY <2>3, <2>5 DEF EntryOK
  <2>7. fixes \in Pages(M, L, B)
    BY <1>1, <2>2, <2>3, <2>6, WithEntry DEF E
  <2>8. fixes.entry[c] = f /\ \A d \in Changes : d # c => fixes.entry[d] = T.entry[d]
    BY <1>1, <1>2, <2>2
  <2>9. Neat(f, T.disk, rs, R, G, W, c)
    BY <1>3, <2>3, <2>4, LearntNeat
  <2>10. Neat(fixes.entry[c], T.disk, rs, R, G, W, c)
    BY <2>8, <2>9
  <2>11. NeatAll(fixes, rs, R, G, W)
    BY <2>2, <2>8, <2>10, NeatEdit
  <2> QED
    BY <2>2, <2>3, <2>7, <2>8, <2>11
<1> HIDE DEF saves, fixes
<1>6. /\ fixed \in Pages(M, L, B) /\ NeatAll(fixed, rs, R, G, W) /\ fixed.disk = T.disk
      /\ fixed.entry[c].st = E.st
  BY <1>5
<1> HIDE DEF fixed
<1>7. job.op # "save" => (present <=> c \in DOMAIN rs)
  BY DEF c
<1>8. E.st = "check" /\ job.op \in {"fence", "look"} => StaysNeat(T, Looked(fixed, c, present), rs, R, G, W)
  <2>1. SUFFICES ASSUME E.st = "check", present <=> c \in DOMAIN rs
                 PROVE  StaysNeat(T, Looked(fixed, c, present), rs, R, G, W)
    BY <1>7
  <2>2. StaysNeat(fixed, Looked(fixed, c, present), rs, R, G, W)
    BY <1>1, <1>6, <2>1, LookedNeat
  <2> QED
    BY <1>6, <2>2 DEF StaysNeat
<1>9. E.st = "mark" /\ job.op = "mark" => StaysNeat(T, Marked(T, c, present), rs, R, G, W)
  <2>1. SUFFICES ASSUME E.st = "mark", job.op = "mark"
                 PROVE  StaysNeat(T, Marked(T, c, present), rs, R, G, W)
    OBVIOUS
  <2>2. (present <=> c \in DOMAIN rs) /\ (c \in DOMAIN rs => rs[c].sent)
    BY <1>7, <2>1 DEF c
  <2> QED
    BY <1>1, <2>1, <2>2, MarkedNeat
<1>10. StaysNeat(T, T, rs, R, G, W) /\ StaysNeat(T, fixed, rs, R, G, W)
  BY <1>6 DEF StaysNeat
<1>11. Answered(T, job, present) =
         CASE job.op = "save" -> (IF E.st \in Settled THEN T ELSE saves)
           [] job.op \in {"fence", "look"} /\ E.st = "check" -> Looked(fixed, c, present)
           [] job.op = "mark" /\ E.st = "mark" -> Marked(T, c, present)
           [] OTHER -> fixed
  BY Zenon DEF Answered, fixed, saves, fixes, c
<1> HIDE DEF E
<1> QED
  BY <1>4, <1>8, <1>9, <1>10, <1>11

-----------------------------------------------------------------------------
(* The person's next change, of which nothing was asked or sent before.    *)

LEMMA JoiningIs ==
  ASSUME NEW T, NEW c
  PROVE  LET e == Joining(T, c)
         IN  /\ e.st = "queued" /\ e.stored = TRUE /\ e.saved = "no" /\ e.sent = FALSE
             /\ e.heard = None /\ e.fencing \in {"kept", "unset"}
<1> DEFINE kept == {i \in DOMAIN T.order : T.entry[T.order[i]].stored}
           after == IF kept = {} THEN None ELSE T.order[Max(kept)]
           fence == IF T.order = <<>> THEN T.known ELSE None
           fencing == IF T.order = <<>> THEN "kept" ELSE "unset"
<1>1. Joining(T, c) = [Absent EXCEPT !.st = "queued", !.stored = TRUE, !.after = after,
                                     !.fence = fence, !.fencing = fencing]
  BY Zenon DEF Joining
<1>2. fencing \in {"kept", "unset"}
  OBVIOUS
<1> HIDE DEF after, fence, fencing
<1> QED
  BY <1>1, <1>2 DEF Absent

Joins(T, J, c) ==
  /\ J.entry[c] = Joining(T, c)
  /\ \A d \in Changes : d # c => J.entry[d] = Sweep(T).entry[d]
  /\ \E job : /\ J.disk = Append(Sweep(T).disk, job)
              /\ job.op = "save" /\ job.id = c /\ job.rec.sent = FALSE

LEMMA JoinedIs ==
  ASSUME NEW M \in Histories, NEW L, NEW B, NEW T \in Pages(M, L, B), NEW c \in Changes
  PROVE  Joins(T, Joined(T, c), c)
<1> DEFINE V == Sweep(T)
           e == Joining(T, c)
           q == Append(V.order, c)
           W == [V EXCEPT !.entry[c] = e, !.order = q, !.hears = TRUE]
           rec == RecordOf(W, c)
           job == [op |-> "save", id |-> c, rec |-> rec]
<1>1. Joined(T, c) = Ask(W, job)
  BY Zenon DEF Joined
<1>2. rec.sent = FALSE
  BY DEF RecordOf
<1>3. V \in PageSet(M, L) /\ V.entry \in [Changes -> Entries] /\ V.disk \in Seq(Tasks(M, L))
  BY SweepKeeps, PageFacts
<1> HIDE DEF V, e, rec, q
<1>4. W.disk = V.disk /\ W.entry = [V.entry EXCEPT ![c] = e]
  BY <1>3 DEF PageSet
<1>5. W.entry[c] = e /\ \A d \in Changes : d # c => W.entry[d] = V.entry[d]
  BY <1>3, <1>4
<1>7. Ask(W, job).entry = W.entry /\ Ask(W, job).disk = Append(V.disk, job)
  <2> HIDE DEF job
  <2>1. /\ Ask(W, job).entry = [V.entry EXCEPT ![c] = e]
        /\ Ask(W, job).disk = Append(V.disk, job)
    BY <1>3 DEF PageSet, Ask
  <2> QED
    BY <1>4, <2>1
<1> HIDE DEF W
<1>8. job.op = "save" /\ job.id = c /\ job.rec.sent = FALSE
  BY <1>2
<1> HIDE DEF job
<1> QED
  BY <1>1, <1>5, <1>7, <1>8 DEF V, e, Joins

LEMMA DispatchedNeat ==
  ASSUME NEW M \in Histories, Len(M) < MaxChanges, NEW L, NEW B, NEW T \in Pages(M, L, B),
         T.known \in Versions, NEW offline \in BOOLEAN, NEW rs, DOMAIN rs \subseteq DOMAIN M,
         NEW R, DOMAIN R \subseteq DOMAIN M, NEW G, G \subseteq DOMAIN M,
         NEW W, W \subseteq DOMAIN M, NeatAll(T, rs, R, G, W)
  PROVE  LET U == Dispatched(T, Len(M) + 1)
         IN  /\ NeatAll(U, rs, R, G, W)
             /\ \A d \in DOMAIN M : AsksFor(U.disk, d, "save") => AsksFor(T.disk, d, "save")
<1> DEFINE m == [on |-> T.known, offline |-> offline, first |-> T.order = <<>>]
           N == Append(M, m)
           c == Len(M) + 1
           V == Sweep(T)
           J == Joined(T, c)
           S == Tasks(N, L)
<1>1. /\ N \in Histories /\ DOMAIN M \subseteq DOMAIN N /\ \A d \in DOMAIN M : N[d] = M[d]
      /\ J \in Pages(N, L, B) /\ Dispatched(T, c) = Pump(J)
  BY DispatchedKeeps
<1> HIDE DEF N
<1>2. c \in Changes /\ c \notin DOMAIN M /\ DOMAIN M \subseteq Changes
  BY HistoryFacts, ReaderAssumption DEF Changes
<1> HIDE DEF c
<1>3. V \in CalmPages(M, L, B, T, {}, {}) /\ V.disk = T.disk
  BY SweepCalm
<1>4. NeatAll(V, rs, R, G, W)
  BY <1>3, CalmNeat DEF StaysNeat
<1>15. Joins(T, J, c)
  BY <1>2, JoinedIs
<1> HIDE DEF J
<1>5. PICK job : /\ J.disk = Append(V.disk, job)
                 /\ job.op = "save" /\ job.id = c /\ job.rec.sent = FALSE
  BY <1>15 DEF Joins
<1>6. J.entry[c] = Joining(T, c) /\ \A d \in Changes : d # c => J.entry[d] = V.entry[d]
  BY <1>15 DEF Joins
<1>7. V.disk \in Seq(Tasks(M, L)) /\ \A i \in DOMAIN V.disk : V.disk[i].id \in DOMAIN M
  <2>1. V.disk \in Seq(Tasks(M, L))
    BY <1>3, PageFacts
  <2> QED
    BY <2>1 DEF Tasks
<1>8. V.disk \in Seq(S) /\ J.disk \in Seq(S)
  <2>1. Tasks(M, L) \subseteq S
    BY <1>1, PagesGrow
  <2>2. V.disk \in Seq(S)
    BY <1>7, <2>1
  <2> HIDE DEF S
  <2> QED
    BY <1>1, <2>2, PageFacts DEF S
<1> HIDE DEF V, J, S
<1> DEFINE n == Len(V.disk)
<1>9. /\ n \in Nat /\ DOMAIN V.disk = 1 .. n /\ DOMAIN J.disk = 1 .. (n + 1)
      /\ Len(J.disk) = n + 1
      /\ J.disk[n + 1] = job /\ \A i \in 1 .. n : J.disk[i] = V.disk[i]
  <2> DEFINE K == Tasks(M, L)
  <2>1. V.disk \in Seq(K)
    BY <1>7
  <2> HIDE DEF K
  <2> QED
    BY <1>5, <2>1
<1> HIDE DEF n
<1>10. ASSUME NEW d \in Changes, d # c
       PROVE  Neat(J.entry[d], J.disk, rs, R, G, W, d)
  <2> DEFINE X == {}
  <2>1. V.entry[d].st \notin Settled /\ J.entry[d].st \in Settled => FALSE
    BY <1>6, <1>10
  <2>2. J.entry[d].st \notin Settled => CalmEntry(V.entry[d], J.entry[d])
    BY <1>6, <1>10 DEF CalmEntry
  <2>3. \A i \in DOMAIN J.disk : i \notin DOMAIN V.disk => i = n + 1
    BY <1>9
  <2>4. \A i \in DOMAIN J.disk : i \notin DOMAIN V.disk => J.disk[i].id # d
    BY <1>5, <1>9, <1>10, <2>3
  <2>5. Len(V.disk) <= Len(J.disk) /\ \A i \in DOMAIN V.disk : J.disk[i] = V.disk[i]
    BY <1>9 DEF n
  <2>6. Calm(V, J, X, X, d)
    BY <2>1, <2>2, <2>4, <2>5 DEF Calm
  <2>7. Neat(V.entry[d], V.disk, rs, R, G, W, d)
    BY <1>4 DEF NeatAll
  <2>8. d \notin X
    OBVIOUS
  <2> HIDE DEF X
  <2> QED
    BY <1>8, <2>6, <2>7, <2>8, NeatCalm
<1>11. Neat(J.entry[c], J.disk, rs, R, G, W, c)
  <2> DEFINE e == Joining(T, c)
             D == J.disk
  <2>1. /\ e.st = "queued" /\ e.stored = TRUE /\ e.saved = "no" /\ e.sent = FALSE
        /\ e.heard = None /\ e.fencing \in {"kept", "unset"}
    BY JoiningIs
  <2>2. c \notin DOMAIN rs /\ c \notin DOMAIN R /\ c \notin G /\ c \notin W
    BY <1>2
  <2>3. \A i \in DOMAIN D : D[i].id = c => i = n + 1 /\ D[i] = job
    BY <1>2, <1>7, <1>9
  <2>4. \A i \in DOMAIN D : D[i].id = c => D[i].op = "save" /\ D[i].rec.sent = FALSE
    BY <1>5, <2>3
  <2>5. \A i \in DOMAIN D : D[i].id = c => \A j \in 1 .. (i - 1) : D[j].id # c
    <3>1. \A j \in 1 .. n : D[j].id # c
      BY <1>2, <1>7, <1>9
    <3> QED
      BY <1>9, <2>3, <3>1
  <2> HIDE DEF e, D
  <2>6. EntryNeat(e)
    BY <2>1 DEF EntryNeat
  <2>7. SaveComesFirst(e, D, rs, R, G, c)
    BY <2>1, <2>2, <2>4, <2>5 DEF SaveComesFirst, Asks, AsksFor
  <2>8. SentIsMarked(e, D, rs, R, G, c)
    BY <2>2 DEF SentIsMarked
  <2>9. StaysAway(e, D, rs, G, W, c)
    BY <2>1, <2>2 DEF StaysAway
  <2> QED
    BY <1>6, <2>6, <2>7, <2>8, <2>9 DEF Neat, e, D
<1>12. NeatAll(J, rs, R, G, W)
  BY <1>10, <1>11 DEF NeatAll
<1>13. StaysNeat(J, Pump(J), rs, R, G, W)
  BY <1>1, <1>12, PumpCalm, CalmNeat
<1>14. ASSUME NEW d \in DOMAIN M, AsksFor(Pump(J).disk, d, "save")
       PROVE  AsksFor(T.disk, d, "save")
  <2>1. d \in Changes /\ d # c
    BY <1>2
  <2>2. PICK i \in DOMAIN J.disk : Asks(J.disk, i, d, "save")
    BY <1>13, <1>14, <2>1 DEF StaysNeat, AsksFor
  <2>3. i \in DOMAIN V.disk
    BY <1>5, <1>9, <2>1, <2>2 DEF Asks
  <2> QED
    BY <1>3, <1>9, <2>2, <2>3 DEF AsksFor, Asks
<1> QED
  BY <1>1, <1>13, <1>14 DEF StaysNeat, c

-----------------------------------------------------------------------------
(* What a replay shows again, and what it loses.                           *)

Restores(T, U, c, rec) ==
  /\ U.disk = T.disk /\ \A d \in Changes : d # c => U.entry[d] = T.entry[d]
  /\ LET e == U.entry[c]
     IN  /\ e.st = "waiting" /\ e.stored = TRUE /\ e.saved = "yes" /\ e.sent = rec.sent
         /\ e.heard = None /\ e.fencing \in {"kept", "unset"}

LEMMA RestoredIs ==
  ASSUME NEW M \in Histories, NEW L, NEW B, NEW T \in Pages(M, L, B), NEW c \in Changes,
         NEW rec \in RecordSet
  PROVE  Restores(T, RestoreEntry(T, c, rec), c, rec)
<1> DEFINE seen == Learn(T, rec.on)
           younger == {i \in DOMAIN T.order : T.order[i] > c}
           first == IF younger = {} THEN Len(T.order) + 1
                    ELSE CHOOSE i \in younger : \A j \in younger : i <= j
           at == IF first = 1 /\ T.order # <<>>
                    /\ T.entry[Head(T.order)].st \in {"saving", "turn"} \cup InExchange
                 THEN 2 ELSE first
           follows == \E i \in 1..(at - 1) : T.entry[T.order[i]].stored
           fence == IF rec.fence # None \/ follows THEN rec.fence ELSE rec.on
           fencing == IF rec.fence = None THEN "unset" ELSE "kept"
           sent == rec.sent
           after == rec.after
           entry == [Absent EXCEPT
                       !.st = "waiting", !.stored = TRUE, !.saved = "yes", !.sent = sent,
                       !.fence = fence, !.fencing = fencing, !.after = after, !.replayed = TRUE]
           q == InsertAt(seen.order, at, c)
           U == [seen EXCEPT !.entry[c] = entry, !.order = q, !.hears = TRUE]
<1>1. RestoreEntry(T, c, rec) = U
  BY Zenon DEF RestoreEntry
<1>2. rec.on \in Versions
  BY DEF RecordSet
<1>3. fencing \in {"kept", "unset"}
  OBVIOUS
<1> HIDE DEF at, follows, fence, fencing, sent, after, q
<1>4. /\ entry.st = "waiting" /\ entry.stored = TRUE /\ entry.saved = "yes" /\ entry.sent = sent
      /\ entry.heard = None /\ entry.fencing = fencing
  BY DEF Absent
<1> HIDE DEF entry
<1>5. seen \in Pages(M, L, B) /\ seen.disk = T.disk /\ seen.entry = T.entry
  <2> DEFINE X == {}
             v == rec.on
  <2>1. v \in Versions
    BY <1>2
  <2> HIDE DEF X, v
  <2>2. Learn(T, v) \in CalmPages(M, L, B, T, X, X) /\ Learn(T, v).disk = T.disk
    BY <2>1, LearnCalm
  <2>3. Learn(T, v) \in Pages(M, L, B) /\ Learn(T, v).entry = T.entry
    BY <2>1, LearnKeeps
  <2> QED
    BY <2>2, <2>3 DEF v
<1> HIDE DEF seen
<1>6. seen \in PageSet(M, L) /\ T.entry \in [Changes -> Entries]
  BY <1>5, PageFacts
<1>7. U.disk = T.disk /\ U.entry = [T.entry EXCEPT ![c] = entry]
  BY <1>5, <1>6 DEF PageSet
<1> HIDE DEF U
<1>8. U.entry[c] = entry /\ \A d \in Changes : d # c => U.entry[d] = T.entry[d]
  BY <1>6, <1>7
<1>9. Restores(T, U, c, rec)
  BY <1>3, <1>4, <1>7, <1>8 DEF Restores, sent
<1> QED
  BY <1>1, <1>9

LEMMA RestoredNeat ==
  ASSUME NEW M \in Histories, NEW L, NEW B, NEW T \in Pages(M, L, B), NEW c \in Changes,
         T.entry[c].st = "none", NEW rs, NEW R, NEW G, NEW W, NeatAll(T, rs, R, G, W),
         NEW rec \in RecordSet,
         \/ c \in DOMAIN rs /\ rec = rs[c]
         \/ c \in DOMAIN R /\ rec = R[c]
  PROVE  StaysNeat(T, RestoreEntry(T, c, rec), rs, R, G, W)
<1> DEFINE U == RestoreEntry(T, c, rec)
           e == T.entry[c]
           f == U.entry[c]
           D == T.disk
<1>1. Restores(T, U, c, rec)
  BY RestoredIs
<1> HIDE DEF U
<1>2. U.disk = D /\ \A d \in Changes : d # c => U.entry[d] = T.entry[d]
  BY <1>1 DEF Restores
<1>3. /\ f.st = "waiting" /\ f.stored = TRUE /\ f.saved = "yes" /\ f.sent = rec.sent
      /\ f.heard = None /\ f.fencing \in {"kept", "unset"}
  BY <1>1 DEF Restores
<1>4. Neat(e, D, rs, R, G, W, c) /\ e.st \in Settled
  BY DEF NeatAll, Settled
<1> HIDE DEF e, f, D
<1>5. EntryNeat(f)
  BY <1>3 DEF EntryNeat
<1>6. SaveComesFirst(f, D, rs, R, G, c)
  BY <1>4 DEF Neat, SaveComesFirst
<1>7. SentIsMarked(f, D, rs, R, G, c)
  <2>1. ~Sending(e) /\ (Sending(f) => rec.sent) /\ f.st \notin Settled
    BY <1>3, <1>4 DEF Sending, Settled
  <2>2. SentIsMarked(e, D, rs, R, G, c)
    BY <1>4 DEF Neat
  <2>3. c \in DOMAIN rs =>
          /\ rec.sent => rs[c].sent
          /\ rs[c].sent /\ ~AsksFor(D, c, "remove") => rec.sent
    BY <1>4, <2>2 DEF SentIsMarked
  <2> QED
    BY <1>3, <2>1, <2>2, <2>3 DEF SentIsMarked
<1>8. StaysAway(f, D, rs, G, W, c)
  BY <1>3, <1>4 DEF Neat, StaysAway
<1>9. Neat(U.entry[c], T.disk, rs, R, G, W, c)
  BY <1>5, <1>6, <1>7, <1>8 DEF Neat, f, D
<1>10. NeatAll(U, rs, R, G, W)
  BY <1>2, <1>9, NeatEdit DEF D
<1> QED
  BY <1>2, <1>10 DEF StaysNeat, U, D

LEMMA AdoptNeat ==
  ASSUME NEW M \in Histories, NEW L, NEW B, NEW T \in Pages(M, L, B),
         NEW recs \in Recordings(M), NEW old,
         NEW rs, NEW R, NEW G, NEW W, NeatAll(T, rs, R, G, W), recs = rs \/ recs = R,
         \A c \in Changes : c \in old /\ c \notin DOMAIN recs => c \notin DOMAIN rs
  PROVE  StaysNeat(T, Adopt(T, recs, old), rs, R, G, W)
<1> DEFINE X == {U \in Pages(M, L, B) : StaysNeat(T, U, rs, R, G, W)}
           lost == Losses(recs, old, T, InOrder)
           shown == FoldLeft(LAMBDA U, c : IF c \in DOMAIN recs /\ U.entry[c].st = "none"
                                           THEN RestoreEntry(U, c, recs[c]) ELSE U,
                             lost, InOrder)
<1>1. ASSUME NEW U \in X, NEW c \in Changes
      PROVE  Lost(recs, old, U, c) \in X
  <2>1. U \in Pages(M, L, B) /\ StaysNeat(T, U, rs, R, G, W)
    OBVIOUS
  <2> DEFINE V == SettleElsewhere(U, c, None)
  <2>2. CASE /\ c \in old /\ c \in Durable(U) /\ c \notin DOMAIN recs
             /\ U.entry[c].st \in {"waiting", "queued"}
    <3>1. V \in Pages(M, L, B)
      BY <2>1, SettleElsewhereKeeps
    <3>2. NeatAll(U, rs, R, G, W) /\ U.entry[c].st \notin Settled /\ c \notin DOMAIN rs
      BY <2>1, <2>2 DEF StaysNeat, Settled
    <3>3. U.entry[c].heard = None
      BY <3>2 DEF NeatAll, Neat, EntryNeat
    <3>4. StaysNeat(U, V, rs, R, G, W)
      BY <2>1, <3>2, <3>3, GoneNeat
    <3>5. StaysNeat(T, V, rs, R, G, W)
      BY <2>1, <3>4 DEF StaysNeat
    <3> QED
      BY <2>2, <3>1, <3>5 DEF Lost
  <2>3. CASE ~ (/\ c \in old /\ c \in Durable(U) /\ c \notin DOMAIN recs
                /\ U.entry[c].st \in {"waiting", "queued"})
    BY <2>3 DEF Lost
  <2> QED
    BY <2>2, <2>3
<1>2. ASSUME NEW U \in X, NEW c \in Changes
      PROVE  Shown(recs, U, c) \in X
  <2>1. U \in Pages(M, L, B) /\ StaysNeat(T, U, rs, R, G, W)
    OBVIOUS
  <2> DEFINE V == RestoreEntry(U, c, recs[c])
  <2>2. CASE c \in DOMAIN recs /\ U.entry[c].st = "none"
    <3>1. c \in DOMAIN M /\ RecordOK(M, c, recs[c]) /\ recs[c] \in RecordSet
      BY <2>2, RecordingFacts DEF RecordOK
    <3>2. V \in Pages(M, L, B)
      BY <2>1, <2>2, <3>1, RestoreEntryKeeps
    <3>3. NeatAll(U, rs, R, G, W)
      BY <2>1 DEF StaysNeat
    <3>4. StaysNeat(U, V, rs, R, G, W)
      BY <2>1, <2>2, <3>1, <3>3, RestoredNeat
    <3>5. StaysNeat(T, V, rs, R, G, W)
      BY <2>1, <3>4 DEF StaysNeat
    <3> QED
      BY <2>2, <3>2, <3>5 DEF Shown
  <2>3. CASE ~(c \in DOMAIN recs /\ U.entry[c].st = "none")
    BY <2>3 DEF Shown
  <2> QED
    BY <2>2, <2>3
<1>3. T \in X
  BY DEF StaysNeat
<1>4. lost \in X
  <2> HIDE DEF X
  <2> QED
    BY <1>1, <1>3, InOrderIs, LossesKeep
<1>5. shown \in X
  <2> HIDE DEF X, lost
  <2> QED
    BY <1>2, <1>4, InOrderIs, ShowsKeep
<1>6. Adopt(T, recs, old) = shown
  BY Zenon DEF Adopt, Losses
<1> QED
  BY <1>5, <1>6

-----------------------------------------------------------------------------
(* The inductive invariant of a device with one page, in a run in which    *)
(* the queue store has done all it was asked.                              *)

Listing(R) == IF R.pc = "listed" THEN R.recs ELSE << >>

Gone == {c \in Changes : InLog(c) \/ \E r \in net : r.id = c}

(* What the page had kept when the records were listed, and was not among  *)
(* them, has no record and will have none.                                 *)
OldGone(T, rs, R, M) ==
  R.pc = "listed" => \A c \in R.old :
    c \in DOMAIN M /\ (c \notin DOMAIN R.recs => c \notin DOMAIN rs /\ ~AsksFor(T.disk, c, "save"))

NeatPage(t) ==
  /\ chan[t] = <<>> /\ withdrawn \subseteq DOMAIN made
  /\ NeatAll(tab[t], records, Listing(replay[t]), Gone, withdrawn)
  /\ OldGone(tab[t], records, replay[t], made)

LEMMA ListingIs ==
  ASSUME ReaderInv, NEW t \in Tabs
  PROVE  /\ DOMAIN Listing(replay[t]) \subseteq DOMAIN made
         /\ DOMAIN records \subseteq DOMAIN made /\ Gone \subseteq DOMAIN made
         /\ DOMAIN made \subseteq Changes
<1>1. made \in Histories /\ records \in Recordings(made) /\ replay[t].recs \in Recordings(made)
      /\ net \subseteq Requests(made) /\ Landed \subseteq DOMAIN made
  BY InvFacts, ReplayFacts DEF ServerInv
<1>2. DOMAIN records \subseteq DOMAIN made /\ DOMAIN replay[t].recs \subseteq DOMAIN made
      /\ DOMAIN made \subseteq Changes
  BY <1>1, RecordingFacts, HistoryFacts
<1>3. DOMAIN Listing(replay[t]) \subseteq DOMAIN made
  BY <1>2 DEF Listing
<1>4. Gone \subseteq DOMAIN made
  BY <1>1 DEF Gone, Landed, Requests
<1> QED
  BY <1>2, <1>3, <1>4

(* A step of the page that writes nothing, and after which no change has   *)
(* come on its way but those it sends.                                     *)
LEMMA PageStaysNeat ==
  ASSUME NEW t \in Tabs, NeatPage(t), NEW T, tab'[t] = T,
         StaysNeat(tab[t], T, records, Listing(replay[t]), Gone, withdrawn),
         UNCHANGED <<made, chan, records, withdrawn>>,
         \A c \in Gone' : c \in Gone \/ T.entry[c].st = "sending",
         replay'[t] = replay[t] \/ replay'[t].pc # "listed", DOMAIN made \subseteq Changes
  PROVE  NeatPage(t)'
<1> DEFINE Q == Listing(replay'[t])
           H == Gone'
           R == Listing(replay[t])
           G == Gone
           rs == records
           W == withdrawn
           Y == replay'[t]
<1>1. NeatAll(T, rs, R, G, W)
      /\ \A c \in Changes : AsksFor(T.disk, c, "save") => AsksFor(tab[t].disk, c, "save")
  BY DEF StaysNeat
<1>2. Q = R \/ DOMAIN Q = {}
  BY DEF Listing
<1>3. \A c \in H : c \in G \/ T.entry[c].st = "sending"
  OBVIOUS
<1>4. OldGone(T, rs, Y, made)
  BY <1>1 DEF NeatPage, OldGone
<1> HIDE DEF Q, H, R, G, rs, W, Y
<1>5. NeatAll(T, rs, Q, H, W)
  BY <1>1, <1>2, <1>3, OnItsWay
<1>6. NeatAll(tab'[t], records', Listing(replay'[t]), Gone', withdrawn')
  BY <1>5 DEF Q, H, rs, W
<1>7. OldGone(tab'[t], records', replay'[t], made')
  BY <1>4 DEF rs, Y
<1> QED
  BY <1>6, <1>7 DEF NeatPage

(* The same, when the step is calm.                                        *)
LEMMA CalmStep ==
  ASSUME ReaderInv, NEW t \in Tabs, NeatPage(t), NEW T, tab'[t] = T,
         T \in CalmPages(made, Landed, Grip(t), tab[t], {}, {}),
         UNCHANGED <<made, chan, records, withdrawn>>,
         \A c \in Gone' : c \in Gone \/ T.entry[c].st = "sending",
         replay'[t] = replay[t] \/ replay'[t].pc # "listed"
  PROVE  NeatPage(t)'
<1>1. StaysNeat(tab[t], T, records, Listing(replay[t]), Gone, withdrawn)
  <2> DEFINE rs == records
             R == Listing(replay[t])
             G == Gone
             W == withdrawn
             T0 == tab[t]
             L == Landed
             B == Grip(t)
  <2>1. made \in Histories /\ T0 \in Pages(made, L, B) /\ NeatAll(T0, rs, R, G, W)
        /\ T \in CalmPages(made, L, B, T0, {}, {})
    BY InvFacts DEF NeatPage
  <2> HIDE DEF rs, R, G, W, T0, L, B
  <2>2. StaysNeat(T0, T, rs, R, G, W)
    BY <2>1, CalmNeat
  <2> QED
    BY <2>2 DEF rs, R, G, W, T0
<1> QED
  BY <1>1, ListingIs, PageStaysNeat

LEMMA GoneStays ==
  ASSUME UNCHANGED log, NEW T, \A r \in net' : r \in net \/ T.entry[r.id].st = "sending"
  PROVE  \A c \in Gone' : c \in Gone \/ T.entry[c].st = "sending"
BY DEF Gone, InLog

(* What the page has just sent is on its way.                              *)
LEMMA SentIsGone ==
  ASSUME NEW t \in Tabs, UNCHANGED log, net' = net \cup Sent(t)
  PROVE  \A c \in Gone' : c \in Gone \/ tab'[t].entry[c].st = "sending"
<1>1. \A r \in Sent(t) : tab'[t].entry[r.id].st = "sending"
  BY DEF Sent, Request
<1>2. \A c \in Gone' : InLog(c) \/ \E r \in net \cup Sent(t) : r.id = c
  BY DEF Gone, InLog
<1> QED
  BY <1>1, <1>2 DEF Gone

(* Each step of the page leaves it neat.                                   *)

LEMMA UndoNeat ==
  ASSUME ReaderInv, NEW t \in Tabs, NeatPage(t), NEW c \in Changes, Undo(t, c)
  PROVE  NeatPage(t)'
<1> DEFINE T0 == tab[t]
           T == Cancelled(T0, c)
           rs == records
           R == Listing(replay[t])
           G == Gone
           W == withdrawn
           L == Landed
           B == Grip(t)
           X == {}
           Y == {c}
<1>1. made \in Histories /\ T0 \in Pages(made, L, B) /\ NeatAll(T0, rs, R, G, W)
      /\ Cancellable(T0, c)
  BY InvFacts DEF NeatPage, Undo
<1>2. T0.entry[c].st \notin Settled /\ T0.entry[c].stored /\ ~T0.entry[c].sent
  BY <1>1 DEF Cancellable, NeatAll, Neat, EntryNeat, Settled
<1>3. /\ tab'[t] = T /\ replay'[t] = replay[t] /\ UNCHANGED <<made, chan, records, withdrawn, log, net>>
  BY InvFacts DEF Undo, Page, Become, PagesInv, deviceVars, netVars, serverVars
<1>4. /\ \A d \in X : d \notin DOMAIN rs
      /\ \A d \in Y : T0.entry[d].st \notin Settled /\ ~T0.entry[d].sent
  BY <1>2
<1> HIDE DEF T0, rs, R, G, W, L, B
<1>5. T \in CalmPages(made, L, B, T0, X, Y)
  BY <1>1, <1>2, CancelledCalm
<1> HIDE DEF T, X, Y
<1>6. StaysNeat(T0, T, rs, R, G, W)
  BY <1>1, <1>4, <1>5, CalmKeeps DEF StaysNeat
<1>7. \A d \in Gone' : d \in Gone \/ T.entry[d].st = "sending"
  BY <1>3, GoneStays
<1> QED
  BY <1>3, <1>6, <1>7, ListingIs, PageStaysNeat DEF T0, rs, R, G, W

LEMMA ResumeNeat ==
  ASSUME ReaderInv, NEW t \in Tabs, NeatPage(t), NEW c \in Changes, Resume(t, c)
  PROVE  NeatPage(t)'
<1> DEFINE T0 == tab[t]
           V == [T0 EXCEPT !.entry[c].stored = @ /\ T0.entry[c].saved = "yes"]
           T == IF V.entry[c].stored
                THEN IF online THEN [V EXCEPT !.entry[c].st = "turn"] ELSE Park(V, c)
                ELSE IF online THEN Transmit(V, c)
                ELSE Settle(V, c, Note(c, "unsent", None))
           L == Landed
           B == Grip(t)
<1>1. /\ made \in Histories /\ T0 \in Pages(made, L, B) /\ T0.entry[c].st = "saving"
      /\ T0.entry[c].stored => T0.entry[c].saved # "no"
      /\ Neat(T0.entry[c], T0.disk, records, Listing(replay[t]), Gone, withdrawn, c)
  BY InvFacts DEF NeatPage, NeatAll, Resume
<1>2. T0.entry[c].stored = TRUE /\ T0.entry[c].saved = "yes"
  <2>1. T0.entry[c] \in Entries
    BY <1>1, PageFacts
  <2> QED
    BY <1>1, <2>1 DEF Neat, EntryNeat, Settled, Entries
<1>3. tab'[t] = T /\ replay'[t] = replay[t]
  <2>1. Page(t, T)
    BY Zenon DEF Resume
  <2> HIDE DEF T
  <2> QED
    BY <2>1, InvFacts DEF Page, Become, PagesInv
<1>4. UNCHANGED <<made, chan, records, withdrawn, log>> /\ net' = net \cup Sent(t)
  BY DEF Resume, deviceVars, serverVars
<1> HIDE DEF T0
<1>5. V = T0
  <2> DEFINE e == T0.entry[c]
  <2>1. T0 \in PageSet(made, L) /\ T0.entry \in [Changes -> Entries] /\ e \in Entries
    BY <1>1, PageFacts
  <2>2. [e EXCEPT !.stored = TRUE] = e
    BY <1>2, <2>1 DEF Entries
  <2>3. [T0.entry EXCEPT ![c] = e] = T0.entry
    BY <2>1
  <2>4. [T0 EXCEPT !.entry = T0.entry] = T0
    BY <2>1 DEF PageSet
  <2>5. V = [T0 EXCEPT !.entry = [T0.entry EXCEPT ![c] = [e EXCEPT !.stored = TRUE]]]
    BY <1>2, <2>1 DEF PageSet
  <2> QED
    BY <2>2, <2>3, <2>4, <2>5
<1> HIDE DEF V
<1>6. T \in CalmPages(made, L, B, T0, {}, {})
  <2>1. T0.entry[c].st \notin Settled \cup {"mark"}
    BY <1>1 DEF Settled
  <2>2. [T0 EXCEPT !.entry[c].st = "turn"] \in CalmPages(made, L, B, T0, {}, {})
    BY <1>1, <2>1, RestatedCalm
  <2>3. Park(T0, c) \in CalmPages(made, L, B, T0, {}, {})
    BY <1>1, <2>1, ParkCalm
  <2> QED
    BY <1>2, <1>5, <2>2, <2>3
<1> HIDE DEF T
<1>7. \A d \in Gone' : d \in Gone \/ T.entry[d].st = "sending"
  BY <1>3, <1>4, SentIsGone
<1> QED
  BY <1>3, <1>4, <1>6, <1>7, CalmStep DEF T0, L, B

LEMMA AcquireNeat ==
  ASSUME ReaderInv, NEW t \in Tabs, NeatPage(t), NEW c \in Changes, Acquire(t, c)
  PROVE  NeatPage(t)'
<1> DEFINE T0 == tab[t]
           V == [T0 EXCEPT !.entry[c].st = "check"]
           T == CASE V.entry[c].fencing = "unset" -> FixFence(V, c)
                  [] V.entry[c].fencing = "writing" -> V
                  [] V.entry[c].fencing = "kept" -> Ask(V, [op |-> "look", id |-> c])
                  [] V.entry[c].fencing = "gone" -> SettleElsewhere(V, c, V.entry[c].heard)
           rs == records
           R == Listing(replay[t])
           G == Gone
           W == withdrawn
           L == Landed
           C == Changes
<1>1. /\ made \in Histories /\ T0.entry[c].st = "turn" /\ NeatAll(T0, rs, R, G, W)
      /\ T0 \in Pages(made, L, C) /\ tab'[t] = T
  <2>1. tab' = [tab EXCEPT ![t] = T]
    BY Zenon DEF Acquire
  <2> HIDE DEF T
  <2> QED
    BY <2>1, InvFacts DEF Acquire, NeatPage, PagesInv
<1>2. UNCHANGED <<made, chan, records, withdrawn, log, net, replay>>
  BY DEF Acquire, deviceVars, netVars, serverVars
<1> HIDE DEF T0, rs, R, G, W, L, C
<1>3. V \in CalmPages(made, L, C, T0, {}, {}) /\ V.entry[c].st = "check"
  <2>1. V \in CalmPages(made, L, C, T0, {}, {})
    BY <1>1, RestatedCalm DEF Settled, C
  <2>2. T0 \in PageSet(made, L) /\ T0.entry \in [Changes -> Entries] /\ T0.entry[c] \in Entries
    BY <1>1, PageFacts
  <2> QED
    BY <2>1, <2>2 DEF PageSet, Entries
<1> HIDE DEF V
<1>4. V \in Pages(made, L, C) /\ StaysNeat(T0, V, rs, R, G, W) /\ V.entry[c].st \notin Settled
  BY <1>1, <1>3, CalmNeat, CalmIs DEF Settled
<1>5. NeatAll(V, rs, R, G, W) /\ V.entry[c].fencing \in {"unset", "writing", "kept", "gone"}
  <2>1. V.entry[c] \in Entries
    BY <1>1, <1>4, PageFacts
  <2> QED
    BY <1>4, <2>1 DEF StaysNeat, Entries
<1>6. StaysNeat(V, FixFence(V, c), rs, R, G, W)
  <2>1. FixFence(V, c) \in CalmPages(made, L, C, V, {}, {})
    BY <1>1, <1>4, FixFenceCalm
  <2> QED
    BY <1>1, <1>4, <1>5, <2>1, CalmNeat
<1>7. StaysNeat(V, Ask(V, [op |-> "look", id |-> c]), rs, R, G, W)
  <2> DEFINE job == [op |-> "look", id |-> c]
             X == {}
  <2>1. c \in DOMAIN made
    BY <1>1, <1>4, PageFacts DEF EntryOK
  <2>2. job \in Tasks(made, L) /\ CalmJob(job, X)
    BY <2>1 DEF Tasks, Jobs, CalmJob
  <2> HIDE DEF job, X
  <2>3. Ask(V, job) \in CalmPages(made, L, C, V, X, X)
    BY <1>1, <1>4, <2>2, CalmAsk
  <2>4. StaysNeat(V, Ask(V, job), rs, R, G, W)
    BY <1>1, <1>4, <1>5, <2>3, CalmNeat DEF X
  <2> QED
    BY <2>4 DEF job
<1>8. V.entry[c].fencing = "gone" =>
        StaysNeat(V, SettleElsewhere(V, c, V.entry[c].heard), rs, R, G, W)
  <2>1. V.entry[c].fencing = "gone" => c \notin DOMAIN rs
    BY <1>4, <1>5 DEF NeatAll, Neat, StaysAway
  <2> QED
    BY <1>1, <1>4, <1>5, <2>1, GoneNeat
<1>9. StaysNeat(V, V, rs, R, G, W)
  BY <1>5 DEF StaysNeat
<1>10. StaysNeat(V, T, rs, R, G, W)
  BY <1>5, <1>6, <1>7, <1>8, <1>9
<1> HIDE DEF T
<1>11. StaysNeat(T0, T, rs, R, G, W)
  BY <1>4, <1>10 DEF StaysNeat
<1>12. \A d \in Gone' : d \in Gone \/ T.entry[d].st = "sending"
  BY <1>2, GoneStays
<1> QED
  BY <1>1, <1>2, <1>11, <1>12, ListingIs, PageStaysNeat DEF T0, rs, R, G, W

LEMMA FailNeat ==
  ASSUME ReaderInv, NEW t \in Tabs, NeatPage(t), NEW c \in Changes, Fail(t, c)
  PROVE  NeatPage(t)'
<1> DEFINE T0 == tab[t]
           E == T0.entry[c]
           retry == [T0 EXCEPT !.entry[c].try = @ + 1]
           park == IF E.stored THEN Park(T0, c) ELSE Drop(T0, c, Note(c, "unsent", None))
           L == Landed
           B == Grip(t)
           again == Request(t, c, E.fence, E.try + 1)
<1>1. /\ made \in Histories /\ T0 \in Pages(made, L, B) /\ E.st = "sending"
      /\ Neat(E, T0.disk, records, Listing(replay[t]), Gone, withdrawn, c)
  BY InvFacts DEF Fail, NeatPage, NeatAll
<1>2. E.stored /\ E.st \notin Settled \cup {"mark"}
  BY <1>1 DEF Neat, EntryNeat, Settled
<1>3. PICK lost \in BOOLEAN :
        LET left == IF lost THEN net \ {Pending(t, c)} ELSE net
        IN  \/ /\ E.try < MaxRetries /\ online
               /\ Page(t, retry) /\ net' = left \cup {again}
            \/ Page(t, park) /\ net' = left
  BY Zenon DEF Fail
<1>4. UNCHANGED <<made, log, chan, records, withdrawn>>
  BY DEF Fail, deviceVars, serverVars
<1>5. \A T : Page(t, T) => tab'[t] = T /\ replay'[t] = replay[t]
  BY InvFacts DEF Page, Become, PagesInv
<1>6. again.id = c
  BY DEF Request
<1>7. park \in CalmPages(made, L, B, T0, {}, {})
  <2> HIDE DEF T0, L, B
  <2> QED
    BY <1>1, <1>2, ParkCalm DEF E
<1>8. E.try < MaxRetries =>
        retry \in CalmPages(made, L, B, T0, {}, {}) /\ retry.entry[c].st = "sending"
  <2> HIDE DEF T0, L, B
  <2>1. T0 \in PageSet(made, L) /\ T0.entry \in [Changes -> Entries] /\ T0.entry[c] \in Entries
    BY <1>1, PageFacts
  <2>2. retry.disk = T0.disk /\ retry.entry = [T0.entry EXCEPT ![c].try = @ + 1]
    BY <2>1 DEF PageSet
  <2>3. SUFFICES ASSUME E.try < MaxRetries
                 PROVE  retry \in CalmPages(made, L, B, T0, {}, {})
                        /\ retry.entry[c].st = "sending"
    OBVIOUS
  <2>4. retry \in Pages(made, L, B)
    BY <1>1, <2>3, FailedKeeps
  <2> HIDE DEF retry
  <2>5. /\ retry.entry[c] = [T0.entry[c] EXCEPT !.try = @ + 1]
        /\ \A d \in Changes : d # c => retry.entry[d] = T0.entry[d]
    BY <2>1, <2>2
  <2>6. CalmEntry(T0.entry[c], retry.entry[c]) /\ retry.entry[c].st = "sending"
    BY <1>1, <1>2, <2>1, <2>5 DEF CalmEntry, Entries, E
  <2>7. retry.entry[c].st \notin Settled
    BY <2>6 DEF Settled
  <2> QED
    BY <1>1, <2>2, <2>4, <2>5, <2>6, <2>7, CalmEdit
<1> HIDE DEF again, E, T0, L, B, retry, park
<1>9. CASE E.try < MaxRetries /\ Page(t, retry) /\ net' \subseteq net \cup {again}
  <2>1. \A r \in net' : r \in net \/ retry.entry[r.id].st = "sending"
    BY <1>6, <1>8, <1>9
  <2>2. \A d \in Gone' : d \in Gone \/ retry.entry[d].st = "sending"
    BY <1>4, <2>1, GoneStays
  <2> QED
    BY <1>4, <1>5, <1>8, <1>9, <2>2, CalmStep DEF T0, L, B
<1>10. CASE Page(t, park) /\ net' \subseteq net
  <2>1. \A d \in Gone' : d \in Gone \/ park.entry[d].st = "sending"
    BY <1>4, <1>10, GoneStays
  <2> QED
    BY <1>4, <1>5, <1>7, <1>10, <2>1, CalmStep DEF T0, L, B
<1> QED
  BY <1>3, <1>9, <1>10

LEMMA ReplyNeat ==
  ASSUME ReaderInv, NEW t \in Tabs, NeatPage(t), NEW c \in Changes, Reply(t, c)
  PROVE  NeatPage(t)'
<1>1. PICK r \in replies :
        LET note == r.note
            T == IF note.out = "refused" THEN tab[t] ELSE Learn(tab[t], note.version)
        IN  /\ r.tab = t /\ note.id = c
            /\ replies' = replies \ {r}
            /\ Page(t, IF note.out = "done" THEN Settle(T, c, note) ELSE Drop(T, c, note))
            /\ UNCHANGED <<made, chan, deviceVars, net, serverVars, withdrawn, spent>>
  BY Zenon DEF Reply
<1> DEFINE note == r.note
           T0 == tab[t]
           L == Landed
           B == Grip(t)
           T == IF note.out = "refused" THEN T0 ELSE Learn(T0, note.version)
           U == IF note.out = "done" THEN Settle(T, c, note) ELSE Drop(T, c, note)
           X == {}
<1>2. /\ note \in Reports(L) /\ note.id = c /\ note.out \in {"done", "stale", "refused"}
      /\ made \in Histories /\ T0 \in Pages(made, L, B)
      /\ \A d \in Changes : T0.entry[d].st \notin Settled => T0.entry[d].stored
  BY <1>1, InvFacts DEF Answers, NeatPage, NeatAll, Neat, EntryNeat
<1>3. tab'[t] = U /\ replay'[t] = replay[t]
      /\ UNCHANGED <<made, chan, records, withdrawn, log, net>>
  <2>1. Page(t, U)
    BY <1>1, Zenon
  <2> HIDE DEF U
  <2> QED
    BY <1>1, <2>1, InvFacts DEF Page, Become, PagesInv, deviceVars, serverVars
<1> HIDE DEF T0, L, B, note, X
<1>4. T \in CalmPages(made, L, B, T0, X, X) /\ T.entry = T0.entry
  <2> DEFINE v == note.version
  <2>1. note.out # "refused" => v \in Versions
    BY <1>2 DEF Reports
  <2> HIDE DEF v
  <2>2. v \in Versions => Learn(T0, v) \in CalmPages(made, L, B, T0, X, X)
    BY <1>2, LearnCalm
  <2>3. v \in Versions => Learn(T0, v).entry = T0.entry
    BY <1>2, LearnKeeps
  <2>4. T0 \in CalmPages(made, L, B, T0, X, X)
    BY <1>2, CalmFirst
  <2> QED
    BY <2>1, <2>2, <2>3, <2>4 DEF v
<1> HIDE DEF T
<1>5. T \in Pages(made, L, B) /\ \A d \in Changes : T.entry[d].st \notin Settled => T.entry[d].stored
  BY <1>2, <1>4, CalmIs
<1>6. Settle(T, c, note) \in CalmPages(made, L, B, T, X, X) \/ note.out # "done"
  BY <1>2, <1>5, SettleCalm
<1>7. Drop(T, c, note) \in CalmPages(made, L, B, T, X, X)
  BY <1>2, <1>5, DropCalm
<1>8. U \in CalmPages(made, L, B, T, X, X)
  BY <1>6, <1>7
<1> HIDE DEF U
<1>9. U \in CalmPages(made, L, B, T0, X, X)
  BY <1>2, <1>4, <1>8, CalmThen
<1>10. \A d \in Gone' : d \in Gone \/ U.entry[d].st = "sending"
  BY <1>3, GoneStays
<1> QED
  BY <1>3, <1>9, <1>10, CalmStep DEF T0, L, B, X

LEMMA ObserveNeat ==
  ASSUME ReaderInv, NEW t \in Tabs, NeatPage(t), NEW v \in 0 .. Len(log), Observe(t, v)
  PROVE  NeatPage(t)'
<1> DEFINE T0 == tab[t]
           L == Landed
           B == Grip(t)
           V == Sweep(T0)
           T == Learn(V, v)
           X == {}
<1>1. made \in Histories /\ T0 \in Pages(made, L, B) /\ v \in Versions
  BY InvFacts, ReaderAssumption DEF Versions
<1>2. /\ tab'[t] = T /\ replay'[t] = replay[t] /\ UNCHANGED <<made, chan, records, withdrawn, log, net>>
  BY InvFacts DEF Observe, Page, Become, PagesInv, deviceVars, netVars, serverVars
<1> HIDE DEF T0, L, B, X
<1>3. V \in CalmPages(made, L, B, T0, X, X) /\ V \in Pages(made, L, B)
  BY <1>1, SweepCalm, SweepKeeps
<1> HIDE DEF V
<1>4. T \in CalmPages(made, L, B, V, X, X)
  BY <1>1, <1>3, LearnCalm
<1> HIDE DEF T
<1>5. T \in CalmPages(made, L, B, T0, X, X)
  BY <1>1, <1>3, <1>4, CalmThen
<1>6. \A d \in Gone' : d \in Gone \/ T.entry[d].st = "sending"
  BY <1>2, GoneStays
<1> QED
  BY <1>2, <1>5, <1>6, CalmStep DEF T0, L, B, X

(* The replay's steps, and a page that starts anew.                        *)

LEMMA RestoreNeat ==
  ASSUME ReaderInv, NEW t \in Tabs, NeatPage(t), Restore(t)
  PROVE  NeatPage(t)'
<1> DEFINE T0 == tab[t]
           old == Durable(T0)
           T == Adopt(T0, records, old)
           rs == records
           R == Listing(replay[t])
           G == Gone
           W == withdrawn
           L == Landed
           B == Grip(t)
<1>1. made \in Histories /\ T0 \in Pages(made, L, B) /\ NeatAll(T0, rs, R, G, W)
      /\ rs \in Recordings(made)
  BY InvFacts DEF NeatPage
<1>2. /\ tab'[t] = T /\ replay'[t] = replay[t] /\ UNCHANGED <<made, chan, records, withdrawn, log, net>>
  BY InvFacts DEF Restore, Page, Become, PagesInv, deviceVars, netVars, serverVars
<1>3. T = Adopt(T0, rs, old)
  OBVIOUS
<1> HIDE DEF T0, rs, R, G, W, L, B, T, old
<1>4. StaysNeat(T0, T, rs, R, G, W)
  BY <1>1, <1>3, AdoptNeat
<1>5. \A d \in Gone' : d \in Gone \/ T.entry[d].st = "sending"
  BY <1>2, GoneStays
<1> QED
  BY <1>2, <1>4, <1>5, ListingIs, PageStaysNeat DEF T0, rs, R, G, W

(* The records are listed: so far the list is the records.                 *)
LEMMA ReplayBeginNeat ==
  ASSUME ReaderInv, NEW t \in Tabs, NeatPage(t), ReplayBegin(t)
  PROVE  NeatPage(t)'
<1> DEFINE T == tab[t]
           rs == records
           R == Listing(replay[t])
           G == Gone
           W == withdrawn
           Y == [pc |-> "listed", recs |-> records, old |-> Durable(tab[t]), cur |-> None]
<1>1. made \in Histories /\ T \in Pages(made, Landed, Grip(t)) /\ NeatAll(T, rs, R, G, W)
  BY InvFacts DEF NeatPage
<1>2. /\ UNCHANGED <<made, tab, chan, records, withdrawn, log, net>> /\ replay'[t] = Y
  BY InvFacts DEF ReplayBegin, PagesInv, deviceVars, netVars, serverVars
<1>3. Listing(Y) = rs /\ Gone' = Gone
  BY <1>2 DEF Listing, Gone, InLog
<1>4. OldGone(T, rs, Y, made)
  <2>1. ASSUME NEW c \in Durable(T)
        PROVE  c \in DOMAIN made /\ ~AsksFor(T.disk, c, "save")
    <3> HIDE DEF T, rs, R, G, W, Y
    <3>1. c \in Changes /\ T.entry[c].stored /\ T.entry[c].saved = "yes"
      BY <2>1 DEF Durable, Kept
    <3>2. c \in DOMAIN made /\ T.entry[c].st \notin Settled
      BY <1>1, <3>1, PageFacts DEF EntryOK
    <3>3. Neat(T.entry[c], T.disk, rs, R, G, W, c)
      BY <1>1, <3>1 DEF NeatAll
    <3> QED
      BY <3>1, <3>2, <3>3 DEF Neat, SaveComesFirst, AsksFor
  <2> QED
    BY <2>1 DEF OldGone
<1> HIDE DEF T, rs, R, G, W, Y
<1>5. ASSUME NEW c \in Changes
      PROVE  Neat(T.entry[c], T.disk, rs, rs, G, W, c)
  <2> DEFINE e == T.entry[c]
             D == T.disk
  <2>1. Neat(e, D, rs, R, G, W, c)
    BY <1>1 DEF NeatAll
  <2> HIDE DEF e, D
  <2>2. SaveComesFirst(e, D, rs, rs, G, c)
    BY <2>1 DEF Neat, SaveComesFirst
  <2>3. SentIsMarked(e, D, rs, rs, G, c)
    BY <2>1 DEF Neat, SentIsMarked
  <2> QED
    BY <2>1, <2>2, <2>3 DEF Neat, e, D
<1>6. NeatAll(T, rs, rs, G, W)
  BY <1>5 DEF NeatAll
<1> QED
  BY <1>2, <1>3, <1>4, <1>6 DEF NeatPage, T, rs, R, G, W

LEMMA ReplayAdoptNeat ==
  ASSUME ReaderInv, NEW t \in Tabs, NeatPage(t), ReplayAdopt(t)
  PROVE  NeatPage(t)'
<1> DEFINE T0 == tab[t]
           recs == replay[t].recs
           old == replay[t].old
           T == Adopt(T0, recs, old)
           sends == DOMAIN recs # {} /\ online
           rs == records
           R == Listing(replay[t])
           G == Gone
           W == withdrawn
           L == Landed
           B == Grip(t)
<1>1. /\ made \in Histories /\ T0 \in Pages(made, L, B) /\ NeatAll(T0, rs, R, G, W)
      /\ recs \in Recordings(made) /\ replay[t].pc = "listed" /\ R = recs
      /\ \A c \in Changes : c \in old /\ c \notin DOMAIN recs => c \notin DOMAIN rs
  BY InvFacts, ReplayFacts DEF NeatPage, OldGone, ReplayAdopt, Listing
<1>2. UNCHANGED <<made, chan, records, withdrawn, log, net>>
  BY DEF ReplayAdopt, deviceVars, netVars, serverVars
<1>3. \A V, Y : Become(t, V, Y) => tab'[t] = V /\ replay'[t] = Y
  BY InvFacts DEF Become, PagesInv
<1>4. \A V : Draining(V).pc # "listed" /\ Resting.pc # "listed"
  BY DEF Draining, Resting
<1>5. T \in Pages(made, L, B) /\ StaysNeat(T0, T, rs, R, G, W)
  <2> HIDE DEF T0, recs, old, rs, R, G, W, L, B
  <2> QED
    BY <1>1, AdoptKeeps, AdoptNeat
<1>6. \/ Become(t, T, IF sends THEN Draining(tab'[t]) ELSE Resting)
      \/ \E k \in DOMAIN made : Become(t, Expired(T, k), Draining(tab'[t]))
  BY Zenon DEF ReplayAdopt
<1> HIDE DEF T0, recs, old, rs, R, G, W, L, B, T, sends
<1>7. ASSUME NEW U, tab'[t] = U, replay'[t].pc # "listed", StaysNeat(T0, U, rs, R, G, W)
      PROVE  NeatPage(t)'
  <2>1. \A d \in Gone' : d \in Gone \/ U.entry[d].st = "sending"
    BY <1>2, GoneStays
  <2> QED
    BY <1>2, <1>7, <2>1, ListingIs, PageStaysNeat DEF T0, rs, R, G, W
<1>8. CASE Become(t, T, IF sends THEN Draining(tab'[t]) ELSE Resting)
  <2>1. tab'[t] = T /\ replay'[t].pc # "listed"
    BY <1>3, <1>4, <1>8
  <2> QED
    BY <1>5, <1>7, <2>1
<1>9. ASSUME NEW k \in DOMAIN made, Become(t, Expired(T, k), Draining(tab'[t]))
      PROVE  NeatPage(t)'
  <2> DEFINE U == Expired(T, k)
  <2>1. tab'[t] = U /\ replay'[t].pc # "listed"
    BY <1>3, <1>4, <1>9
  <2>2. k \in Changes
    BY ListingIs
  <2>3. U \in CalmPages(made, L, B, T, {}, {})
    BY <1>1, <1>5, <2>2, ExpiredCalm
  <2> HIDE DEF U
  <2>4. StaysNeat(T, U, rs, R, G, W)
    BY <1>1, <1>5, <2>3, CalmNeat DEF StaysNeat
  <2>5. StaysNeat(T0, U, rs, R, G, W)
    BY <1>5, <2>4 DEF StaysNeat
  <2> QED
    BY <1>7, <2>1, <2>5
<1> QED
  BY <1>6, <1>8, <1>9

LEMMA ReplayRestNeat ==
  ASSUME ReaderInv, NEW t \in Tabs, NeatPage(t), ReplayAbandon(t) \/ DrainNext(t) \/ DrainEnd(t)
  PROVE  NeatPage(t)'
<1> DEFINE T0 == tab[t]
           L == Landed
           B == Grip(t)
           head == Head0(T0)
<1>1. made \in Histories /\ T0 \in Pages(made, L, B) /\ replay[t] \in Replays(made)
  BY InvFacts, ReplayFacts
<1>2. UNCHANGED <<made, chan, records, withdrawn, log, net>>
  BY DEF ReplayAbandon, DrainNext, DrainEnd, deviceVars, netVars, serverVars
<1>3. \A V, Y : Become(t, V, Y) => tab'[t] = V /\ replay'[t] = Y
  BY InvFacts DEF Become, PagesInv
<1>4. Resting.pc # "listed"
  BY DEF Resting
<1>5. ASSUME NEW U, tab'[t] = U, replay'[t].pc # "listed", U \in CalmPages(made, L, B, T0, {}, {})
      PROVE  NeatPage(t)'
  <2> HIDE DEF head
  <2>1. \A d \in Gone' : d \in Gone \/ U.entry[d].st = "sending"
    BY <1>2, GoneStays
  <2> QED
    BY <1>2, <1>5, <2>1, CalmStep
<1>6. CASE ReplayAbandon(t) \/ DrainEnd(t)
  <2>1. tab'[t] = T0 /\ replay'[t].pc # "listed"
    BY <1>3, <1>4, <1>6 DEF ReplayAbandon, DrainEnd
  <2>2. T0 \in CalmPages(made, L, B, T0, {}, {})
    <3> HIDE DEF T0, L, B
    <3> QED
      BY <1>1, CalmFirst
  <2> QED
    BY <1>5, <2>1, <2>2
<1>7. CASE DrainNext(t)
  <2> DEFINE T == IF T0.entry[head].st = "waiting" THEN Start(T0, head) ELSE T0
  <2>1. head \in Changes
    <3>1. T0.order # <<>> /\ head = Head(T0.order)
      BY <1>7 DEF DrainNext, Head0
    <3> QED
      BY <1>1, <3>1, HeadFacts
  <2>2. tab'[t] = T /\ replay'[t].pc # "listed"
    <3>1. Become(t, T, [replay[t] EXCEPT !.cur = head]) /\ replay[t].pc = "drain"
      BY <1>7, Zenon DEF DrainNext
    <3> QED
      BY <1>1, <1>3, <3>1 DEF Replays
  <2> HIDE DEF head, T0, L, B
  <2>3. T \in CalmPages(made, L, B, T0, {}, {})
    <3>1. T0 \in CalmPages(made, L, B, T0, {}, {})
      BY <1>1, CalmFirst
    <3>2. T0.entry[head].st = "waiting" => Start(T0, head) \in CalmPages(made, L, B, T0, {}, {})
      BY <1>1, <2>1, RestatedCalm DEF Start, Settled
    <3> QED
      BY <3>1, <3>2
  <2> QED
    BY <1>5, <2>2, <2>3
<1> QED
  BY <1>6, <1>7

(* What the page had in memory is gone; the records say what was sent.     *)
LEMMA ReloadNeat ==
  ASSUME ReaderInv, NEW t \in Tabs, NeatPage(t), Reload(t)
  PROVE  NeatPage(t)'
<1> DEFINE T0 == tab[t]
           T == Fresh(T0.told)
           rs == records
           R == Listing(replay[t])
           G == Gone
           W == withdrawn
           Q == << >>
<1>1. /\ tab'[t] = T /\ replay'[t] = Resting /\ chan'[t] = <<>>
      /\ UNCHANGED <<made, records, withdrawn, log, net>>
  BY InvFacts DEF Reload, PagesInv, DeviceInv, deviceVars, serverVars
<1>2. Gone' = Gone /\ Listing(Resting) = Q /\ Resting.pc # "listed"
  BY <1>1 DEF Gone, InLog, Listing, Resting
<1>3. T.disk = <<>> /\ T.entry = [c \in Changes |-> Absent]
  BY DEF Fresh
<1> HIDE DEF T0, T, rs, R, G, W, Q
<1>4. ASSUME NEW c \in Changes
      PROVE  Neat(T.entry[c], T.disk, rs, Q, G, W, c)
  <2> DEFINE e == T.entry[c]
             D == T.disk
  <2>1. e.st = "none" /\ D = <<>> /\ DOMAIN D = {} /\ DOMAIN Q = {}
    BY <1>3 DEF Absent, Q
  <2>2. Neat(T0.entry[c], T0.disk, rs, R, G, W, c)
    BY DEF NeatPage, NeatAll, T0, rs, R, G, W
  <2> HIDE DEF e, D
  <2>3. EntryNeat(e) /\ ~Sending(e) /\ \A op : ~AsksFor(D, c, op)
    BY <2>1 DEF EntryNeat, Sending, Settled, AsksFor
  <2>4. SaveComesFirst(e, D, rs, Q, G, c)
    BY <2>1 DEF SaveComesFirst
  <2>5. SentIsMarked(e, D, rs, Q, G, c)
    BY <2>1, <2>2, <2>3 DEF Neat, SentIsMarked, Settled
  <2>6. StaysAway(e, D, rs, G, W, c)
    BY <2>1, <2>2, <2>3 DEF Neat, StaysAway, Settled
  <2> QED
    BY <2>3, <2>4, <2>5, <2>6 DEF Neat, e, D
<1>5. NeatAll(T, rs, Q, G, W)
  BY <1>4 DEF NeatAll
<1> QED
  BY <1>1, <1>2, <1>5 DEF NeatPage, OldGone, rs, G, W

(* The person makes a change.                                              *)
LEMMA DispatchNeat ==
  ASSUME ReaderInv, NEW t \in Tabs, NeatPage(t), Dispatch(t)
  PROVE  NeatPage(t)'
<1> DEFINE M == made
           L == Landed
           B == Grip(t)
           T == tab[t]
           offline == ~online
           m == [on |-> T.known, offline |-> offline, first |-> T.order = <<>>]
           N == Append(M, m)
           U == Dispatched(T, Len(M) + 1)
           rs == records
           R == Listing(replay[t])
           G == Gone
           W == withdrawn
           Y == replay[t]
<1>1. /\ M \in Histories /\ T \in Pages(M, L, B) /\ Len(M) < MaxChanges /\ T.known # Unknown
      /\ NeatAll(T, rs, R, G, W) /\ W \subseteq DOMAIN M /\ OldGone(T, rs, Y, M)
  BY InvFacts DEF Dispatch, NeatPage
<1>2. T.known \in Versions /\ offline \in BOOLEAN
  BY <1>1, InvFacts, PageFacts
<1>3. DOMAIN rs \subseteq DOMAIN M /\ DOMAIN R \subseteq DOMAIN M /\ G \subseteq DOMAIN M
  BY ListingIs
<1>4. /\ tab'[t] = U /\ replay'[t] = Y /\ made' = N
      /\ UNCHANGED <<chan, records, withdrawn, log, net>>
  BY InvFacts DEF Dispatch, Page, Become, PagesInv, deviceVars, netVars, serverVars
<1>5. Gone' = G
  BY <1>4 DEF Gone, InLog
<1> HIDE DEF M, L, B, T, offline, rs, R, G, W, Y
<1>6. DOMAIN M \subseteq DOMAIN N
  BY <1>1, <1>2, DispatchedKeeps
<1>7. /\ NeatAll(U, rs, R, G, W)
      /\ \A d \in DOMAIN M : AsksFor(U.disk, d, "save") => AsksFor(T.disk, d, "save")
  BY <1>1, <1>2, <1>3, DispatchedNeat
<1> HIDE DEF U, N
<1>8. OldGone(U, rs, Y, N)
  BY <1>1, <1>6, <1>7 DEF OldGone
<1>9. W \subseteq DOMAIN N
  BY <1>1, <1>6
<1> QED
  BY <1>4, <1>5, <1>7, <1>8, <1>9 DEF NeatPage, rs, R, G, W, Y

(* The queue store makes the next change it was asked for: what it takes   *)
(* back was never sent, and what it removes or saves agrees with the page. *)
LEMMA DiskStepNeat ==
  ASSUME ReaderInv, NEW t \in Tabs, Tabs = {t}, NeatPage(t), DiskStep(t)
  PROVE  NeatPage(t)'
<1> DEFINE T0 == tab[t]
           job == Head(T0.disk)
           c == job.id
           T1 == [T0 EXCEPT !.disk = Tail(@)]
           present == job.op = "save" \/ c \in DOMAIN records
           T == Answered(T1, job, present)
           rs == records
           qs == Stored(job)
           R == Listing(replay[t])
           G == Gone
           W == withdrawn
           V == IF job.op = "remove" /\ present /\ job.note.out = "undone"
                THEN withdrawn \cup {job.id} ELSE withdrawn
           L == Landed
           B == Grip(t)
           Y == replay[t]
<1>1. /\ made \in Histories /\ T0 \in Pages(made, L, B) /\ NeatAll(T0, rs, R, G, W)
      /\ records \in Recordings(made) /\ T0.disk # <<>> /\ W \subseteq DOMAIN made
      /\ OldGone(T0, rs, Y, made)
  BY InvFacts DEF NeatPage, DiskStep
<1>2. tab'[t] = T /\ replay'[t] = Y
  <2>1. Page(t, T)
    BY Zenon DEF DiskStep
  <2> HIDE DEF T
  <2> QED
    BY <2>1, InvFacts DEF Page, Become, PagesInv
<1>3. /\ records' = qs /\ withdrawn' = V /\ chan' = Announced(t, job)
      /\ net' = net \cup Sent(t) /\ UNCHANGED <<made, log>>
  BY DEF DiskStep, serverVars
<1>4. chan'[t] = <<>>
  <2>1. chan[t] = <<>>
    BY DEF NeatPage
  <2> QED
    BY <1>3, <2>1 DEF Announced
<1>5. present \in BOOLEAN /\ (job.op = "save" => present)
      /\ (job.op # "save" => (present <=> c \in DOMAIN rs))
  OBVIOUS
<1> HIDE DEF T0, L, B, R, G, Y, present
<1>6. /\ T1 \in Pages(made, L, B) /\ T1.entry = T0.entry /\ T1.disk = Tail(T0.disk)
      /\ job \in Tasks(made, L)
  BY <1>1, TailKeeps
<1>7. job \in Jobs /\ c \in DOMAIN made /\ c \in Changes
  BY <1>6 DEF Tasks, Jobs
<1>8. /\ job.op = "save" => DOMAIN qs = DOMAIN rs \cup {c}
      /\ job.op = "remove" => DOMAIN qs = DOMAIN rs \ {c}
      /\ job.op \notin {"save", "remove"} => DOMAIN qs = DOMAIN rs
      /\ c \in DOMAIN rs /\ job.op = "mark" => qs[c].sent = TRUE
      /\ \A d \in Changes : d # c => (d \in DOMAIN qs <=> d \in DOMAIN rs)
  BY <1>1, <1>7, StoredIs
<1>9. \A d \in Changes : \A op : AsksFor(T0.disk, d, op) <=> Asks(T0.disk, 1, d, op) \/ AsksFor(T1.disk, d, op)
  <2> DEFINE S == Tasks(made, L)
  <2>1. T0.disk \in Seq(S)
    BY <1>1, PageFacts
  <2> HIDE DEF S
  <2> QED
    BY <1>1, <1>6, <2>1, TailIs
<1>10. T0.disk[1] = job
  <2> DEFINE S == Tasks(made, L)
  <2>1. T0.disk \in Seq(S)
    BY <1>1, PageFacts
  <2> HIDE DEF S
  <2> QED
    BY <1>1, <2>1
<1>11. W \subseteq V /\ V \subseteq DOMAIN made
       /\ \A d \in V : d \in W \/ (d \in DOMAIN records /\ TakesBack(T0.disk, 1, d))
  BY <1>1, <1>5, <1>7, <1>10 DEF TakesBack, Asks
<1> HIDE DEF V, T1, rs, W
<1>12. NeatAll(T1, qs, R, G, V) /\ ~AsksFor(T1.disk, c, "save")
  <2>1. NeatAll([T0 EXCEPT !.disk = Tail(@)], Stored(Head(T0.disk)), R, G, V)
        /\ ~AsksFor(Tail(T0.disk), Head(T0.disk).id, "save")
    BY <1>1, <1>11, NeatWritten DEF rs
  <2> QED
    BY <1>6, <2>1 DEF T1
<1> HIDE DEF job, qs, c
<1>13. c = job.id
  BY DEF c
<1>14. StaysNeat(T1, T, qs, R, G, V)
  <2>1. CASE job.op = "remove"
    <3>1. T = T1
      BY <2>1 DEF Answered
    <3> QED
      BY <1>12, <3>1 DEF StaysNeat
  <2>2. CASE job.op # "remove"
    <3>1. IF job.op = "save" THEN present ELSE present <=> job.id \in DOMAIN qs
      BY <1>5, <1>8, <1>13, <2>2
    <3>2. job.op = "mark" /\ job.id \in DOMAIN qs => qs[job.id].sent
      BY <1>8, <1>13
    <3>3. ~AsksFor(T1.disk, job.id, "save")
      BY <1>12, <1>13
    <3> QED
      BY <1>1, <1>5, <1>6, <1>12, <3>1, <3>2, <3>3, AnsweredNeat
  <2> QED
    BY <2>1, <2>2
<1> HIDE DEF T
<1>15. \A d \in Gone' : d \in G \/ T.entry[d].st = "sending"
  BY <1>2, <1>3, SentIsGone DEF G
<1>16. NeatAll(T, qs, R, Gone', V)
  <2> DEFINE H == Gone'
  <2>1. NeatAll(T, qs, R, G, V)
    BY <1>14 DEF StaysNeat
  <2>2. \A d \in H : d \in G \/ T.entry[d].st = "sending"
    BY <1>15
  <2> HIDE DEF H
  <2>3. NeatAll(T, qs, R, H, V)
    BY <2>1, <2>2, OnItsWay
  <2> QED
    BY <2>3 DEF H
<1>17. OldGone(T, qs, Y, made)
  <2>1. SUFFICES ASSUME Y.pc = "listed", NEW d \in Y.old
                 PROVE  d \in DOMAIN made /\ (d \notin DOMAIN Y.recs =>
                          d \notin DOMAIN qs /\ ~AsksFor(T.disk, d, "save"))
    BY DEF OldGone
  <2>2. d \in DOMAIN made /\ (d \notin DOMAIN Y.recs =>
          d \notin DOMAIN rs /\ ~AsksFor(T0.disk, d, "save"))
    BY <1>1, <2>1 DEF OldGone
  <2>3. d \in Changes
    BY <2>2, ListingIs
  <2>4. AsksFor(T.disk, d, "save") => AsksFor(T0.disk, d, "save")
    BY <1>9, <1>14, <2>3 DEF StaysNeat
  <2>5. d \in DOMAIN qs /\ d \notin DOMAIN rs => AsksFor(T0.disk, d, "save")
    BY <1>8, <1>9, <1>10, <1>13, <2>3 DEF Asks
  <2> QED
    BY <2>2, <2>4, <2>5
<1> QED
  BY <1>2, <1>3, <1>4, <1>11, <1>16, <1>17 DEF NeatPage, R, Y

(* The server, another device and the connection: no change is on its way  *)
(* that was not before.                                                    *)
LEMMA ElsewhereNeat ==
  ASSUME ReaderInv, NEW t \in Tabs, NeatPage(t), UNCHANGED <<pageVars, records, withdrawn>>,
         Gone' \subseteq Gone
  PROVE  NeatPage(t)'
<1> DEFINE T == tab[t]
<1>1. /\ tab'[t] = T /\ replay'[t] = replay[t] /\ UNCHANGED <<made, chan, records, withdrawn>>
  BY DEF pageVars
<1> HIDE DEF T
<1>2. T \in CalmPages(made, Landed, Grip(t), tab[t], {}, {})
  BY InvFacts, CalmFirst DEF T
<1> QED
  BY <1>1, <1>2, CalmStep

LEMMA HandleNeat ==
  ASSUME ReaderInv, NEW t \in Tabs, NeatPage(t), NEW r \in net, Handle(r)
  PROVE  NeatPage(t)'
<1>1. UNCHANGED <<pageVars, records, withdrawn>> /\ net' \subseteq net /\ r.id \in Changes
  BY InvFacts DEF Handle, deviceVars, Requests
<1>2. log' = log \/ log' = Append(log, r.id)
  BY DEF Handle, Replayed, Applied, StaleState, NotFound, serverVars
<1>3. \A c \in Changes : InLog(c)' => InLog(c) \/ c = r.id
  <2> DEFINE D == Changes \cup {Other}
  <2>1. log \in Seq(D) /\ r.id \in D
    BY <1>1, InvFacts DEF ServerInv
  <2> HIDE DEF D
  <2>2. \A i \in DOMAIN log' : log'[i] = r.id \/ (i \in DOMAIN log /\ log'[i] = log[i])
    BY <1>2, <2>1
  <2> QED
    BY <2>2 DEF InLog
<1>4. Gone' \subseteq Gone
  BY <1>1, <1>3 DEF Gone
<1> QED
  BY <1>1, <1>4, ElsewhereNeat

LEMMA OtherWritesNeat ==
  ASSUME ReaderInv, NEW t \in Tabs, NeatPage(t), OtherWrites
  PROVE  NeatPage(t)'
<1>1. UNCHANGED <<pageVars, records, withdrawn, net>> /\ log' = Append(log, Other)
  BY DEF OtherWrites, deviceVars, netVars
<1>2. \A c \in Changes : InLog(c)' => InLog(c)
  <2> DEFINE D == Changes \cup {Other}
  <2>1. log \in Seq(D) /\ Other \in D /\ Other \notin Changes
    BY InvFacts, ReaderAssumption DEF ServerInv, Changes
  <2> HIDE DEF D
  <2>2. \A i \in DOMAIN log' : log'[i] = Other \/ (i \in DOMAIN log /\ log'[i] = log[i])
    BY <1>1, <2>1
  <2> QED
    BY <2>1, <2>2 DEF InLog
<1>3. Gone' \subseteq Gone
  BY <1>1, <1>2 DEF Gone
<1> QED
  BY <1>1, <1>3, ElsewhereNeat

LEMMA RestNeat ==
  ASSUME ReaderInv, NEW t \in Tabs, NeatPage(t), Disconnect \/ Reconnect \/ UNCHANGED vars
  PROVE  NeatPage(t)'
<1>1. UNCHANGED <<pageVars, records, withdrawn, net, log>>
  BY DEF Disconnect, Reconnect, vars, deviceVars, netVars, serverVars
<1>2. Gone' \subseteq Gone
  BY <1>1 DEF Gone, InLog
<1> QED
  BY <1>1, <1>2, ElsewhereNeat

(* A database that has failed stays one that has failed.                   *)
LEMMA SoundBefore ==
  ASSUME ReaderInv, [Next]_vars, DiskSound'
  PROVE  DiskSound /\ \A t \in Tabs : ~DiskFault(t)
<1>1. spent \in [DOMAIN Limit -> Nat] /\ "fault" \in DOMAIN Limit
  BY InvFacts DEF Limit
<1>2. \A kind \in DOMAIN Limit : Spend(kind) =>
        spent'["fault"] = IF kind = "fault" THEN spent["fault"] + 1 ELSE spent["fault"]
  BY <1>1 DEF Spend
<1>3. \A t \in Tabs : ~DiskFault(t)
  <2>1. ASSUME NEW t \in Tabs, DiskFault(t)
        PROVE  FALSE
    <3>1. spent'["fault"] = spent["fault"] + 1 /\ spent["fault"] \in Nat
      BY <1>1, <1>2, <2>1 DEF DiskFault
    <3> QED
      BY <3>1 DEF DiskSound
  <2> QED
    BY <2>1
<1>4. UNCHANGED spent \/ \E kind \in DOMAIN Limit \ {"fault"} : Spend(kind)
  <2>1. {"fail", "drop", "crash", "expiry", "other", "undo"} \subseteq DOMAIN Limit \ {"fault"}
    BY DEF Limit
  <2> DEFINE Steady == UNCHANGED spent \/ \E kind \in DOMAIN Limit \ {"fault"} : Spend(kind)
  <2>2. ASSUME NEW t \in Tabs, NEW c \in Changes, Undo(t, c) \/ Fail(t, c)
        PROVE  Steady
    BY <2>1, <2>2 DEF Undo, Fail
  <2>3. ASSUME NEW t \in Tabs, NEW c \in Changes, Resume(t, c) \/ Acquire(t, c) \/ Reply(t, c)
        PROVE  Steady
    BY <2>3, Zenon DEF Resume, Acquire, Reply
  <2>4. ASSUME NEW t \in Tabs, ReplayAdopt(t) \/ DrainNext(t) \/ DrainEnd(t)
        PROVE  Steady
    BY <2>1, <2>4 DEF ReplayAdopt, DrainNext, DrainEnd
  <2>5. ASSUME NEW t \in Tabs, Dispatch(t) \/ DiskStep(t) \/ Hear(t) \/ Reload(t)
        PROVE  Steady
    BY <2>1, <2>5 DEF Dispatch, DiskStep, Hear, Reload
  <2>6. ASSUME NEW t \in Tabs, Restore(t) \/ ReplayBegin(t) \/ ReplayAbandon(t)
        PROVE  Steady
    BY <2>1, <2>6 DEF Restore, ReplayBegin, ReplayAbandon
  <2>7. ASSUME NEW t \in Tabs, NEW v, Observe(t, v)
        PROVE  Steady
    BY <2>7 DEF Observe
  <2>8. ASSUME NEW r \in net, Handle(r)
        PROVE  Steady
    BY <2>1, <2>8 DEF Handle, NotFound
  <2>9. ASSUME Disconnect \/ Reconnect \/ OtherWrites \/ UNCHANGED vars
        PROVE  Steady
    BY <2>1, <2>9 DEF Disconnect, Reconnect, OtherWrites, vars
  <2> HIDE DEF Steady
  <2> QED
    BY <1>3, <2>2, <2>3, <2>4, <2>5, <2>6, <2>7, <2>8, <2>9 DEF Next, Carry, ReplayStep, Steady
<1> QED
  BY <1>2, <1>3, <1>4 DEF DiskSound

LEMMA NextNeat ==
  ASSUME ReaderInv, NEW p, Tabs = {p}, NeatPage(p), [Next]_vars, \A t \in Tabs : ~DiskFault(t)
  PROVE  NeatPage(p)'
<1> DEFINE Kept1 == NeatPage(p)'
<1>1. ASSUME NEW c \in Changes, Undo(p, c) \/ Fail(p, c)
      PROVE  Kept1
  BY <1>1, UndoNeat, FailNeat
<1>2. ASSUME NEW c \in Changes, Resume(p, c) \/ Acquire(p, c) \/ Reply(p, c)
      PROVE  Kept1
  BY <1>2, ResumeNeat, AcquireNeat, ReplyNeat
<1>3. ASSUME ReplayAdopt(p) \/ DrainNext(p) \/ DrainEnd(p)
      PROVE  Kept1
  BY <1>3, ReplayAdoptNeat, ReplayRestNeat
<1>4. ASSUME Dispatch(p) \/ DiskStep(p) \/ Reload(p)
      PROVE  Kept1
  BY <1>4, DispatchNeat, DiskStepNeat, ReloadNeat
<1>5. ASSUME Restore(p) \/ ReplayBegin(p) \/ ReplayAbandon(p)
      PROVE  Kept1
  BY <1>5, RestoreNeat, ReplayBeginNeat, ReplayRestNeat
<1>6. ASSUME NEW v \in 0 .. Len(log), Observe(p, v)
      PROVE  Kept1
  BY <1>6, ObserveNeat
<1>7. ASSUME NEW r \in net, Handle(r)
      PROVE  Kept1
  BY <1>7, HandleNeat
<1>8. ASSUME Disconnect \/ Reconnect \/ UNCHANGED vars \/ OtherWrites
      PROVE  Kept1
  BY <1>8, RestNeat, OtherWritesNeat
<1>9. ~Hear(p) /\ ~DiskFault(p)
  BY Zenon DEF Hear, NeatPage
<1> HIDE DEF Kept1
<1>10. Kept1
  BY <1>1, <1>2, <1>3, <1>4, <1>5, <1>6, <1>7, <1>8, <1>9 DEF Next, Carry, ReplayStep
<1> QED
  BY <1>10 DEF Kept1

LEMMA InitNeat ==
  ASSUME Init, NEW t \in Tabs
  PROVE  NeatPage(t)
<1> DEFINE T == tab[t]
           none == [c \in Changes |-> {}]
           empty == << >>
<1>1. /\ chan[t] = <<>> /\ withdrawn = {} /\ records = empty /\ Gone = {} /\ replay[t] = Resting
      /\ T = [Fresh(none) EXCEPT !.known = 0]
  BY DEF Init, Gone, InLog
<1>2. T.disk = <<>> /\ T.entry = [c \in Changes |-> Absent]
  BY <1>1 DEF Fresh
<1>3. Listing(replay[t]) = empty /\ replay[t].pc = "idle"
  BY <1>1 DEF Listing, Resting
<1> HIDE DEF T, none, empty
<1>4. ASSUME NEW c \in Changes
      PROVE  Neat(T.entry[c], T.disk, empty, empty, {}, {}, c)
  <2> DEFINE e == T.entry[c]
             D == T.disk
  <2>1. e.st = "none" /\ DOMAIN D = {} /\ DOMAIN empty = {}
    BY <1>2 DEF Absent, empty
  <2> HIDE DEF e, D
  <2>2. EntryNeat(e) /\ \A op : ~AsksFor(D, c, op)
    BY <2>1 DEF EntryNeat, Settled, AsksFor
  <2> QED
    BY <2>1, <2>2 DEF Neat, SaveComesFirst, SentIsMarked, StaysAway, e, D
<1>5. NeatAll(T, empty, empty, {}, {})
  BY <1>4 DEF NeatAll
<1> QED
  BY <1>1, <1>3, <1>5 DEF NeatPage, OldGone, T

(* A change that the person took back before it was sent is, once the page *)
(* has removed its record, never applied and no request of it is on its    *)
(* way, whatever is lost, late, restored, sent again or reloaded after     *)
(* that, however many changes and faults there are - on a device with one  *)
(* page, as long as its database answers.  A page that is reloaded after   *)
(* the Undo and before the removal is not covered.                         *)
THEOREM TakenBackStaysAway ==
  ASSUME NEW p, Tabs = {p}
  PROVE  Spec => []WithdrawnNeverApplied
<1> DEFINE Inv == ReaderInv /\ (DiskSound => NeatPage(p))
<1>1. Init => Inv
  BY InitKeeps, InitNeat
<1>2. Inv /\ [Next]_vars => Inv'
  <2> SUFFICES ASSUME Inv, [Next]_vars
               PROVE  Inv'
    OBVIOUS
  <2>1. ReaderInv'
    BY NextKeeps
  <2>2. ASSUME DiskSound'
        PROVE  NeatPage(p)'
    <3>1. DiskSound /\ \A t \in Tabs : ~DiskFault(t)
      BY <2>2, SoundBefore
    <3> QED
      BY <3>1, NextNeat
  <2> QED
    BY <2>1, <2>2
<1>3. Inv => WithdrawnNeverApplied
  <2>1. ASSUME Inv, DiskSound, NEW c \in withdrawn
        PROVE  ~InLog(c) /\ \A r \in net : r.id # c
    <3>1. NeatPage(p) /\ c \in Changes
      BY <2>1, ListingIs DEF NeatPage
    <3>2. c \notin Gone
      BY <2>1, <3>1 DEF NeatPage, NeatAll, Neat, StaysAway
    <3> QED
      BY <3>1, <3>2 DEF Gone
  <2> QED
    BY <2>1 DEF WithdrawnNeverApplied
<1> QED
  BY <1>1, <1>2, <1>3, PTL DEF Spec
=============================================================================
