------------------------ MODULE EngineBreakerProofs ------------------------
(***************************************************************************)
(* What EngineBreaker guarantees for any routers, requests and tokens, any *)
(* clock and any thresholds.  Whether a window of outcomes makes a router  *)
(* trip plays no part; that it stays within its limit is shown at the end. *)
(***************************************************************************)
EXTENDS EngineBreaker, FiniteSetTheorems, SequenceTheorems, WellFoundedInduction, TLAPS

Circuits == [st : States, opened : Nat, since : Nat, until : Int, reopen : Nat,
             token : Tokens \cup {None}, lease : Nat]
Polls == [on : BOOLEAN, circuit : Circuits, reset : Nat]
CopyShapes == [st : States \cup {"absent"}, deny : Nat]
Verdicts == {"success", "failure", "neutral"}

(* The steps of a logical request at which an update of it is pending. *)
Updating == {"acquire", "reacquire", "renew", "unauthorized", "verdict", "trip"}

RouterShape ==
  /\ poll \in [Routers -> Polls] /\ seenReset \in [Routers -> Nat]
  /\ cache \in [Routers -> CopyShapes] /\ freshFor \in [Routers -> Nat]
RequestShape ==
  /\ pc \in [Requests -> Steps] /\ token \in [Requests -> Tokens \cup {None}]
  /\ verdict \in [Requests -> Verdicts] /\ at \in [Requests -> Nat]
StoreShape ==
  /\ now \in Nat \ {0} /\ resetAt \in Nat /\ closedAgo \in Nat
  /\ shared \in Circuits

(* A pending update has read the clock; a streak of failures has a start;  *)
(* a poll has read no reset but one that was requested.                    *)
Timely ==
  /\ \A q \in Requests : pc[q] \in Updating => at[q] \in 1..now
  /\ shared.st # "closed" => shared.since # 0
  /\ \A p \in Routers : poll[p].reset <= resetAt

Shape == StoreShape /\ RouterShape /\ RequestShape /\ Timely

-----------------------------------------------------------------------------
(* What the provers need to know of powers of two and of windows.  The     *)
(* inductions look at the least number of a set that would break the claim. *)

(* A set of natural numbers has a least one.  *)
LEMMA Least ==
  ASSUME NEW S \in SUBSET Nat, S # {}
  PROVE  \E n \in S : \A m \in S : n <= m
  <1>1. PICK b \in S : TRUE
    OBVIOUS
  <1> DEFINE U == 1..b
             Spans == {1..n : n \in S \cap (0..b)}
  <1>2. FiniteSubsetsOf(U) = SUBSET U /\ IsFiniteSet(U)
    BY FS_Interval, FS_Subset DEF FiniteSubsetsOf
  <1>3. Spans \subseteq SUBSET U
    <2>1. \A n \in 0..b : 1..n \subseteq U
      OBVIOUS
    <2> QED
      BY <2>1
  <1>4. Spans # {}
    <2>1. b \in S \cap (0..b)
      OBVIOUS
    <2> QED
      BY <2>1
  <1>5. PICK s \in Spans : \A t \in Spans : ~(<<t, s>> \in StrictSubsetOrdering(U))
    <2> HIDE DEF Spans, U
    <2> QED
      BY <1>2, <1>3, <1>4, FS_StrictSubsetOrderingWellFounded, WFMin
  <1>6. PICK n \in S \cap (0..b) : s = 1..n
    OBVIOUS
  <1>7. ASSUME NEW m \in S, m < n
        PROVE  FALSE
    <2>1. 1..m \in Spans
      BY <1>7
    <2>2. 1..m \subseteq 1..n /\ n \in 1..n /\ n \notin 1..m
      BY <1>7
    <2>3. <<1..m, s>> \in StrictSubsetOrdering(U)
      BY <1>3, <1>6, <2>1, <2>2 DEF StrictSubsetOrdering
    <2> HIDE DEF Spans, U
    <2> QED
      BY <1>5, <2>1, <2>3
  <1> QED
    BY <1>7

(* The first powers of two are those of any function that doubles so far. *)
Doubles(f, n) == f = [i \in 0..n |-> IF i = 0 THEN 1 ELSE 2 * f[i - 1]]

LEMMA DoublesFacts ==
  ASSUME NEW n \in Nat, NEW f, Doubles(f, n), NEW i \in 0..n
  PROVE  f[i] = IF i = 0 THEN 1 ELSE 2 * f[i - 1]
  BY DEF Doubles

LEMMA DoublesExists ==
  ASSUME NEW n \in Nat
  PROVE  \E f \in [0..n -> Nat \ {0}] : Doubles(f, n)
  <1> DEFINE Bad == {m \in Nat : ~\E f \in [0..m -> Nat \ {0}] : Doubles(f, m)}
  <1>1. SUFFICES ASSUME Bad # {} PROVE FALSE
    BY DEF Bad
  <1>2. PICK m \in Bad : \A k \in Bad : m <= k
    <2>1. Bad \in SUBSET Nat
      OBVIOUS
    <2> HIDE DEF Bad
    <2> QED
      BY <1>1, <2>1, Least
  <1>3. m # 0
    <2> DEFINE f == [i \in 0..0 |-> 1]
    <2>1. f \in [0..0 -> Nat \ {0}] /\ Doubles(f, 0)
      BY DEF Doubles
    <2> QED
      BY <1>2, <2>1
  <1>4. PICK f \in [0..(m - 1) -> Nat \ {0}] : Doubles(f, m - 1)
    <2>0. m \in Nat
      OBVIOUS
    <2> HIDE DEF Bad
    <2>1. m - 1 \in Nat /\ m - 1 \notin Bad
      BY <1>2, <1>3, <2>0
    <2> QED
      BY <2>1 DEF Bad
  <1> DEFINE g == [i \in 0..m |-> IF i = m THEN 2 * f[m - 1] ELSE f[i]]
  <1>5. g \in [0..m -> Nat \ {0}]
    BY <1>3
  <1>6. Doubles(g, m)
    <2>1. ASSUME NEW i \in 0..m
          PROVE  g[i] = IF i = 0 THEN 1 ELSE 2 * g[i - 1]
      <3>1. m - 1 \in Nat /\ m \in Nat
        BY <1>2, <1>3
      <3>2. CASE i = m
        BY <1>3, <3>1, <3>2
      <3>3. CASE i # m
        <4>1. i \in 0..(m - 1) /\ g[i] = f[i]
          BY <3>1, <3>3
        <4>2. f[i] = IF i = 0 THEN 1 ELSE 2 * f[i - 1]
          BY <1>4, <3>1, <4>1, DoublesFacts
        <4>3. i # 0 => g[i - 1] = f[i - 1]
          BY <3>1, <4>1
        <4> QED
          BY <4>1, <4>2, <4>3
      <3> QED
        BY <3>2, <3>3
    <2> DEFINE h == [i \in 0..m |-> IF i = 0 THEN 1 ELSE 2 * g[i - 1]]
    <2>2. g = h
      <3>1. \A i \in 0..m : g[i] = h[i]
        <4> HIDE DEF g
        <4> QED
          BY <2>1
      <3> QED
        BY <3>1
    <2> HIDE DEF g
    <2> QED
      BY <2>2 DEF Doubles
  <1> QED
    BY <1>2, <1>5, <1>6

(* They agree where both are defined. *)
LEMMA DoublesAgree ==
  ASSUME NEW n \in Nat, NEW m \in Nat, NEW f, NEW g, Doubles(f, n), Doubles(g, m),
         NEW i \in Nat, i <= n, i <= m
  PROVE  f[i] = g[i]
  <1> DEFINE Bad == {k \in 0..i : f[k] # g[k]}
  <1>1. SUFFICES ASSUME Bad # {} PROVE FALSE
    BY DEF Bad
  <1>2. PICK k \in Bad : \A l \in Bad : k <= l
    <2>1. Bad \in SUBSET Nat
      OBVIOUS
    <2> HIDE DEF Bad
    <2> QED
      BY <1>1, <2>1, Least
  <1>3. k \in 0..n /\ k \in 0..m /\ f[k] # g[k]
    BY <1>2
  <1>4. /\ f[k] = IF k = 0 THEN 1 ELSE 2 * f[k - 1]
        /\ g[k] = IF k = 0 THEN 1 ELSE 2 * g[k - 1]
    BY <1>3, DoublesFacts
  <1>5. k # 0 => k - 1 \notin Bad /\ k - 1 \in 0..i
    BY <1>2
  <1> QED
    BY <1>3, <1>4, <1>5

LEMMA DoubledPositive ==
  ASSUME NEW n \in Nat
  PROVE  Doubled[n] \in Nat \ {0}
  <1> DEFINE F(m) == CHOOSE f : f \in [0..m -> Nat \ {0}] /\ Doubles(f, m)
             g == [i \in Nat |-> F(i)[i]]
             h == [i \in Nat |-> IF i = 0 THEN 1 ELSE 2 * g[i - 1]]
  <1>1. ASSUME NEW m \in Nat
        PROVE  F(m) \in [0..m -> Nat \ {0}] /\ Doubles(F(m), m)
    BY DoublesExists
  <1>2. g \in [Nat -> Nat \ {0}]
    <2>1. ASSUME NEW i \in Nat
          PROVE  F(i)[i] \in Nat \ {0}
      <3>1. F(i) \in [0..i -> Nat \ {0}]
        BY <1>1
      <3> HIDE DEF F
      <3> QED
        BY <3>1
    <2> HIDE DEF F
    <2> QED
      BY <2>1
  <1>3. g = h
    <2>1. ASSUME NEW i \in Nat
          PROVE  g[i] = h[i]
      <3>0. i # 0 => i - 1 \in Nat
        OBVIOUS
      <3>1. g[i] = F(i)[i] /\ (i # 0 => g[i - 1] = F(i - 1)[i - 1])
        <4> HIDE DEF F
        <4> QED
          BY <3>0
      <3>2. F(i)[i] = IF i = 0 THEN 1 ELSE 2 * F(i)[i - 1]
        <4>1. Doubles(F(i), i) /\ i \in 0..i
          BY <1>1
        <4> HIDE DEF F
        <4> QED
          BY <4>1, DoublesFacts
      <3>3. i # 0 => F(i)[i - 1] = F(i - 1)[i - 1]
        <4>1. i # 0 => Doubles(F(i), i) /\ Doubles(F(i - 1), i - 1)
          BY <1>1, <3>0
        <4> HIDE DEF F
        <4> QED
          BY <3>0, <4>1, DoublesAgree
      <3>4. h[i] = IF i = 0 THEN 1 ELSE 2 * g[i - 1]
        <4> HIDE DEF g
        <4> QED
          OBVIOUS
      <3> HIDE DEF F, g, h
      <3> QED
        BY <3>1, <3>2, <3>3, <3>4
    <2>2. g = [i \in Nat |-> g[i]] /\ h = [i \in Nat |-> h[i]]
      <3> HIDE DEF F
      <3> QED
        OBVIOUS
    <2> HIDE DEF g, h
    <2> QED
      BY <2>1, <2>2
  <1>4. \E f : f = [i \in Nat |-> IF i = 0 THEN 1 ELSE 2 * f[i - 1]]
    <2> HIDE DEF g
    <2> QED
      BY <1>3
  <1>5. Doubled = [i \in Nat |-> IF i = 0 THEN 1 ELSE 2 * Doubled[i - 1]]
    BY <1>4, Zenon DEF Doubled
  <1>6. \A i \in Nat : Doubled[i] = IF i = 0 THEN 1 ELSE 2 * Doubled[i - 1]
    BY <1>5
  <1> DEFINE Bad == {m \in Nat : Doubled[m] \notin Nat \ {0}}
  <1>7. SUFFICES ASSUME Bad # {} PROVE FALSE
    BY DEF Bad
  <1>8. PICK m \in Bad : \A k \in Bad : m <= k
    <2>1. Bad \in SUBSET Nat
      OBVIOUS
    <2> HIDE DEF Bad
    <2> QED
      BY <1>7, <2>1, Least
  <1>9. m # 0 => m - 1 \in Nat /\ m - 1 \notin Bad
    BY <1>8
  <1> QED
    BY <1>6, <1>8, <1>9

(* What is left of a window is a window, and no longer.                    *)
LEMMA PrunedFits ==
  ASSUME NEW S, NEW w \in Seq(S), NEW t
  PROVE  Pruned(w, t) \in Seq(S) /\ Len(Pruned(w, t)) <= Len(w)
  <1> DEFINE I == {i \in 1..Len(w) : w[i].at + WindowTicks >= t}
             n == IF I # {} THEN Min(I) ELSE 0
  <1>1. SelectInSeq(w, LAMBDA e : e.at + WindowTicks >= t) = n
    BY Zenon DEF SelectInSeq
  <1>2. Len(w) \in Nat
    OBVIOUS
  <1>3. I # {} => n \in 1..Len(w)
    <2>1. ASSUME I # {}
          PROVE  \E i \in I : \A j \in I : i <= j
      <3>1. I \in SUBSET Nat
        OBVIOUS
      <3> HIDE DEF I
      <3> QED
        BY <2>1, <3>1, Least
    <2>2. I # {} => Min(I) \in I
      BY <2>1 DEF Min
    <2> QED
      BY <2>2
  <1>4. Pruned(w, t) = IF n = 0 THEN <<>> ELSE SubSeq(w, n, Len(w))
    BY <1>1, Zenon DEF Pruned
  <1>5. CASE n = 0
    BY <1>2, <1>4, <1>5
  <1>6. CASE n # 0
    <2>1. n \in 1..Len(w)
      BY <1>3, <1>6
    <2> HIDE DEF n
    <2>2. \A i \in n..Len(w) : w[i] \in S
      BY <2>1
    <2>3. SubSeq(w, n, Len(w)) \in Seq(S)
          /\ Len(SubSeq(w, n, Len(w))) = (IF n <= Len(w) THEN Len(w) - n + 1 ELSE 0)
      BY <1>2, <2>1, <2>2, SubSeqProperties
    <2> QED
      BY <1>2, <1>4, <1>6, <2>1, <2>3
  <1> QED
    BY <1>5, <1>6

-----------------------------------------------------------------------------
(* The transition functions. *)

LEMMA ClosedShape == Closed \in Circuits
  BY DEF Closed, Circuits, States

(* A circuit opens for some time, and for no longer than the cap.          *)
LEMMA DurationBounds ==
  ASSUME NEW n \in Nat
  PROVE  OpenDuration(n) \in 1..MaxOpen
  <1>1. Doubled[n] \in Nat \ {0}
    BY DoubledPositive
  <1>2. BaseOpen * Doubled[n] \in Nat \ {0}
    BY <1>1, BreakerAssumption, SMTT(30)
  <1> QED
    BY <1>2, BreakerAssumption DEF OpenDuration, Smaller

LEMMA DurationIsInt == ASSUME NEW n \in Nat PROVE OpenDuration(n) \in Int
  BY DurationBounds, BreakerAssumption

(* A circuit stays one when some of its fields change. *)
LEMMA SetState ==
  ASSUME NEW c \in Circuits, NEW s \in States, NEW n \in Nat
  PROVE  [c EXCEPT !.st = s, !.opened = n] \in Circuits
  BY DEF Circuits

LEMMA SetSpan ==
  ASSUME NEW c \in Circuits, NEW n \in Nat, NEW i \in Int
  PROVE  [c EXCEPT !.since = n, !.until = i] \in Circuits
  BY DEF Circuits

LEMMA SetStreak ==
  ASSUME NEW c \in Circuits, NEW n \in Nat, NEW m \in Nat
  PROVE  [c EXCEPT !.reopen = n, !.since = m] \in Circuits
  BY DEF Circuits

LEMMA SetProbing ==
  ASSUME NEW c \in Circuits, NEW s \in States, NEW i \in Int
  PROVE  [c EXCEPT !.st = s, !.until = i] \in Circuits
  BY DEF Circuits

LEMMA SetLease ==
  ASSUME NEW c \in Circuits, NEW k \in Tokens \cup {None}, NEW n \in Nat
  PROVE  [c EXCEPT !.token = k, !.lease = n] \in Circuits
  BY DEF Circuits

LEMMA SetReopen ==
  ASSUME NEW c \in Circuits, NEW n \in Nat
  PROVE  [c EXCEPT !.reopen = n] \in Circuits
  BY DEF Circuits

LEMMA ExtendLease ==
  ASSUME NEW c \in Circuits, NEW n \in Nat
  PROVE  [c EXCEPT !.lease = n] \in Circuits
  BY DEF Circuits

LEMMA TransitionShapes ==
  ASSUME NEW c \in Circuits, NEW t \in Nat
  PROVE  /\ Tripped(c, t) \in Circuits
         /\ Renewed(c, t) \in Circuits
         /\ Released(c) \in Circuits
         /\ Reopened(c, t) \in Circuits
         /\ AuthMode(c, t) \in Circuits
  <1>1. /\ c.since \in Nat /\ c.reopen \in Nat /\ c.reopen + 1 \in Nat
        /\ "open" \in States /\ "auth" \in States
        /\ 0 \in Nat /\ None \in Tokens \cup {None}
    BY DEF Circuits, States
  <1>2. /\ t + OpenDuration(c.reopen) \in Int /\ t + OpenDuration(c.reopen + 1) \in Int
        /\ t + ProbeLease \in Nat
    BY <1>1, DurationIsInt, BreakerAssumption
  <1>3. Tripped(c, t) \in Circuits
    <2>1. [Closed EXCEPT !.st = "open", !.opened = t] \in Circuits
      BY <1>1, ClosedShape, SetState, Zenon
    <2>2. [[Closed EXCEPT !.st = "open", !.opened = t]
             EXCEPT !.since = t, !.until = t + OpenDuration(c.reopen)] \in Circuits
      BY <1>2, <2>1, SetSpan, Zenon
    <2>3. [[[Closed EXCEPT !.st = "open", !.opened = t]
              EXCEPT !.since = t, !.until = t + OpenDuration(c.reopen)]
             EXCEPT !.reopen = c.reopen] \in Circuits
      BY <1>1, <2>2, SetReopen, Zenon
    <2> QED
      BY <2>3, Zenon DEF Tripped
  <1>4. Renewed(c, t) \in Circuits
    BY <1>2, ExtendLease, Zenon DEF Renewed
  <1>5. Released(c) \in Circuits
    BY <1>1, SetLease, Zenon DEF Released
  <1>6. Reopened(c, t) \in Circuits
    <2>1. [Closed EXCEPT !.st = "open", !.opened = t] \in Circuits
      BY <1>1, ClosedShape, SetState, Zenon
    <2>2. [[Closed EXCEPT !.st = "open", !.opened = t]
             EXCEPT !.since = c.since, !.until = t + OpenDuration(c.reopen + 1)] \in Circuits
      BY <1>1, <1>2, <2>1, SetSpan, Zenon
    <2>3. [[[Closed EXCEPT !.st = "open", !.opened = t]
              EXCEPT !.since = c.since, !.until = t + OpenDuration(c.reopen + 1)]
             EXCEPT !.reopen = c.reopen + 1] \in Circuits
      BY <1>1, <2>2, SetReopen, Zenon
    <2> QED
      BY <2>3, Zenon DEF Reopened
  <1>7. AuthMode(c, t) \in Circuits
    <2>1. [Closed EXCEPT !.st = "auth", !.opened = t] \in Circuits
      BY <1>1, ClosedShape, SetState, Zenon
    <2>2. (IF c.since # 0 THEN c.since ELSE t) \in Nat
      BY <1>1
    <2>3. [[Closed EXCEPT !.st = "auth", !.opened = t]
             EXCEPT !.reopen = c.reopen, !.since = IF c.since # 0 THEN c.since ELSE t]
            \in Circuits
      BY <1>1, <2>1, <2>2, SetStreak, Zenon
    <2> QED
      BY <2>3, Zenon DEF AuthMode
  <1> QED
    BY <1>3, <1>4, <1>5, <1>6, <1>7

LEMMA ProbingShape ==
  ASSUME NEW c \in Circuits, NEW t \in Nat, NEW k \in Tokens
  PROVE  Probing(c, t, k) \in Circuits
  <1>1. /\ "half_open" \in States /\ 0 \in Int /\ k \in Tokens \cup {None}
        /\ t + ProbeLease \in Nat
    BY BreakerAssumption DEF States
  <1>2. [c EXCEPT !.st = "half_open", !.until = 0] \in Circuits
    BY <1>1, SetProbing, Zenon
  <1>3. [[c EXCEPT !.st = "half_open", !.until = 0]
           EXCEPT !.token = k, !.lease = t + ProbeLease] \in Circuits
    BY <1>1, <1>2, SetLease, Zenon
  <1> QED
    BY <1>3, Zenon DEF Probing

(* What the transition functions make of the state and of the streak. *)
LEMMA Transitions ==
  ASSUME NEW c \in Circuits, NEW t \in Nat
  PROVE  /\ Tripped(c, t).st = "open" /\ Tripped(c, t).since = t
         /\ Renewed(c, t).st = c.st /\ Renewed(c, t).since = c.since
         /\ Renewed(c, t).token = c.token /\ Renewed(c, t).lease = t + ProbeLease
         /\ Released(c).st = c.st /\ Released(c).since = c.since
         /\ Reopened(c, t).st = "open" /\ Reopened(c, t).since = c.since
         /\ AuthMode(c, t).st = "auth"
         /\ AuthMode(c, t).since = IF c.since # 0 THEN c.since ELSE t
  BY DEF Circuits, Closed, Tripped, Renewed, Released, Reopened, AuthMode

LEMMA ProbeBegins ==
  ASSUME NEW c \in Circuits, NEW t, NEW k
  PROVE  /\ Probing(c, t, k).st = "half_open" /\ Probing(c, t, k).since = c.since
         /\ Probing(c, t, k).token = k /\ Probing(c, t, k).lease = t + ProbeLease
  BY DEF Circuits, Probing

(* A verdict closes the circuit, keeps it open or gives the lease back. *)
LEMMA ConcludedShape ==
  ASSUME NEW c \in Circuits, NEW t \in Nat, NEW v
  PROVE  /\ Concluded(c, v, t) \in Circuits
         /\ Concluded(c, v, t).st \in {"closed", "open", c.st}
         /\ Concluded(c, v, t).st = "closed" => v = "success" \/ c.st = "closed"
         /\ Concluded(c, v, t).st # "closed" => Concluded(c, v, t).since = c.since
  <1>1. CASE v = "success"
    <2>1. Concluded(c, v, t) = Closed
      BY <1>1 DEF Concluded
    <2> QED
      BY <1>1, <2>1, ClosedShape DEF Closed
  <1>2. CASE v = "failure"
    <2>1. Concluded(c, v, t) = Reopened(c, t)
      BY <1>2 DEF Concluded
    <2>2. Reopened(c, t) \in Circuits
      BY TransitionShapes
    <2>3. Reopened(c, t).st = "open" /\ Reopened(c, t).since = c.since
      BY Transitions
    <2> QED
      BY <2>1, <2>2, <2>3
  <1>3. CASE v \notin {"success", "failure"}
    <2>1. Concluded(c, v, t) = Released(c)
      BY <1>3 DEF Concluded
    <2>2. Released(c) \in Circuits
      BY TransitionShapes
    <2>3. Released(c).st = c.st /\ Released(c).since = c.since
      BY Transitions
    <2> QED
      BY <2>1, <2>2, <2>3
  <1> QED
    BY <1>1, <1>2, <1>3

LEMMA ViewShape ==
  ASSUME NEW c \in Circuits, now \in Nat
  PROVE  View(c) \in CopyShapes /\ View(c).st = c.st
  BY DEF View, Left, CopyShapes, Circuits

-----------------------------------------------------------------------------
(* Requests and routers step by step. *)

(* A request ends, is over with a verdict to give, or has a window to trip. *)
Closing(q) ==
  \E s \in {"admit", "verdict", "trip"} :
    /\ pc' = [pc EXCEPT ![q] = s]
    /\ at' = [at EXCEPT ![q] = IF s = "admit" THEN 0 ELSE now]
    /\ s # "verdict" => token[q] = None

LEMMA OverCloses ==
  ASSUME NEW q \in Requests, NEW v \in Verdicts, NEW w, NEW st, RequestShape, Over(q, v, w, st)
  PROVE  /\ Closing(q)
         /\ verdict' = verdict \/ verdict' = [verdict EXCEPT ![q] = v]
         /\ token' = token /\ UNCHANGED <<freshFor, poll, seenReset>>
  <1>1. token' = token /\ UNCHANGED <<freshFor, poll, seenReset>>
    BY DEF Over
  <1>2. CASE token[q] # None
    BY <1>1, <1>2 DEF Over, Begin, Step, Closing
  <1>3. CASE token[q] = None
    BY <1>1, <1>3 DEF Over, Begin, Ended, Step, Closing
  <1> QED
    BY <1>1, <1>2, <1>3

LEMMA ClosingShape ==
  ASSUME NEW q \in Requests, StoreShape, RequestShape, Timely, Closing(q), now' = now
  PROVE  /\ pc' \in [Requests -> Steps] /\ at' \in [Requests -> Nat]
         /\ \A r \in Requests : pc'[r] \in Updating => at'[r] \in 1..now'
  <1>1. PICK s \in {"admit", "verdict", "trip"} :
          /\ pc' = [pc EXCEPT ![q] = s]
          /\ at' = [at EXCEPT ![q] = IF s = "admit" THEN 0 ELSE now]
    BY DEF Closing
  <1>2. pc' \in [Requests -> Steps] /\ at' \in [Requests -> Nat]
    BY <1>1 DEF StoreShape, RequestShape, Steps
  <1>3. ASSUME NEW r \in Requests, pc'[r] \in Updating PROVE at'[r] \in 1..now'
    BY <1>1, <1>3 DEF StoreShape, RequestShape, Timely, Updating
  <1> QED
    BY <1>2, <1>3

(* What a router's update does to its copy and what it leaves alone. *)
CopyTaken(q) ==
  /\ cache' = [cache EXCEPT ![RouterOf[q]] = View(shared')]
  /\ UNCHANGED <<freshFor, poll, seenReset>>
CopyKept == UNCHANGED <<cache, freshFor, poll, seenReset>>

LEMMA CopiesKept ==
  ASSUME NEW q \in Requests, shared' \in Circuits, StoreShape, RouterShape, now' = now,
         CopyTaken(q) \/ CopyKept
  PROVE  RouterShape'
  <1>1. CASE CopyKept
    BY <1>1 DEF CopyKept, RouterShape
  <1>2. CASE CopyTaken(q)
    <2>1. View(shared') \in CopyShapes
      BY ViewShape DEF StoreShape
    <2> QED
      BY <1>2, <2>1, BreakerAssumption DEF CopyTaken, RouterShape
  <1> QED
    BY <1>1, <1>2

(* The store's part of Shape. *)
StreakStarted == shared.st # "closed" => shared.since # 0

(* The requests' part of Timely. *)
ClockRead == \A q \in Requests : pc[q] \in Updating => at[q] \in 1..now
PollsHonest == \A p \in Routers : poll[p].reset <= resetAt

LEMMA TimelyParts == Timely <=> ClockRead /\ StreakStarted /\ PollsHonest
  BY DEF Timely, ClockRead, StreakStarted, PollsHonest

(* A request moves on to a step s, with its clock read when it must be. *)
Moving(q, s, a) ==
  /\ pc' = [pc EXCEPT ![q] = s] /\ at' = [at EXCEPT ![q] = a]
  /\ s \in Steps /\ a \in Nat /\ (s \in Updating => a \in 1..now)

LEMMA MovingShape ==
  ASSUME NEW q \in Requests, NEW s, NEW a, RequestShape, ClockRead, Moving(q, s, a), now' = now
  PROVE  /\ pc' \in [Requests -> Steps] /\ at' \in [Requests -> Nat]
         /\ ClockRead'
  BY DEF RequestShape, ClockRead, Moving

LEMMA BeginMoves ==
  ASSUME NEW q \in Requests, NEW s \in Steps, NEW st, StoreShape, Begin(q, s, st)
  PROVE  Moving(q, s, now)
  BY DEF Begin, Step, Moving, StoreShape

LEMMA EndedMoves ==
  ASSUME NEW q \in Requests, NEW s \in Steps \ Updating, Ended(q, s)
  PROVE  Moving(q, s, 0)
  BY DEF Ended, Step, Moving

LEMMA ClosingMoves ==
  ASSUME NEW q \in Requests, StoreShape, Closing(q)
  PROVE  \E s \in Steps, a \in Nat : Moving(q, s, a)
  <1>1. PICK s \in {"admit", "verdict", "trip"} :
          /\ pc' = [pc EXCEPT ![q] = s]
          /\ at' = [at EXCEPT ![q] = IF s = "admit" THEN 0 ELSE now]
    BY DEF Closing
  <1>2. Moving(q, s, IF s = "admit" THEN 0 ELSE now)
    BY <1>1 DEF Moving, StoreShape, Steps, Updating
  <1>3. s \in Steps /\ (IF s = "admit" THEN 0 ELSE now) \in Nat
    BY DEF StoreShape, Steps
  <1> QED
    BY <1>2, <1>3

(* What a step of the request q comes to, whatever it stores. *)
Handled(q) ==
  /\ now' = now /\ resetAt' = resetAt
  /\ CopyTaken(q) \/ CopyKept
  /\ \/ pc' = pc /\ at' = at
     \/ \E s \in Steps, a \in Nat : Moving(q, s, a)
  /\ token' \in [Requests -> Tokens \cup {None}]
  /\ verdict' \in [Requests -> Verdicts]

LEMMA HandledShape ==
  ASSUME NEW q \in Requests, Shape, Handled(q), shared' \in Circuits, closedAgo' \in Nat, StreakStarted'
  PROVE  Shape'
  <1> USE DEF Shape
  <1>1. ClockRead /\ PollsHonest
    BY TimelyParts
  <1>2. RouterShape'
    BY CopiesKept DEF Handled
  <1>3. PollsHonest'
    BY <1>1 DEF PollsHonest, Handled, CopyTaken, CopyKept
  <1>4. StoreShape'
    BY DEF StoreShape, Handled
  <1>5. RequestShape' /\ ClockRead'
    <2>1. CASE pc' = pc /\ at' = at
      BY <1>1, <2>1 DEF Handled, RequestShape, ClockRead
    <2>2. CASE \E s \in Steps, a \in Nat : Moving(q, s, a)
      <3>1. PICK s \in Steps, a \in Nat : Moving(q, s, a)
        BY <2>2
      <3> QED
        BY <1>1, <3>1, MovingShape DEF Handled, RequestShape
    <2> QED
      BY <2>1, <2>2 DEF Handled
  <1>6. Timely' <=> ClockRead' /\ StreakStarted' /\ PollsHonest'
    BY DEF Timely, ClockRead, StreakStarted, PollsHonest
  <1> QED
    BY <1>2, <1>3, <1>4, <1>5, <1>6

(* What the store holds after a step. *)
Held == shared' \in Circuits /\ closedAgo' \in Nat /\ StreakStarted'

LEMMA UnchangedHeld == ASSUME Shape, Unchanged PROVE Held
  BY DEF Unchanged, Held, Shape, StoreShape, Timely, StreakStarted

LEMMA StoreHeld ==
  ASSUME Shape, NEW c \in Circuits, Store(c), c.st # "closed" => c.since # 0
  PROVE  Held
  BY DEF Store, Held, Shape, StoreShape, StreakStarted

LEMMA OverHandled ==
  ASSUME Shape, NEW q \in Requests, NEW v \in Verdicts, NEW w, NEW st,
         Over(q, v, w, st), now' = now, resetAt' = resetAt,
         cache' = cache \/ cache' = [cache EXCEPT ![RouterOf[q]] = View(shared')]
  PROVE  Handled(q)
  <1> USE DEF Shape
  <1>1. /\ Closing(q)
        /\ verdict' = verdict \/ verdict' = [verdict EXCEPT ![q] = v]
        /\ token' = token /\ UNCHANGED <<freshFor, poll, seenReset>>
    BY OverCloses
  <1>2. \E s \in Steps, a \in Nat : Moving(q, s, a)
    BY <1>1, ClosingMoves
  <1>3. verdict' \in [Requests -> Verdicts] /\ token' \in [Requests -> Tokens \cup {None}]
    BY <1>1 DEF RequestShape
  <1>4. CopyTaken(q) \/ CopyKept
    BY <1>1 DEF CopyTaken, CopyKept
  <1> QED
    BY <1>2, <1>3, <1>4 DEF Handled

LEMMA EndsWithHandled ==
  ASSUME Shape, NEW q \in Requests, NEW v \in Verdicts, EndsWith(q, v)
  PROVE  Handled(q) /\ Unchanged
  <1>1. /\ Over(q, v, window[RouterOf[q]], cache[RouterOf[q]].st)
        /\ now' = now /\ resetAt' = resetAt /\ cache' = cache /\ Unchanged
    BY DEF EndsWith, Unchanged, history
  <1> QED
    BY <1>1, OverHandled

LEMMA RefusalIsVerdict == \A q \in Requests : Refusal(q) \in Verdicts
  BY DEF Refusal, Verdicts

(* A step of q that asks nothing of its router's copy. *)
LEMMA QuietKeeps == ASSUME Quiet PROVE CopyKept
  BY DEF Quiet, router, CopyKept

LEMMA CopiesTake == ASSUME NEW q \in Requests, NEW w, Copies(RouterOf[q], w) PROVE CopyTaken(q)
  BY DEF Copies, CopyTaken

LEMMA DecideHandled ==
  ASSUME Shape, NEW q \in Requests, Decide(q)
  PROVE  Handled(q) /\ Unchanged
  <1> USE DEF Shape
  <1>1. CASE Verdict(cache[RouterOf[q]]) = "closed" /\ ~EndsWith(q, Refusal(q))
    <2>1. Step(q, Onward(q)) /\ Quiet /\ now' = now /\ resetAt' = resetAt /\ Unchanged
          /\ token' = token /\ verdict' = verdict /\ at' = at
      BY <1>1 DEF Decide, Unchanged, history
    <2>2. Moving(q, Onward(q), at[q]) /\ Onward(q) \in Steps /\ at[q] \in Nat
      BY <2>1 DEF Step, Moving, Onward, RequestShape, Steps, Updating
    <2> QED
      BY <2>1, <2>2, QuietKeeps DEF Handled, RequestShape
  <1>2. CASE Verdict(cache[RouterOf[q]]) = "probe" /\ ~EndsWith(q, Refusal(q))
    <2> DEFINE s == IF pc[q] = "admit" THEN "acquire" ELSE "reacquire"
    <2>1. Begin(q, s, cache[RouterOf[q]].st) /\ Quiet /\ now' = now /\ resetAt' = resetAt
          /\ Unchanged /\ token' = token /\ verdict' = verdict
      BY <1>2 DEF Decide, Unchanged, history
    <2>2. s \in Steps /\ now \in Nat
      BY DEF Steps, StoreShape
    <2>3. Moving(q, s, now)
      BY <2>1, <2>2, BeginMoves
    <2> QED
      BY <2>1, <2>2, <2>3, QuietKeeps DEF Handled, RequestShape
  <1>3. CASE EndsWith(q, Refusal(q))
    BY <1>3, EndsWithHandled, RefusalIsVerdict
  <1> QED
    BY <1>1, <1>2, <1>3 DEF Decide

LEMMA AcquireHandled ==
  ASSUME Shape, NEW q \in Requests, NEW k \in Tokens, Acquire(q, k)
  PROVE  Handled(q) /\ Held
  <1> USE DEF Shape
  <1>1. Onward(q) \in Steps \ Updating
    BY DEF Onward, Steps, Updating
  <1>2. Moving(q, Onward(q), 0)
    BY <1>1, EndedMoves DEF Acquire
  <1>3. CopyTaken(q)
    BY CopiesTake DEF Acquire
  <1>4. token' \in [Requests -> Tokens \cup {None}] /\ verdict' \in [Requests -> Verdicts]
    BY DEF Acquire, RequestShape
  <1>5. Handled(q)
    BY <1>1, <1>2, <1>3, <1>4 DEF Handled, Acquire
  <1>6. at[q] \in Nat /\ shared \in Circuits
    BY DEF RequestShape, StoreShape
  <1>7. Probing(shared, at[q], k) \in Circuits /\ Probing(shared, at[q], k).since # 0
    BY <1>6, ProbingShape, ProbeBegins DEF Acquire, CanProbe, Timely
  <1> QED
    BY <1>5, <1>7, StoreHeld DEF Acquire

LEMMA AcquireRefusedHandled ==
  ASSUME Shape, NEW q \in Requests, AcquireRefused(q)
  PROVE  Handled(q) /\ Unchanged
  <1> USE DEF Shape
  <1>1. CASE shared.st = "closed"
    <2>1. Onward(q) \in Steps \ Updating
      BY DEF Onward, Steps, Updating
    <2>2. Moving(q, Onward(q), 0)
      BY <1>1, <2>1, EndedMoves DEF AcquireRefused
    <2>3. CopyTaken(q)
      BY <1>1, CopiesTake DEF AcquireRefused
    <2> QED
      BY <1>1, <2>1, <2>2, <2>3 DEF AcquireRefused, Handled, RequestShape
  <1>2. CASE shared.st # "closed"
    <2>1. shared' = shared
      BY DEF AcquireRefused, Unchanged
    <2>2. Over(q, Refusal(q), Remembered(RouterOf[q], before[q]), shared.st)
          /\ cache' = [cache EXCEPT ![RouterOf[q]] = View(shared')]
          /\ now' = now /\ resetAt' = resetAt
      BY <1>2, <2>1 DEF AcquireRefused
    <2> QED
      BY <2>2, OverHandled, RefusalIsVerdict DEF AcquireRefused
  <1> QED
    BY <1>1, <1>2

LEMMA PrepareHandled ==
  ASSUME Shape, NEW q \in Requests, Prepare(q)
  PROVE  Handled(q) /\ Unchanged
  <1> USE DEF Shape
  <1>1. CopyKept /\ Unchanged /\ now' = now /\ resetAt' = resetAt /\ token' = token
        /\ verdict' = verdict
    BY QuietKeeps DEF Prepare, Unchanged, history
  <1>2. CASE token[q] = None
    <2>1. Moving(q, "sending", at[q]) /\ "sending" \in Steps /\ at[q] \in Nat
      BY <1>2 DEF Prepare, Step, Moving, RequestShape, Steps, Updating
    <2> QED
      BY <1>1, <2>1 DEF Handled, RequestShape
  <1>3. CASE token[q] # None
    <2>1. "renew" \in Steps /\ now \in Nat
      BY DEF Steps, StoreShape
    <2>2. Moving(q, "renew", now)
      BY <1>3, <2>1, BeginMoves DEF Prepare
    <2> QED
      BY <1>1, <2>1, <2>2 DEF Handled, RequestShape
  <1> QED
    BY <1>2, <1>3

LEMMA RenewHandled ==
  ASSUME Shape, NEW q \in Requests, Renew(q)
  PROVE  Handled(q) /\ Held
  <1> USE DEF Shape
  <1>1. \E s \in Steps, a \in Nat : Moving(q, s, a)
    <2>1. "sending" \in Steps \ Updating /\ "readmit" \in Steps \ Updating
      BY DEF Steps, Updating
    <2>2. Moving(q, "sending", 0) \/ Moving(q, "readmit", 0)
      BY <2>1, EndedMoves DEF Renew
    <2> QED
      BY <2>1, <2>2
  <1>2. token' \in [Requests -> Tokens \cup {None}] /\ verdict' \in [Requests -> Verdicts]
    BY DEF Renew, Drop, RequestShape
  <1>3. CopyTaken(q)
    BY CopiesTake DEF Renew
  <1>4. Handled(q)
    BY <1>1, <1>2, <1>3 DEF Handled, Renew
  <1>5. at[q] \in Nat /\ shared \in Circuits
    BY DEF RequestShape, StoreShape
  <1>6. CASE HoldsProbe(shared, token[q])
    <2>1. Renewed(shared, at[q]) \in Circuits /\ Renewed(shared, at[q]).since # 0
      BY <1>5, <1>6, TransitionShapes, Transitions DEF HoldsProbe, Timely
    <2> QED
      BY <1>4, <1>6, <2>1, StoreHeld DEF Renew
  <1>7. CASE ~HoldsProbe(shared, token[q])
    BY <1>4, <1>7, UnchangedHeld DEF Renew
  <1> QED
    BY <1>6, <1>7

LEMMA ContinueHandled ==
  ASSUME Shape, NEW q \in Requests, NEW failed \in BOOLEAN, Continue(q, failed)
  PROVE  Handled(q) /\ Unchanged
  <1> USE DEF Shape
  <1> DEFINE s == IF failed /\ token[q] = None THEN "admit" ELSE "ready"
  <1>1. CopyKept /\ Unchanged /\ now' = now /\ resetAt' = resetAt /\ token' = token
        /\ verdict' = verdict /\ at' = at
    BY QuietKeeps DEF Continue, Unchanged, history
  <1>2. s \in Steps /\ s \notin Updating /\ at[q] \in Nat
    BY DEF Steps, Updating, RequestShape
  <1>3. Moving(q, s, at[q])
    BY <1>1, <1>2 DEF Continue, Step, Moving, RequestShape
  <1> QED
    BY <1>1, <1>2, <1>3 DEF Handled, RequestShape

LEMMA UnauthorizedHandled ==
  ASSUME Shape, NEW q \in Requests, Unauthorized(q)
  PROVE  Handled(q) /\ Unchanged
  <1> USE DEF Shape
  <1>1. CopyKept /\ Unchanged /\ now' = now /\ resetAt' = resetAt /\ token' = token
        /\ verdict' = verdict
    BY QuietKeeps DEF Unauthorized, Unchanged, history
  <1>2. "unauthorized" \in Steps /\ now \in Nat
    BY DEF Steps, StoreShape
  <1>3. Moving(q, "unauthorized", now)
    BY <1>2, BeginMoves DEF Unauthorized
  <1> QED
    BY <1>1, <1>2, <1>3 DEF Handled, RequestShape

LEMMA AuthFailureHandled ==
  ASSUME Shape, NEW q \in Requests, AuthFailure(q)
  PROVE  Handled(q) /\ Held
  <1> USE DEF Shape
  <1>1. "neutral" \in Verdicts
    BY DEF Verdicts
  <1>2. Handled(q)
    BY <1>1, OverHandled DEF AuthFailure
  <1>3. shared \in Circuits /\ at[q] \in Nat /\ at[q] # 0
    BY DEF AuthFailure, StoreShape, RequestShape, Timely, Updating
  <1>4. CASE OfActive(q) /\ shared.st # "auth"
    <2>1. AuthMode(shared, at[q]) \in Circuits
      BY <1>3, TransitionShapes
    <2>2. AuthMode(shared, at[q]).since
            = IF shared.since # 0 THEN shared.since ELSE at[q]
      BY <1>3, Transitions
    <2> QED
      BY <1>2, <1>3, <1>4, <2>1, <2>2, StoreHeld DEF AuthFailure
  <1>5. CASE ~(OfActive(q) /\ shared.st # "auth")
    BY <1>2, <1>5, UnchangedHeld DEF AuthFailure
  <1> QED
    BY <1>4, <1>5

LEMMA ConcludeHandled ==
  ASSUME Shape, NEW q \in Requests, Conclude(q)
  PROVE  Handled(q) /\ Held
  <1> USE DEF Shape
  <1>1. "admit" \in Steps \ Updating
    BY DEF Steps, Updating
  <1>2. Moving(q, "admit", 0)
    BY <1>1, EndedMoves DEF Conclude
  <1>3. token' \in [Requests -> Tokens \cup {None}] /\ verdict' \in [Requests -> Verdicts]
    BY DEF Conclude, Drop, RequestShape, Verdicts
  <1>4. CopyTaken(q)
    BY CopiesTake DEF Conclude
  <1>5. Handled(q)
    BY <1>1, <1>2, <1>3, <1>4 DEF Handled, Conclude
  <1>6. CASE HoldsProbe(shared, token[q])
    <2> DEFINE c == Concluded(shared, verdict[q], at[q])
    <2>1. shared \in Circuits /\ at[q] \in Nat /\ shared.since # 0
      BY <1>6 DEF HoldsProbe, StoreShape, RequestShape, Timely
    <2>2. c \in Circuits /\ (c.st # "closed" => c.since # 0)
      BY <2>1, ConcludedShape
    <2>3. Store(c)
      BY <1>6 DEF Conclude
    <2> QED
      BY <1>5, <2>2, <2>3, StoreHeld
  <1>7. CASE ~HoldsProbe(shared, token[q])
    BY <1>5, <1>7, UnchangedHeld DEF Conclude
  <1> QED
    BY <1>5, <1>6, <1>7

LEMMA TripHandled ==
  ASSUME Shape, NEW q \in Requests, Trip(q)
  PROVE  Handled(q) /\ Held
  <1> USE DEF Shape
  <1>1. "admit" \in Steps \ Updating
    BY DEF Steps, Updating
  <1>2. Moving(q, "admit", 0)
    BY <1>1, EndedMoves DEF Trip
  <1>3. CopyTaken(q)
    BY CopiesTake DEF Trip
  <1>4. Handled(q)
    BY <1>1, <1>2, <1>3 DEF Handled, Trip, RequestShape
  <1>5. CASE shared.st = "closed"
    <2>1. shared \in Circuits /\ at[q] \in Nat /\ at[q] # 0
      BY DEF Trip, StoreShape, RequestShape, Timely, Updating
    <2>2. Tripped(shared, at[q]) \in Circuits /\ Tripped(shared, at[q]).since # 0
      BY <2>1, TransitionShapes, Transitions
    <2> QED
      BY <1>4, <1>5, <2>2, StoreHeld DEF Trip
  <1>6. CASE shared.st # "closed"
    BY <1>4, <1>6, UnchangedHeld DEF Trip
  <1> QED
    BY <1>5, <1>6

LEMMA UpdateFailsHandled ==
  ASSUME Shape, NEW q \in Requests, UpdateFails(q)
  PROVE  Handled(q) /\ Unchanged
  <1> USE DEF Shape
  <1>1. CASE EndsWith(q, "neutral")
    BY <1>1, EndsWithHandled DEF Verdicts
  <1>2. CASE ~EndsWith(q, "neutral")
    <2>1. /\ Ended(q, "admit") /\ Drop(q)
          /\ verdict' = [verdict EXCEPT ![q] = "neutral"]
          /\ now' = now /\ resetAt' = resetAt /\ Unchanged /\ Quiet
      BY <1>2 DEF UpdateFails, Unchanged, history
    <2>2. "admit" \in Steps \ Updating /\ 0 \in Nat
      BY DEF Steps, Updating
    <2>3. Moving(q, "admit", 0)
      BY <2>1, <2>2, EndedMoves
    <2>4. token' \in [Requests -> Tokens \cup {None}] /\ verdict' \in [Requests -> Verdicts]
      BY <2>1 DEF Drop, RequestShape, Verdicts
    <2> QED
      BY <2>1, <2>2, <2>3, <2>4, QuietKeeps DEF Handled
  <1> QED
    BY <1>1, <1>2

LEMMA RequestShapeKept ==
  ASSUME Shape, NEW q \in Requests, RequestStep(q)
  PROVE  Shape'
  <1>1. Handled(q) /\ Held
    <2>1. CASE Decide(q)
      BY <2>1, DecideHandled, UnchangedHeld
    <2>2. CASE AcquireRefused(q)
      BY <2>2, AcquireRefusedHandled, UnchangedHeld
    <2>3. CASE \E k \in Tokens : Acquire(q, k)
      BY <2>3, AcquireHandled
    <2>4. CASE Prepare(q)
      BY <2>4, PrepareHandled, UnchangedHeld
    <2>5. CASE Renew(q)
      BY <2>5, RenewHandled
    <2>6. CASE NotSent(q)
      BY <2>6, EndsWithHandled, UnchangedHeld, RefusalIsVerdict DEF NotSent, Verdicts
    <2>7. CASE \E v \in {"success", "failure", "neutral"} : Reply(q, v)
      BY <2>7, EndsWithHandled, UnchangedHeld DEF Reply, Verdicts
    <2>8. CASE \E failed \in BOOLEAN : Continue(q, failed)
      BY <2>8, ContinueHandled, UnchangedHeld
    <2>9. CASE Unauthorized(q)
      BY <2>9, UnauthorizedHandled, UnchangedHeld
    <2>10. CASE AuthFailure(q)
      BY <2>10, AuthFailureHandled
    <2>11. CASE Conclude(q)
      BY <2>11, ConcludeHandled
    <2>12. CASE Trip(q)
      BY <2>12, TripHandled
    <2>13. CASE UpdateFails(q)
      BY <2>13, UpdateFailsHandled, UnchangedHeld
    <2> QED
      BY <2>1, <2>2, <2>3, <2>4, <2>5, <2>6, <2>7, <2>8, <2>9, <2>10, <2>11, <2>12, <2>13
      DEF RequestStep
  <1> QED
    BY <1>1, HandledShape DEF Held

-----------------------------------------------------------------------------
(* The other actions keep the shape. *)

LEMMA PollReadShape ==
  ASSUME Shape, NEW p \in Routers, PollRead(p)
  PROVE  Shape'
  <1> USE DEF Shape
  <1>1. [on |-> TRUE, circuit |-> shared, reset |-> resetAt] \in Polls
    BY DEF StoreShape, Polls
  <1>2. RouterShape'
    BY <1>1 DEF PollRead, RouterShape
  <1>3. RequestShape' /\ StoreShape'
    BY DEF PollRead, request, history, RequestShape, StoreShape
  <1>4. Timely'
    <2>1. \A o \in Routers : poll'[o].reset <= resetAt
      BY <1>1 DEF PollRead, RouterShape, StoreShape, Timely
    <2> QED
      BY <2>1 DEF PollRead, request, Timely
  <1> QED
    BY <1>2, <1>3, <1>4

LEMMA NoPollShape == NoPoll \in Polls /\ NoPoll.reset = 0 /\ NoPoll.on = FALSE
  BY ClosedShape DEF NoPoll, Polls

LEMMA PollEndShape ==
  ASSUME Shape, NEW p \in Routers, PollEnd(p)
  PROVE  Shape'
  <1> USE DEF Shape
  <1>1. poll[p] \in Polls /\ poll[p].circuit \in Circuits /\ poll[p].reset \in Nat
    BY DEF RouterShape, Polls
  <1>2. Held
    <2>1. Store(Closed) \/ Unchanged
      BY DEF PollEnd
    <2> QED
      BY <2>1, ClosedShape, StoreHeld, UnchangedHeld DEF Closed
  <1>3. cache' = [cache EXCEPT ![p] = View(shared')]
        \/ cache' = [cache EXCEPT ![p] = View(poll[p].circuit)]
    BY DEF PollEnd
  <1>4. View(shared') \in CopyShapes /\ View(poll[p].circuit) \in CopyShapes
    BY <1>1, <1>2, ViewShape DEF Held, StoreShape
  <1>5. RouterShape'
    <2>1. cache' \in [Routers -> CopyShapes]
      BY <1>3, <1>4 DEF RouterShape
    <2>2. seenReset' \in [Routers -> Nat]
      BY <1>1 DEF PollEnd, RouterShape
    <2>3. freshFor' \in [Routers -> Nat]
      BY BreakerAssumption DEF PollEnd, RouterShape
    <2>4. poll' \in [Routers -> Polls]
      BY NoPollShape DEF PollEnd, RouterShape
    <2> QED
      BY <2>1, <2>2, <2>3, <2>4 DEF RouterShape
  <1>6. RequestShape' /\ StoreShape'
    BY <1>2 DEF PollEnd, Held, request, RequestShape, StoreShape
  <1>7. Timely'
    <2>1. \A o \in Routers : poll'[o].reset <= resetAt
      BY NoPollShape DEF PollEnd, RouterShape, StoreShape, Timely
    <2> QED
      BY <1>2, <2>1 DEF PollEnd, Held, StreakStarted, request, Timely
  <1> QED
    BY <1>5, <1>6, <1>7

LEMMA PollFailsShape ==
  ASSUME Shape, NEW p \in Routers, PollFails(p)
  PROVE  Shape'
  <1> USE DEF Shape
  <1>1. RouterShape'
    BY NoPollShape DEF PollFails, RouterShape
  <1>2. RequestShape' /\ StoreShape'
    BY DEF PollFails, request, history, RequestShape, StoreShape
  <1>3. \A o \in Routers : poll'[o].reset <= resetAt
    BY NoPollShape DEF PollFails, RouterShape, StoreShape, Timely
  <1> QED
    BY <1>1, <1>2, <1>3 DEF PollFails, request, Timely

LEMMA OtherEngineShape ==
  ASSUME Shape, NEW p \in Routers, OtherEngine(p)
  PROVE  Shape'
  <1> USE DEF Shape
  <1>1. View(shared) \in CopyShapes
    BY ViewShape DEF StoreShape
  <1> QED
    BY <1>1 DEF OtherEngine, RouterShape, RequestShape, StoreShape, Timely, request, history

LEMMA CrashShape ==
  ASSUME Shape, NEW p \in Routers, Crash(p)
  PROVE  Shape'
  <1> USE DEF Shape
  <1>1. NoCopy \in CopyShapes
    BY DEF NoCopy, CopyShapes
  <1>2. RouterShape'
    <2>1. cache' \in [Routers -> CopyShapes] /\ freshFor' \in [Routers -> Nat]
      BY <1>1 DEF Crash, RouterShape
    <2>2. poll' \in [Routers -> Polls] /\ seenReset' \in [Routers -> Nat]
      BY NoPollShape DEF Crash, RouterShape
    <2> QED
      BY <2>1, <2>2 DEF RouterShape
  <1>3. RequestShape'
    <2>1. pc' \in [Requests -> Steps] /\ token' \in [Requests -> Tokens \cup {None}]
      BY DEF Crash, RequestShape, Steps
    <2>2. verdict' \in [Requests -> Verdicts] /\ at' \in [Requests -> Nat]
      BY DEF Crash, RequestShape, Verdicts
    <2> QED
      BY <2>1, <2>2 DEF RequestShape
  <1>4. StoreShape'
    BY DEF Crash, history, StoreShape
  <1>5. Timely'
    <2>1. ASSUME NEW q \in Requests, pc'[q] \in Updating
          PROVE  at'[q] \in 1..now'
      BY <2>1 DEF Crash, Timely, Updating
    <2>2. \A o \in Routers : poll'[o].reset <= resetAt'
      BY NoPollShape DEF Crash, RouterShape, StoreShape, Timely
    <2>3. shared' = shared
      BY DEF Crash
    <2> QED
      BY <2>1, <2>2, <2>3 DEF Timely
  <1> QED
    BY <1>2, <1>3, <1>4, <1>5

LEMMA TickShape ==
  ASSUME Shape, Tick
  PROVE  Shape'
  <1> USE DEF Shape
  <1>0. \A n \in Nat : Minus1(n) \in Nat
    BY DEF Minus1
  <1>1. RouterShape'
    <2>1. freshFor' \in [Routers -> Nat]
      BY <1>0 DEF Tick, RouterShape
    <2>2. ASSUME NEW p \in Routers
          PROVE  [st |-> cache[p].st, deny |-> Minus1(cache[p].deny)] \in CopyShapes
      BY <1>0 DEF RouterShape, CopyShapes
    <2>3. cache' \in [Routers -> CopyShapes]
      BY <2>2 DEF Tick
    <2> QED
      BY <2>1, <2>3 DEF Tick, RouterShape
  <1>2. RequestShape'
    BY DEF Tick, request, RequestShape
  <1>3. StoreShape'
    BY BreakerAssumption DEF Tick, Smaller, StoreShape
  <1>4. Timely'
    BY DEF Tick, request, Timely, StoreShape, RequestShape
  <1> QED
    BY <1>1, <1>2, <1>3, <1>4

LEMMA RequestResetShape ==
  ASSUME Shape, RequestReset
  PROVE  Shape'
  <1> USE DEF Shape
  <1>1. RouterShape' /\ RequestShape' /\ StoreShape'
    BY DEF RequestReset, router, request, history, RouterShape, RequestShape, StoreShape
  <1>2. \A p \in Routers : poll[p].reset \in Nat
    BY DEF RouterShape, Polls
  <1>3. Timely'
    BY <1>2 DEF RequestReset, router, request, Timely, StoreShape
  <1> QED
    BY <1>1, <1>3

LEMMA ActivateShape ==
  ASSUME Shape, Activate
  PROVE  Shape'
  <1> USE DEF Shape
  <1>1. Held
    <2>1. Store(Closed) \/ Unchanged
      BY DEF Activate
    <2> QED
      BY <2>1, ClosedShape, StoreHeld, UnchangedHeld DEF Closed
  <1>2. RouterShape' /\ RequestShape' /\ StoreShape'
    BY <1>1 DEF Activate, Held, router, request, RouterShape, RequestShape, StoreShape
  <1>3. Timely'
    BY <1>1 DEF Activate, Held, StreakStarted, router, request, Timely
  <1> QED
    BY <1>2, <1>3

LEMMA ShapeInitial == Init => Shape
  <1> SUFFICES ASSUME Init PROVE Shape
    OBVIOUS
  <1>1. StoreShape
    BY ClosedShape DEF Init, StoreShape
  <1>2. RouterShape
    BY NoPollShape DEF Init, NoCopy, RouterShape, CopyShapes
  <1>3. RequestShape
    BY DEF Init, RequestShape, Steps, Verdicts
  <1>4. Timely
    BY NoPollShape DEF Init, Timely, Updating, Closed
  <1> QED
    BY <1>1, <1>2, <1>3, <1>4 DEF Shape

LEMMA ShapeKept == Shape /\ [Next]_vars => Shape'
  <1> SUFFICES ASSUME Shape, [Next]_vars PROVE Shape'
    OBVIOUS
  <1>1. ASSUME NEW q \in Requests, RequestStep(q) PROVE Shape'
    BY <1>1, RequestShapeKept
  <1>2. ASSUME NEW p \in Routers, RouterStep(p) PROVE Shape'
    BY <1>2, PollReadShape, PollEndShape, PollFailsShape, OtherEngineShape, CrashShape
    DEF RouterStep
  <1>3. CASE Tick
    BY <1>3, TickShape
  <1>4. CASE RequestReset
    BY <1>4, RequestResetShape
  <1>5. CASE Activate
    BY <1>5, ActivateShape
  <1>6. CASE UNCHANGED vars
    BY <1>6 DEF vars, router, request, history, Shape, StoreShape, RouterShape,
       RequestShape, Timely
  <1> QED
    BY <1>1, <1>2, <1>3, <1>4, <1>5, <1>6 DEF Next, RouterNext

LEMMA ShapeAlways == Spec => []Shape
  BY ShapeInitial, ShapeKept, PTL DEF Spec

-----------------------------------------------------------------------------
(* Only a few steps touch the shared circuit. *)
Idle == UNCHANGED <<shared, active, authOf>>
Touches(q) ==
  \/ \E k \in Tokens : Acquire(q, k)
  \/ Renew(q) \/ AuthFailure(q) \/ Conclude(q) \/ Trip(q)

LEMMA MostlyIdle ==
  ASSUME [Next]_vars
  PROVE  \/ Idle \/ Activate
         \/ \E q \in Requests : Touches(q)
         \/ \E p \in Routers : PollEnd(p)
  <1>1. ASSUME NEW q \in Requests, RequestStep(q) PROVE Idle \/ Touches(q)
    <2>0. ASSUME NEW v, EndsWith(q, v) PROVE Idle
      BY <2>0 DEF EndsWith, history, Idle
    <2>1. CASE Decide(q)
      BY <2>0, <2>1 DEF Decide, history, Idle
    <2>2. CASE AcquireRefused(q)
      BY <2>2 DEF AcquireRefused, Unchanged, Idle
    <2>3. CASE Prepare(q) \/ Unauthorized(q) \/ \E failed \in BOOLEAN : Continue(q, failed)
      BY <2>3 DEF Prepare, Unauthorized, Continue, history, Idle
    <2>4. CASE NotSent(q) \/ \E v \in {"success", "failure", "neutral"} : Reply(q, v)
      BY <2>0, <2>4 DEF NotSent, Reply
    <2>5. CASE UpdateFails(q)
      BY <2>0, <2>5 DEF UpdateFails, history, Idle
    <2> QED
      BY <1>1, <2>1, <2>2, <2>3, <2>4, <2>5 DEF RequestStep, Touches
  <1>2. ASSUME NEW p \in Routers, RouterStep(p) PROVE Idle \/ PollEnd(p)
    BY <1>2 DEF RouterStep, PollRead, PollFails, OtherEngine, Crash, history, Idle
  <1>3. CASE Tick \/ RequestReset \/ UNCHANGED vars
    BY <1>3 DEF Tick, RequestReset, vars, history, Idle
  <1> QED
    BY <1>1, <1>2, <1>3 DEF Next, RouterNext

(* What the steps that touch it make of it. *)
LEMMA TouchedBy ==
  ASSUME Shape, NEW q \in Requests, Touches(q)
  PROVE  /\ active' = active
         /\ \/ shared' = shared /\ authOf' = authOf
            \/ /\ shared'.st \in {"open", "half_open"} /\ authOf' = authOf
               /\ shared.st # "closed" => shared'.since = shared.since
            \/ /\ shared'.st = "auth" /\ authOf' = active
               /\ shared.st # "closed" => shared'.since = shared.since
            \/ /\ shared' = Closed /\ authOf' = authOf
               /\ shared.st = "half_open" /\ token[q] = shared.token
               /\ pc[q] = "verdict" /\ verdict[q] = "success"
  <1>0. shared \in Circuits /\ at[q] \in Nat /\ (shared.st # "closed" => shared.since # 0)
    BY DEF Shape, StoreShape, RequestShape, Timely
  <1>1. ASSUME NEW k \in Tokens, Acquire(q, k)
        PROVE  /\ active' = active /\ authOf' = authOf
               /\ shared'.st = "half_open" /\ shared'.since = shared.since
    <2>1. shared' = Probing(shared, at[q], k) /\ active' = active /\ authOf' = authOf
      BY <1>1 DEF Acquire, Store
    <2> QED
      BY <1>0, <2>1, ProbeBegins
  <1>2. CASE Renew(q)
    <2>1. CASE HoldsProbe(shared, token[q])
      <3>1. shared' = Renewed(shared, at[q]) /\ active' = active /\ authOf' = authOf
            /\ shared.st = "half_open"
        BY <1>2, <2>1 DEF Renew, Store, HoldsProbe
      <3>2. shared'.st = "half_open" /\ shared'.since = shared.since
        BY <1>0, <3>1, Transitions
      <3> QED
        BY <3>1, <3>2
    <2>2. CASE ~HoldsProbe(shared, token[q])
      BY <1>2, <2>2 DEF Renew, Unchanged
    <2> QED
      BY <2>1, <2>2
  <1>3. CASE AuthFailure(q)
    <2>1. CASE OfActive(q) /\ shared.st # "auth"
      <3>1. shared' = AuthMode(shared, at[q]) /\ active' = active /\ authOf' = active
        BY <1>3, <2>1 DEF AuthFailure, Store, OfActive
      <3>2. shared'.st = "auth"
            /\ shared'.since = IF shared.since # 0 THEN shared.since ELSE at[q]
        BY <1>0, <3>1, Transitions
      <3> QED
        BY <1>0, <3>1, <3>2
    <2>2. CASE ~(OfActive(q) /\ shared.st # "auth")
      BY <1>3, <2>2 DEF AuthFailure, Unchanged
    <2> QED
      BY <2>1, <2>2
  <1>4. CASE Conclude(q)
    <2> DEFINE c == Concluded(shared, verdict[q], at[q])
    <2>1. CASE HoldsProbe(shared, token[q])
      <3>1. /\ shared' = c /\ active' = active /\ authOf' = authOf /\ pc[q] = "verdict"
            /\ shared.st = "half_open" /\ token[q] = shared.token
        BY <1>4, <2>1 DEF Conclude, Store, HoldsProbe
      <3>2. CASE verdict[q] = "success"
        <4>1. c = Closed
          BY <3>2 DEF Concluded
        <4> QED
          BY <3>1, <3>2, <4>1
      <3>3. CASE verdict[q] # "success"
        <4>1. /\ c.st \in {"closed", "open", shared.st}
              /\ c.st = "closed" => verdict[q] = "success" \/ shared.st = "closed"
              /\ c.st # "closed" => c.since = shared.since
          BY <1>0, ConcludedShape
        <4>2. c.st \in {"open", "half_open"} /\ c.since = shared.since
          BY <3>1, <3>3, <4>1
        <4> QED
          BY <3>1, <4>2
      <3> QED
        BY <3>2, <3>3
    <2>2. CASE ~HoldsProbe(shared, token[q])
      BY <1>4, <2>2 DEF Conclude, Unchanged
    <2> QED
      BY <2>1, <2>2
  <1>5. CASE Trip(q)
    <2>1. CASE shared.st = "closed"
      <3>1. shared' = Tripped(shared, at[q]) /\ active' = active /\ authOf' = authOf
        BY <1>5, <2>1 DEF Trip, Store
      <3>2. shared'.st = "open"
        BY <1>0, <3>1, Transitions
      <3> QED
        BY <2>1, <3>1, <3>2
    <2>2. CASE shared.st # "closed"
      BY <1>5, <2>2 DEF Trip, Unchanged
    <2> QED
      BY <2>1, <2>2
  <1> QED
    BY <1>1, <1>2, <1>3, <1>4, <1>5 DEF Touches

LEMMA ResetBy ==
  ASSUME Shape, NEW p \in Routers, PollEnd(p)
  PROVE  /\ active' = active /\ authOf' = authOf
         /\ \/ shared' = shared
            \/ shared' = Closed /\ resetAt >= shared.opened
  <1>1. poll[p].reset \in Nat /\ poll[p].reset <= resetAt /\ resetAt \in Nat
        /\ shared.opened \in Nat
    BY DEF Shape, RouterShape, StoreShape, Timely, Polls, Circuits
  <1> QED
    BY <1>1 DEF PollEnd, Store, Unchanged, Resets

LEMMA ActivatedBy ==
  ASSUME Activate, active \in Nat
  PROVE  /\ authOf' = authOf /\ active' # active
         /\ \/ shared' = Closed /\ shared.st = "auth"
            \/ shared' = shared /\ shared.st # "auth"
  BY DEF Activate, Store, Unchanged

LEMMA ClosedIsClosed == Closed.st = "closed"
  BY DEF Closed

-----------------------------------------------------------------------------
(* The theorems about the shared circuit. *)

(* The start of a failing streak survives failed probes, verdicts that     *)
(* come late and auth mode until the breaker closes.                       *)
THEOREM StreakIsKept == Spec => StreakKept
  <1>1. Shape /\ [Next]_vars =>
          (shared.st # "closed" /\ shared'.st # "closed" => shared'.since = shared.since)
    BY MostlyIdle, TouchedBy, ResetBy, ClosedIsClosed DEF Idle, Activate, Store, Unchanged
  <1>2. Shape /\ [Next]_vars =>
          [shared.st # "closed" /\ shared'.st # "closed" => shared'.since = shared.since]_vars
    BY <1>1
  <1> QED
    BY <1>2, ShapeAlways, PTL DEF Spec, StreakKept

(* Auth mode is always the active credential's. *)
THEOREM AuthIsOfActive == Spec => []AuthOfActive
  <1>1. Init => AuthOfActive
    BY ClosedIsClosed DEF Init, AuthOfActive
  <1>2. Shape /\ AuthOfActive /\ [Next]_vars => AuthOfActive'
    BY MostlyIdle, TouchedBy, ResetBy, ClosedIsClosed
    DEF Idle, Activate, Store, Unchanged, AuthOfActive
  <1> QED
    BY <1>1, <1>2, ShapeAlways, PTL DEF Spec

LEMMA ActiveAlways == Spec => [](active \in Nat)
  <1>1. Init => active \in Nat
    BY DEF Init
  <1>2. Shape /\ active \in Nat /\ [Next]_vars => (active \in Nat)'
    BY MostlyIdle, TouchedBy, ResetBy DEF Idle, Activate
  <1> QED
    BY <1>1, <1>2, ShapeAlways, PTL DEF Spec

(* A reason to close: the activation, a reset, or the probe's success. *)
Reason ==
  \/ shared.st = "auth" /\ active' # active
  \/ resetAt >= shared.opened
  \/ /\ shared.st = "half_open"
     /\ \E q \in Requests : /\ pc[q] = "verdict" /\ verdict[q] = "success"
                            /\ token[q] = shared.token

(* The breaker closes only by the success of the probe that holds the      *)
(* lease, by an activation in auth mode, or by a reset no older than the   *)
(* incident.                                                               *)
THEOREM ClosesOnlyForAReason == Spec => ClosesForAReason
  <1>1. ASSUME Shape, active \in Nat, [Next]_vars, shared.st # "closed", shared'.st = "closed"
        PROVE  Reason
    <2>1. CASE Idle
      BY <1>1, <2>1 DEF Idle
    <2>2. CASE Activate
      BY <1>1, <2>2, ActivatedBy DEF Reason
    <2>3. CASE \E q \in Requests : Touches(q)
      <3>1. PICK q \in Requests : Touches(q)
        BY <2>3
      <3>2. /\ shared.st = "half_open" /\ token[q] = shared.token
            /\ pc[q] = "verdict" /\ verdict[q] = "success"
        BY <1>1, <3>1, TouchedBy
      <3> QED
        BY <3>2 DEF Reason
    <2>4. CASE \E p \in Routers : PollEnd(p)
      BY <1>1, <2>4, ResetBy DEF Reason
    <2> QED
      BY <1>1, <2>1, <2>2, <2>3, <2>4, MostlyIdle
  <1>2. Shape /\ active \in Nat /\ [Next]_vars =>
          [shared.st # "closed" /\ shared'.st = "closed" => Reason]_vars
    BY <1>1
  <1>3. [shared.st # "closed" /\ shared'.st = "closed" => Reason]_vars =>
          [shared.st # "closed" /\ shared'.st = "closed" =>
             \/ shared.st = "auth" /\ active' # active
             \/ resetAt >= shared.opened
             \/ /\ shared.st = "half_open"
                /\ \E q \in Requests : /\ pc[q] = "verdict" /\ verdict[q] = "success"
                                       /\ token[q] = shared.token]_vars
    BY DEF Reason
  <1> QED
    BY <1>2, <1>3, ShapeAlways, ActiveAlways, PTL DEF Spec, ClosesForAReason

-----------------------------------------------------------------------------
(* Punctual routers admit without a probe only on a state that held        *)
(* recently.                                                               *)
Recentness ==
  /\ shared.st = "closed" => closedAgo = 0
  /\ \A p \in Routers :
       /\ poll[p].on /\ poll[p].circuit.st = "closed" => closedAgo = 0
       /\ cache[p].st = "closed" => closedAgo + freshFor[p] <= PollTicks
       /\ freshFor[p] <= PollTicks

(* The age of the last closed state grows with the clock only. *)
Younger == closedAgo' = closedAgo \/ closedAgo' = 0

LEMMA StoreYounger ==
  ASSUME NEW c, Store(c), Recentness
  PROVE  Younger /\ shared' = c /\ (shared'.st = "closed" => closedAgo' = 0)
  BY DEF Store, Younger

LEMMA UnchangedYounger ==
  ASSUME Unchanged, Recentness
  PROVE  Younger /\ (shared'.st = "closed" => closedAgo' = 0)
  BY DEF Unchanged, Younger, Recentness

LEMMA HandledRecent ==
  ASSUME Shape, Recentness, NEW q \in Requests, Handled(q), Held, Younger,
         shared'.st = "closed" => closedAgo' = 0
  PROVE  Recentness'
  <1> USE DEF Shape
  <1>1. closedAgo \in Nat /\ closedAgo' \in Nat /\ PollTicks \in Nat
    BY BreakerAssumption DEF Held, StoreShape
  <1>2. ASSUME NEW p \in Routers
        PROVE  /\ poll'[p].on /\ poll'[p].circuit.st = "closed" => closedAgo' = 0
               /\ freshFor'[p] <= PollTicks
    BY DEF Handled, CopyTaken, CopyKept, Recentness, Younger
  <1>3. ASSUME NEW p \in Routers, cache'[p].st = "closed"
        PROVE  closedAgo' + freshFor'[p] <= PollTicks
    <2>1. freshFor' = freshFor /\ freshFor[p] \in Nat /\ freshFor[p] <= PollTicks
      BY DEF Handled, CopyTaken, CopyKept, RouterShape, Recentness
    <2>2. CASE cache'[p] = cache[p]
      BY <1>1, <1>3, <2>1, <2>2 DEF Recentness, Younger
    <2>3. CASE cache'[p] = View(shared')
      <3>1. shared'.st = "closed"
        BY <1>3, <2>3 DEF View
      <3> QED
        BY <1>1, <2>1, <3>1
    <2>4. cache'[p] = cache[p] \/ cache'[p] = View(shared')
      BY DEF Handled, CopyTaken, CopyKept, RouterShape
    <2> QED
      BY <2>2, <2>3, <2>4
  <1> QED
    BY <1>2, <1>3 DEF Recentness

LEMMA RequestRecent ==
  ASSUME Shape, Recentness, NEW q \in Requests, RequestStep(q)
  PROVE  Recentness'
  <1>1. ASSUME Handled(q), Unchanged PROVE Recentness'
    BY <1>1, HandledRecent, UnchangedHeld, UnchangedYounger
  <1>2. ASSUME Handled(q), Held, (\E c : Store(c)) \/ Unchanged PROVE Recentness'
    BY <1>2, HandledRecent, StoreYounger, UnchangedYounger
  <1>3. CASE Decide(q) \/ AcquireRefused(q) \/ Prepare(q) \/ Unauthorized(q) \/ UpdateFails(q)
    BY <1>1, <1>3, DecideHandled, AcquireRefusedHandled, PrepareHandled,
       UnauthorizedHandled, UpdateFailsHandled
  <1>4. CASE NotSent(q) \/ \E v \in {"success", "failure", "neutral"} : Reply(q, v)
    BY <1>1, <1>4, EndsWithHandled, RefusalIsVerdict DEF NotSent, Reply, Verdicts
  <1>5. CASE \E failed \in BOOLEAN : Continue(q, failed)
    BY <1>1, <1>5, ContinueHandled
  <1>6. ASSUME NEW k \in Tokens, Acquire(q, k) PROVE Recentness'
    BY <1>2, <1>6, AcquireHandled DEF Acquire
  <1>7. CASE Renew(q)
    BY <1>2, <1>7, RenewHandled DEF Renew
  <1>8. CASE AuthFailure(q)
    BY <1>2, <1>8, AuthFailureHandled DEF AuthFailure
  <1>9. CASE Conclude(q)
    BY <1>2, <1>9, ConcludeHandled DEF Conclude
  <1>10. CASE Trip(q)
    BY <1>2, <1>10, TripHandled DEF Trip
  <1> QED
    BY <1>3, <1>4, <1>5, <1>6, <1>7, <1>8, <1>9, <1>10 DEF RequestStep

LEMMA PollEndRecent ==
  ASSUME Shape, Recentness, NEW p \in Routers, PollEnd(p)
  PROVE  Recentness'
  <1> USE DEF Shape
  <1>1. Younger /\ (shared'.st = "closed" => closedAgo' = 0)
    <2>1. Store(Closed) \/ Unchanged
      BY DEF PollEnd
    <2> QED
      BY <2>1, StoreYounger, UnchangedYounger
  <1>2. closedAgo \in Nat /\ PollTicks \in Nat /\ closedAgo' \in Nat
    BY <1>1, BreakerAssumption DEF StoreShape, Younger
  <1>3. ASSUME NEW o \in Routers
        PROVE  /\ poll'[o].on /\ poll'[o].circuit.st = "closed" => closedAgo' = 0
               /\ freshFor'[o] <= PollTicks
    BY <1>1, <1>2, NoPollShape DEF PollEnd, Recentness, RouterShape, Younger
  <1>4. ASSUME NEW o \in Routers, cache'[o].st = "closed"
        PROVE  closedAgo' + freshFor'[o] <= PollTicks
    <2>1. CASE o = p
      <3>1. freshFor'[o] = PollTicks
        BY <2>1 DEF PollEnd, RouterShape
      <3>2. cache'[o] = View(shared') \/ cache'[o] = View(poll[p].circuit)
        BY <2>1 DEF PollEnd, RouterShape
      <3>3. shared'.st = "closed" \/ poll[p].circuit.st = "closed"
        BY <1>4, <3>2 DEF View
      <3>4. closedAgo' = 0
        BY <1>1, <3>3 DEF PollEnd, Recentness, Younger
      <3> QED
        BY <1>2, <3>1, <3>4
    <2>2. CASE o # p
      <3>1. cache'[o] = cache[o] /\ freshFor'[o] = freshFor[o] /\ freshFor[o] \in Nat
        BY <2>2 DEF PollEnd, RouterShape
      <3>2. closedAgo + freshFor[o] <= PollTicks
        BY <1>4, <3>1 DEF Recentness
      <3> QED
        BY <1>1, <1>2, <3>1, <3>2 DEF Younger
    <2> QED
      BY <2>1, <2>2
  <1> QED
    BY <1>1, <1>3, <1>4 DEF Recentness

LEMMA RouterRecent ==
  ASSUME Shape, Recentness, NEW p \in Routers, RouterStep(p)
  PROVE  Recentness'
  <1> USE DEF Shape
  <1>0. closedAgo \in Nat /\ PollTicks \in Nat /\ freshFor \in [Routers -> Nat]
    BY BreakerAssumption DEF StoreShape, RouterShape
  <1>1. CASE PollRead(p)
    BY <1>0, <1>1 DEF PollRead, history, Recentness, RouterShape
  <1>2. CASE PollEnd(p)
    BY <1>2, PollEndRecent
  <1>3. CASE PollFails(p)
    BY <1>0, <1>3, NoPollShape DEF PollFails, history, Recentness, RouterShape
  <1>4. CASE OtherEngine(p)
    <2>1. ASSUME NEW o \in Routers, cache'[o].st = "closed"
          PROVE  closedAgo' + freshFor'[o] <= PollTicks
      <3>1. closedAgo' = closedAgo /\ freshFor' = freshFor /\ freshFor[o] <= PollTicks
        BY <1>4 DEF OtherEngine, history, Recentness
      <3>2. CASE cache'[o] = cache[o]
        BY <2>1, <3>1, <3>2 DEF Recentness
      <3>3. CASE cache'[o] = View(shared)
        <4>1. closedAgo = 0
          BY <2>1, <3>3 DEF View, Recentness
        <4> QED
          BY <1>0, <3>1, <4>1
      <3>4. cache'[o] = cache[o] \/ cache'[o] = View(shared)
        BY <1>4 DEF OtherEngine, RouterShape
      <3> QED
        BY <3>2, <3>3, <3>4
    <2> QED
      BY <1>4, <2>1 DEF OtherEngine, history, Recentness
  <1>5. CASE Crash(p)
    <2>1. ASSUME NEW o \in Routers
          PROVE  /\ poll'[o].on => poll'[o] = poll[o]
                 /\ freshFor'[o] \in {0, freshFor[o]}
                 /\ cache'[o].st = "closed" => cache'[o] = cache[o] /\ freshFor'[o] = freshFor[o]
      BY <1>5, NoPollShape DEF Crash, NoCopy, RouterShape
    <2> QED
      BY <1>0, <1>5, <2>1 DEF Crash, history, Recentness
  <1> QED
    BY <1>1, <1>2, <1>3, <1>4, <1>5 DEF RouterStep

LEMMA TickRecent ==
  ASSUME Punctual, Shape, Recentness, Tick
  PROVE  Recentness'
  <1> USE DEF Shape
  <1>1. /\ closedAgo \in Nat /\ PollTicks \in Nat \ {0}
        /\ freshFor \in [Routers -> Nat]
    BY BreakerAssumption DEF StoreShape, RouterShape
  <1>2. closedAgo' <= closedAgo + 1 /\ closedAgo' <= PollTicks /\ closedAgo' \in Nat
        /\ (shared'.st = "closed" => closedAgo' = 0)
    BY <1>1 DEF Tick, Smaller
  <1>3. ASSUME NEW p \in Routers
        PROVE  /\ ~poll'[p].on
               /\ freshFor'[p] <= PollTicks
               /\ cache'[p].st = "closed" => closedAgo' + freshFor'[p] <= PollTicks
    <2>1. ~poll[p].on /\ poll' = poll
      BY DEF Tick, TimeIsUp
    <2>2. freshFor'[p] = Minus1(freshFor[p]) /\ cache'[p].st = cache[p].st
      BY DEF Tick
    <2>3. freshFor[p] \in Nat /\ freshFor[p] <= PollTicks
          /\ (cache[p].st = "closed" => closedAgo + freshFor[p] <= PollTicks)
      BY <1>1 DEF Recentness
    <2> QED
      BY <1>1, <1>2, <2>1, <2>2, <2>3 DEF Minus1
  <1> QED
    BY <1>2, <1>3 DEF Recentness

LEMMA RecentKept ==
  ASSUME Punctual
  PROVE  Shape /\ Recentness /\ [Next]_vars => Recentness'
  <1> SUFFICES ASSUME Shape, Recentness, [Next]_vars PROVE Recentness'
    OBVIOUS
  <1>1. ASSUME NEW q \in Requests, RequestStep(q) PROVE Recentness'
    BY <1>1, RequestRecent
  <1>2. ASSUME NEW p \in Routers, RouterStep(p) PROVE Recentness'
    BY <1>2, RouterRecent
  <1>3. CASE Tick
    BY <1>3, TickRecent
  <1>4. CASE RequestReset
    BY <1>4 DEF RequestReset, router, history, Recentness
  <1>5. CASE Activate
    <2>1. Younger /\ (shared'.st = "closed" => closedAgo' = 0)
      BY <1>5, StoreYounger, UnchangedYounger DEF Activate
    <2>2. closedAgo \in Nat /\ freshFor \in [Routers -> Nat] /\ PollTicks \in Nat
      BY BreakerAssumption DEF Shape, StoreShape, RouterShape
    <2> QED
      BY <1>5, <2>1, <2>2 DEF Activate, router, Recentness, Younger
  <1>6. CASE UNCHANGED vars
    BY <1>6 DEF vars, router, history, Recentness
  <1> QED
    BY <1>1, <1>2, <1>3, <1>4, <1>5, <1>6 DEF Next, RouterNext

LEMMA RecentInitial == Init => Recentness
  BY NoPollShape, ClosedIsClosed, BreakerAssumption DEF Init, NoCopy, Recentness

(* A request other than q keeps its place while q moves. *)
LEMMA OthersStay ==
  ASSUME Shape, NEW q \in Requests, Handled(q), NEW r \in Requests, r # q
  PROVE  pc'[r] = pc[r] /\ at'[r] = at[r]
  BY DEF Shape, RequestShape, Handled, Moving

LEMMA AdmittedRecently ==
  ASSUME Shape, Recentness, NEW q \in Requests, RequestStep(q),
         pc[q] \in {"admit", "readmit"}, pc'[q] \in {"ready", "sending"}
  PROVE  closedAgo < PollTicks
  <1> USE DEF Shape
  <1>1. ASSUME NEW v \in Verdicts, NEW w, NEW st, Over(q, v, w, st) PROVE FALSE
    <2>1. Closing(q)
      BY <1>1, OverCloses
    <2> QED
      BY <2>1 DEF Closing, RequestShape
  <1>2. ASSUME NEW v \in Verdicts, EndsWith(q, v) PROVE FALSE
    BY <1>1, <1>2 DEF EndsWith
  <1>3. CASE Decide(q)
    <2>1. ~EndsWith(q, Refusal(q))
      BY <1>2, RefusalIsVerdict
    <2>2. Verdict(cache[RouterOf[q]]) = "closed" /\ Fresh(RouterOf[q])
      <3>1. Fresh(RouterOf[q])
        BY <1>3 DEF Decide
      <3>2. CASE Verdict(cache[RouterOf[q]]) = "probe"
              /\ Begin(q, IF pc[q] = "admit" THEN "acquire" ELSE "reacquire",
                       cache[RouterOf[q]].st)
        <4>1. pc'[q] \in {"acquire", "reacquire"}
          BY <3>2 DEF Begin, Step, RequestShape
        <4> QED
          BY <4>1
      <3> QED
        BY <1>3, <2>1, <3>1, <3>2 DEF Decide
    <2>3. RouterOf[q] \in Routers /\ PollTicks \in Nat
      BY BreakerAssumption
    <2>4. cache[RouterOf[q]].st = "closed"
      BY <2>2 DEF Verdict
    <2> QED
      BY <2>2, <2>3, <2>4 DEF Fresh, Recentness, StoreShape, RouterShape
  <1>4. ~UpdateFails(q)
    <2>1. ~EndsWith(q, "neutral")
      BY <1>2 DEF Verdicts
    <2>2. ~Ended(q, "admit")
      BY DEF Ended, Step, RequestShape
    <2> QED
      BY <2>1, <2>2 DEF UpdateFails
  <1> QED
    BY <1>3, <1>4 DEF RequestStep, AcquireRefused, Acquire, Prepare, Renew, NotSent, Reply,
       Continue, Unauthorized, AuthFailure, Conclude, Trip

LEMMA RequestHandled ==
  ASSUME Shape, NEW q \in Requests, RequestStep(q)
  PROVE  Handled(q)
  <1>1. CASE Decide(q) \/ AcquireRefused(q) \/ Prepare(q) \/ Unauthorized(q) \/ UpdateFails(q)
    BY <1>1, DecideHandled, AcquireRefusedHandled, PrepareHandled,
       UnauthorizedHandled, UpdateFailsHandled
  <1>2. CASE NotSent(q) \/ \E v \in {"success", "failure", "neutral"} : Reply(q, v)
    BY <1>2, EndsWithHandled, RefusalIsVerdict DEF NotSent, Reply, Verdicts
  <1>3. CASE \E failed \in BOOLEAN : Continue(q, failed)
    BY <1>3, ContinueHandled
  <1>4. CASE \E k \in Tokens : Acquire(q, k)
    BY <1>4, AcquireHandled
  <1>5. CASE Renew(q) \/ AuthFailure(q) \/ Conclude(q) \/ Trip(q)
    BY <1>5, RenewHandled, AuthFailureHandled, ConcludeHandled, TripHandled
  <1> QED
    BY <1>1, <1>2, <1>3, <1>4, <1>5 DEF RequestStep

(* A punctual router admits a request without a probe only on a state that *)
(* held less than a polling interval ago.                                  *)
THEOREM AdmissionsAreRecent ==
  ASSUME Punctual
  PROVE  Spec => AdmitsRecentlyClosed
  <1>1. ASSUME Shape, Recentness, [Next]_vars, NEW q \in Requests,
               pc[q] \in {"admit", "readmit"}, pc'[q] \in {"ready", "sending"}
        PROVE  closedAgo < PollTicks
    <2>1. ASSUME NEW r \in Requests, RequestStep(r) PROVE closedAgo < PollTicks
      <3>1. CASE r = q
        BY <1>1, <2>1, <3>1, AdmittedRecently
      <3>2. CASE r # q
        BY <1>1, <2>1, <3>2, RequestHandled, OthersStay
      <3> QED
        BY <3>1, <3>2
    <2>2. ASSUME NEW p \in Routers, RouterStep(p) PROVE FALSE
      <3>1. CASE Crash(p)
        BY <1>1, <3>1 DEF Crash, Shape, RequestShape
      <3>2. CASE ~Crash(p)
        BY <1>1, <2>2, <3>2 DEF RouterStep, PollRead, PollEnd, PollFails, OtherEngine, request
      <3> QED
        BY <3>1, <3>2
    <2>3. CASE Tick \/ RequestReset \/ Activate \/ UNCHANGED vars
      BY <1>1, <2>3 DEF Tick, RequestReset, Activate, vars, request
    <2> QED
      BY <1>1, <2>1, <2>2, <2>3 DEF Next, RouterNext
  <1>2. Shape /\ Recentness /\ [Next]_vars =>
          [\A q \in Requests :
             /\ pc[q] \in {"admit", "readmit"} /\ pc'[q] \in {"ready", "sending"}
             => closedAgo < PollTicks]_vars
    BY <1>1
  <1>3. Shape /\ Recentness /\ [Next]_vars => Recentness'
    BY RecentKept
  <1> QED
    BY <1>2, <1>3, RecentInitial, ShapeAlways, PTL DEF Spec, AdmitsRecentlyClosed

-----------------------------------------------------------------------------
(* Punctual routers never send two probes at a time, unless an admin       *)
(* resets the breaker between them.                                        *)

(* A token has one holder. *)
OneHolder ==
  \A q1, q2 \in Requests : token[q1] # None /\ token[q1] = token[q2] => q1 = q2

(* A pending lease update has the present time. *)
LeaseNow == \A q \in Requests : pc[q] \in {"acquire", "reacquire", "renew"} => at[q] = now

(* Who asks for admission, or trips the breaker, has no token. *)
Bare ==
  \A q \in Requests :
    pc[q] \in {"admit", "readmit", "acquire", "reacquire", "trip"} => token[q] = None

(* Who sends as the probe has a lease that runs, unless a rejected         *)
(* credential has ended the probing.                                       *)
SenderHolds ==
  \A q \in Requests :
    pc[q] = "sending" /\ token[q] # None
    => \/ shared.st = "auth"
       \/ shared.st = "half_open" /\ shared.token = token[q] /\ shared.lease > now

ProbeInv ==
  resetAt = 0 /\ OneHolder /\ LeaseNow /\ Bare /\ SenderHolds /\ ProbeExclusive

(* A step of q that leaves the circuit alone and does not make q a probe.  *)
Harmless(q) ==
  /\ Handled(q) /\ shared' = shared
  /\ token' = token \/ token' = [token EXCEPT ![q] = None]
  /\ pc'[q] = "sending" => token'[q] = None
  /\ pc'[q] \in {"acquire", "reacquire", "renew"} => at'[q] = now
  /\ pc'[q] \in {"admit", "readmit", "acquire", "reacquire", "trip"} => token'[q] = None

LEMMA HarmlessKept ==
  ASSUME Shape, ProbeInv, NEW q \in Requests, Harmless(q)
  PROVE  ProbeInv'
  <1>1. /\ now' = now /\ resetAt' = resetAt /\ shared' = shared
        /\ token \in [Requests -> Tokens \cup {None}]
    BY DEF Harmless, Handled, Shape, RequestShape
  <1>2. ASSUME NEW r \in Requests, r # q
        PROVE  pc'[r] = pc[r] /\ at'[r] = at[r] /\ token'[r] = token[r]
    BY <1>1, <1>2, OthersStay DEF Harmless
  <1>3. token'[q] \in {token[q], None}
    BY <1>1 DEF Harmless
  <1>4. OneHolder'
    BY <1>2, <1>3 DEF ProbeInv, OneHolder
  <1>5. LeaseNow' /\ Bare'
    BY <1>1, <1>2 DEF ProbeInv, LeaseNow, Bare, Harmless
  <1>6. SenderHolds' /\ ProbeExclusive'
    BY <1>1, <1>2 DEF ProbeInv, SenderHolds, ProbeExclusive, Harmless
  <1> QED
    BY <1>1, <1>4, <1>5, <1>6 DEF ProbeInv

(* The logical request ends: a token is given up only by a verdict. *)
LEMMA ClosingHarmless ==
  ASSUME Shape, NEW q \in Requests, Closing(q)
  PROVE  /\ pc'[q] \in {"admit", "verdict", "trip"}
         /\ pc'[q] # "verdict" => token[q] = None
  BY DEF Closing, Shape, RequestShape

LEMMA EndsHarmless ==
  ASSUME Shape, NEW q \in Requests, NEW v \in Verdicts, EndsWith(q, v)
  PROVE  Harmless(q)
  <1>1. Handled(q) /\ shared' = shared
    BY EndsWithHandled DEF Unchanged
  <1>2. Closing(q) /\ token' = token
    BY OverCloses DEF EndsWith, Shape
  <1> QED
    BY <1>1, <1>2, ClosingHarmless DEF Harmless

LEMMA HarmlessSteps ==
  ASSUME Shape, ProbeInv, NEW q \in Requests, RequestStep(q), ~Touches(q)
  PROVE  Harmless(q)
  <1>0. /\ pc \in [Requests -> Steps] /\ token \in [Requests -> Tokens \cup {None}]
        /\ at \in [Requests -> Nat]
    BY DEF Shape, RequestShape
  <1>1. CASE Decide(q)
    <2>1. Handled(q) /\ shared' = shared /\ token[q] = None
      BY <1>1, DecideHandled DEF Unchanged, Decide, ProbeInv, Bare
    <2>2. CASE EndsWith(q, Refusal(q))
      BY <2>2, EndsHarmless, RefusalIsVerdict
    <2>3. CASE Step(q, Onward(q)) /\ token' = token
      BY <1>0, <2>1, <2>3 DEF Step, Onward, Harmless
    <2>4. CASE Begin(q, IF pc[q] = "admit" THEN "acquire" ELSE "reacquire",
                     cache[RouterOf[q]].st) /\ token' = token
      BY <1>0, <2>1, <2>4 DEF Begin, Step, Harmless
    <2> QED
      BY <1>1, <2>2, <2>3, <2>4 DEF Decide
  <1>2. CASE AcquireRefused(q)
    <2>1. Handled(q) /\ shared' = shared /\ token[q] = None
      BY <1>2, AcquireRefusedHandled DEF Unchanged, AcquireRefused, ProbeInv, Bare
    <2>2. CASE shared.st = "closed"
      BY <1>0, <1>2, <2>1, <2>2 DEF AcquireRefused, Ended, Step, Onward, Harmless
    <2>3. CASE shared.st # "closed"
      <3>1. Over(q, Refusal(q), Remembered(RouterOf[q], before[q]), shared.st)
        BY <1>2, <2>3 DEF AcquireRefused
      <3>2. Closing(q) /\ token' = token
        BY <3>1, OverCloses, RefusalIsVerdict DEF Shape
      <3> QED
        BY <2>1, <3>2, ClosingHarmless DEF Harmless
    <2> QED
      BY <2>2, <2>3
  <1>3. CASE Prepare(q)
    <2>1. Handled(q) /\ shared' = shared /\ token' = token
      BY <1>3, PrepareHandled DEF Unchanged, Prepare
    <2> QED
      BY <1>0, <1>3, <2>1 DEF Prepare, Begin, Step, Harmless
  <1>4. CASE NotSent(q) \/ \E v \in {"success", "failure", "neutral"} : Reply(q, v)
    BY <1>4, EndsHarmless, RefusalIsVerdict DEF NotSent, Reply, Verdicts
  <1>5. ASSUME NEW failed \in BOOLEAN, Continue(q, failed) PROVE Harmless(q)
    <2>1. Handled(q) /\ shared' = shared /\ token' = token
      BY <1>5, ContinueHandled DEF Unchanged, Continue
    <2> QED
      BY <1>0, <1>5, <2>1 DEF Continue, Step, Harmless
  <1>6. CASE Unauthorized(q)
    <2>1. Handled(q) /\ shared' = shared /\ token' = token
      BY <1>6, UnauthorizedHandled DEF Unchanged, Unauthorized
    <2> QED
      BY <1>0, <1>6, <2>1 DEF Unauthorized, Begin, Step, Harmless
  <1>7. CASE UpdateFails(q)
    <2>1. Handled(q) /\ shared' = shared
      BY <1>7, UpdateFailsHandled DEF Unchanged
    <2>2. CASE EndsWith(q, "neutral")
      BY <2>2, EndsHarmless DEF Verdicts
    <2>3. CASE Ended(q, "admit") /\ Drop(q)
      BY <1>0, <2>1, <2>3 DEF Ended, Step, Drop, Harmless
    <2> QED
      BY <1>7, <2>2, <2>3 DEF UpdateFails
  <1> QED
    BY <1>1, <1>2, <1>3, <1>4, <1>5, <1>6, <1>7 DEF RequestStep, Touches

(* A lease may be granted only when nobody sends as the probe. *)
LEMMA AcquireExclusive ==
  ASSUME Shape, ProbeInv, NEW q \in Requests, NEW k \in Tokens, Acquire(q, k)
  PROVE  ProbeInv'
  <1>0. /\ pc \in [Requests -> Steps] /\ token \in [Requests -> Tokens \cup {None}]
        /\ at \in [Requests -> Nat] /\ shared \in Circuits /\ now \in Nat
        /\ k # None /\ ProbeLease \in Nat \ {0} /\ shared.lease \in Nat
    BY BreakerAssumption DEF Shape, RequestShape, StoreShape, Circuits
  <1>1. now' = now /\ resetAt' = resetAt
    BY DEF Acquire
  <1>2. at[q] = now
    BY DEF Acquire, ProbeInv, LeaseNow
  <1>3. /\ shared'.st = "half_open" /\ shared'.token = k
        /\ shared'.lease = now + ProbeLease
    <2>1. shared' = Probing(shared, at[q], k)
      BY DEF Acquire, Store
    <2> QED
      BY <1>0, <1>2, <2>1, ProbeBegins
  <1>4. token' = [token EXCEPT ![q] = k] /\ (\A r \in Requests : token[r] # k)
    BY DEF Acquire, FreshToken
  <1>5. pc'[q] \in {"ready", "sending"}
    BY <1>0 DEF Acquire, Ended, Step, Onward
  <1>6. ASSUME NEW r \in Requests, r # q
        PROVE  pc'[r] = pc[r] /\ at'[r] = at[r] /\ token'[r] = token[r]
    BY <1>0, <1>4, <1>6, AcquireHandled, OthersStay
  <1>7. ASSUME NEW r \in Requests, pc[r] = "sending", token[r] # None PROVE FALSE
    <2>1. \/ shared.st = "auth"
          \/ shared.st = "half_open" /\ shared.token # None /\ shared.lease > now
      BY <1>7 DEF ProbeInv, SenderHolds
    <2> QED
      BY <1>0, <1>2, <2>1 DEF Acquire, CanProbe, LeaseFree
  <1>8. OneHolder'
    BY <1>0, <1>4, <1>6 DEF ProbeInv, OneHolder
  <1>9. LeaseNow' /\ Bare'
    BY <1>1, <1>5, <1>6 DEF ProbeInv, LeaseNow, Bare
  <1>10. SenderHolds' /\ ProbeExclusive'
    <2>1. token'[q] = k
      BY <1>0, <1>4
    <2> QED
      BY <1>0, <1>1, <1>3, <1>6, <1>7, <2>1 DEF SenderHolds, ProbeExclusive
  <1> QED
    BY <1>1, <1>8, <1>9, <1>10 DEF ProbeInv

(* A lease is renewed by its holder, who is the only one to send. *)
LEMMA RenewExclusive ==
  ASSUME Shape, ProbeInv, NEW q \in Requests, Renew(q)
  PROVE  ProbeInv'
  <1>0. /\ pc \in [Requests -> Steps] /\ token \in [Requests -> Tokens \cup {None}]
        /\ at \in [Requests -> Nat] /\ shared \in Circuits /\ now \in Nat
        /\ ProbeLease \in Nat \ {0}
    BY BreakerAssumption DEF Shape, RequestShape, StoreShape
  <1>1. now' = now /\ resetAt' = resetAt /\ pc[q] = "renew" /\ at[q] = now
    BY DEF Renew, ProbeInv, LeaseNow
  <1>2. CASE ~HoldsProbe(shared, token[q])
    <2>1. Harmless(q)
      BY <1>0, <1>2, RenewHandled DEF Renew, Unchanged, Ended, Step, Drop, Harmless
    <2> QED
      BY <2>1, HarmlessKept
  <1>3. CASE HoldsProbe(shared, token[q])
    <2>1. /\ shared' = Renewed(shared, at[q]) /\ token' = token
          /\ pc'[q] = "sending" /\ shared.st = "half_open" /\ shared.token = token[q]
      BY <1>0, <1>3 DEF Renew, Store, Ended, Step, HoldsProbe
    <2>2. /\ shared'.st = "half_open" /\ shared'.token = token[q]
          /\ shared'.lease = now + ProbeLease
      BY <1>0, <1>1, <2>1, Transitions
    <2>3. ASSUME NEW r \in Requests, r # q
          PROVE  pc'[r] = pc[r] /\ at'[r] = at[r]
      BY <2>3, RenewHandled, OthersStay
    <2>4. ASSUME NEW r \in Requests, pc[r] = "sending", token[r] # None PROVE FALSE
      <3>1. token[r] = token[q]
        BY <2>1, <2>4 DEF ProbeInv, SenderHolds
      <3>2. r = q
        BY <2>4, <3>1 DEF ProbeInv, OneHolder
      <3> QED
        BY <1>1, <2>4, <3>2
    <2>5. OneHolder' /\ LeaseNow' /\ Bare'
      BY <1>1, <2>1, <2>3 DEF ProbeInv, OneHolder, LeaseNow, Bare
    <2>6. SenderHolds' /\ ProbeExclusive'
      BY <1>0, <1>1, <2>1, <2>2, <2>3, <2>4 DEF SenderHolds, ProbeExclusive
    <2> QED
      BY <1>1, <2>5, <2>6 DEF ProbeInv
  <1> QED
    BY <1>2, <1>3

(* The steps that end a probe, or the probing. *)
LEMMA EndExclusive ==
  ASSUME Shape, ProbeInv, NEW q \in Requests, AuthFailure(q) \/ Conclude(q) \/ Trip(q)
  PROVE  ProbeInv'
  <1>0. /\ pc \in [Requests -> Steps] /\ token \in [Requests -> Tokens \cup {None}]
        /\ at \in [Requests -> Nat] /\ shared \in Circuits
    BY DEF Shape, RequestShape, StoreShape
  <1>1. Handled(q) /\ now' = now /\ resetAt' = resetAt
    BY AuthFailureHandled, ConcludeHandled, TripHandled DEF Handled
  <1>2. token' = token \/ token' = [token EXCEPT ![q] = None]
    BY OverCloses DEF AuthFailure, Conclude, Trip, Drop, Shape, Verdicts
  <1>3. /\ pc'[q] \in {"admit", "verdict", "trip"}
        /\ pc'[q] # "verdict" => token'[q] = None
    <2>1. CASE AuthFailure(q)
      <3>1. Closing(q) /\ token' = token
        BY <2>1, OverCloses DEF AuthFailure, Shape, Verdicts
      <3> QED
        BY <3>1, ClosingHarmless
    <2>2. CASE Conclude(q)
      BY <1>0, <2>2 DEF Conclude, Drop, Ended, Step
    <2>3. CASE Trip(q)
      BY <1>0, <2>3 DEF Trip, Ended, Step, ProbeInv, Bare
    <2> QED
      BY <2>1, <2>2, <2>3
  <1>4. ASSUME NEW r \in Requests, r # q
        PROVE  pc'[r] = pc[r] /\ at'[r] = at[r] /\ token'[r] = token[r]
    BY <1>0, <1>1, <1>2, <1>4, OthersStay
  <1>5. OneHolder' /\ LeaseNow' /\ Bare' /\ ProbeExclusive'
    BY <1>0, <1>1, <1>2, <1>3, <1>4
    DEF ProbeInv, OneHolder, LeaseNow, Bare, ProbeExclusive
  <1>6. ASSUME NEW r \in Requests, pc[r] = "sending", token[r] # None
        PROVE  shared' = shared \/ shared'.st = "auth"
    <2>1. \/ shared.st = "auth"
          \/ shared.st = "half_open" /\ shared.token = token[r]
      BY <1>6 DEF ProbeInv, SenderHolds
    <2>2. CASE AuthFailure(q)
      <3>1. shared' = shared \/ shared' = AuthMode(shared, at[q])
        BY <2>2 DEF AuthFailure, Store, Unchanged
      <3> QED
        BY <1>0, <3>1, Transitions
    <2>3. CASE Conclude(q)
      <3>1. ~HoldsProbe(shared, token[q])
        <4>1. ASSUME HoldsProbe(shared, token[q]) PROVE FALSE
          <5>1. token[r] = token[q]
            BY <2>1, <4>1 DEF HoldsProbe
          <5>2. r = q
            BY <1>6, <5>1 DEF ProbeInv, OneHolder
          <5> QED
            BY <1>6, <2>3, <5>2 DEF Conclude
        <4> QED
          BY <4>1
      <3> QED
        BY <2>3, <3>1 DEF Conclude, Unchanged
    <2>4. CASE Trip(q)
      BY <2>1, <2>4 DEF Trip, Unchanged
    <2> QED
      BY <2>2, <2>3, <2>4
  <1>7. SenderHolds'
    <2>1. ASSUME NEW r \in Requests, pc'[r] = "sending", token'[r] # None
          PROVE  \/ shared'.st = "auth"
                 \/ /\ shared'.st = "half_open" /\ shared'.token = token'[r]
                    /\ shared'.lease > now'
      <3>1. r # q /\ pc[r] = "sending" /\ token[r] # None /\ token'[r] = token[r]
        BY <1>3, <1>4, <2>1
      <3> QED
        BY <1>1, <1>6, <3>1 DEF ProbeInv, SenderHolds
    <2> QED
      BY <2>1 DEF SenderHolds
  <1> QED
    BY <1>1, <1>5, <1>7 DEF ProbeInv

LEMMA RouterExclusive ==
  ASSUME Shape, ProbeInv, NEW p \in Routers, RouterStep(p)
  PROVE  ProbeInv'
  <1>1. CASE PollEnd(p)
    <2>1. ~(poll[p].reset > seenReset[p])
      BY DEF Shape, RouterShape, Timely, Polls, ProbeInv
    <2> QED
      BY <1>1, <2>1 DEF PollEnd, Unchanged, request, ProbeInv, OneHolder, LeaseNow, Bare,
         SenderHolds, ProbeExclusive
  <1>2. CASE Crash(p)
    <2>1. ASSUME NEW q \in Requests
          PROVE  \/ pc'[q] = pc[q] /\ token'[q] = token[q] /\ at'[q] = at[q]
                 \/ pc'[q] = "admit" /\ token'[q] = None
      BY <1>2 DEF Crash, Shape, RequestShape
    <2>2. now' = now /\ resetAt' = resetAt /\ shared' = shared
      BY <1>2 DEF Crash
    <2>3. OneHolder' /\ ProbeExclusive'
      BY <2>1 DEF ProbeInv, OneHolder, ProbeExclusive
    <2>4. LeaseNow' /\ Bare'
      BY <2>1, <2>2 DEF ProbeInv, LeaseNow, Bare
    <2>5. SenderHolds'
      BY <2>1, <2>2 DEF ProbeInv, SenderHolds
    <2> QED
      BY <2>2, <2>3, <2>4, <2>5 DEF ProbeInv
  <1>3. CASE PollRead(p) \/ PollFails(p) \/ OtherEngine(p)
    BY <1>3 DEF PollRead, PollFails, OtherEngine, request, history, ProbeInv, OneHolder,
       LeaseNow, Bare, SenderHolds, ProbeExclusive
  <1> QED
    BY <1>1, <1>2, <1>3 DEF RouterStep

(* The clock stands still while a lease update is pending, and while the   *)
(* lease of a probe that is being sent is about to end.                    *)
LEMMA TickExclusive ==
  ASSUME Punctual, Shape, ProbeInv, Tick
  PROVE  ProbeInv'
  <1>1. /\ shared' = shared /\ resetAt' = resetAt /\ now' = now + 1
        /\ pc' = pc /\ token' = token /\ at' = at
        /\ now \in Nat /\ shared.lease \in Nat
    BY DEF Tick, request, Shape, StoreShape, Circuits
  <1>2. OneHolder' /\ Bare' /\ ProbeExclusive'
    BY <1>1 DEF ProbeInv, OneHolder, Bare, ProbeExclusive
  <1>3. LeaseNow'
    BY <1>1 DEF Tick, TimeIsUp, LeaseNow
  <1>4. SenderHolds'
    <2>1. ASSUME NEW q \in Requests, pc[q] = "sending", token[q] # None, shared.st # "auth"
          PROVE  shared.st = "half_open" /\ shared.token = token[q] /\ shared.lease > now + 1
      <3>1. shared.st = "half_open" /\ shared.token = token[q] /\ shared.lease > now
        BY <2>1 DEF ProbeInv, SenderHolds
      <3>2. shared.lease # now + 1
        BY <2>1, <3>1 DEF Tick, TimeIsUp, HoldsProbe
      <3> QED
        BY <1>1, <3>1, <3>2
    <2> QED
      BY <1>1, <2>1 DEF SenderHolds
  <1> QED
    BY <1>1, <1>2, <1>3, <1>4 DEF ProbeInv

LEMMA ProbeKept ==
  ASSUME Punctual
  PROVE  Shape /\ ProbeInv /\ [RouterNext]_vars => ProbeInv'
  <1> SUFFICES ASSUME Shape, ProbeInv, [RouterNext]_vars PROVE ProbeInv'
    OBVIOUS
  <1>1. ASSUME NEW q \in Requests, RequestStep(q) PROVE ProbeInv'
    BY <1>1, HarmlessSteps, HarmlessKept, AcquireExclusive, RenewExclusive, EndExclusive
    DEF Touches
  <1>2. ASSUME NEW p \in Routers, RouterStep(p) PROVE ProbeInv'
    BY <1>2, RouterExclusive
  <1>3. CASE Tick
    BY <1>3, TickExclusive
  <1>4. CASE UNCHANGED vars
    BY <1>4 DEF vars, request, ProbeInv, OneHolder, LeaseNow, Bare, SenderHolds,
       ProbeExclusive
  <1> QED
    BY <1>1, <1>2, <1>3, <1>4 DEF RouterNext

LEMMA RoutersAreSpec == RouterSpec => Spec
  <1>1. [RouterNext]_vars => [Next]_vars
    BY DEF Next
  <1> QED
    BY <1>1, PTL DEF RouterSpec, Spec

(* However many routers and requests there are, and however their polls,   *)
(* updates, crashes and verdicts interleave, punctual ones never send two  *)
(* probes at a time.                                                       *)
THEOREM ProbeIsExclusive ==
  ASSUME Punctual
  PROVE  RouterSpec => []ProbeExclusive
  <1>1. Init => ProbeInv
    BY DEF Init, ProbeInv, OneHolder, LeaseNow, Bare, SenderHolds, ProbeExclusive
  <1>2. Shape /\ ProbeInv /\ [RouterNext]_vars => ProbeInv'
    BY ProbeKept
  <1>3. ProbeInv => ProbeExclusive
    BY DEF ProbeInv
  <1> QED
    BY <1>1, <1>2, <1>3, ShapeAlways, RoutersAreSpec, PTL DEF RouterSpec

-----------------------------------------------------------------------------
(* The state keeps its shape and its bounds.  A circuit was opened, and its *)
(* streak began, no later than now; every failed probe of a streak follows  *)
(* an open time, so there are fewer of them than ticks.                     *)
Timed(c, t) ==
  /\ c.opened <= t /\ c.since <= t /\ c.reopen <= t
  /\ c.until \in 0..(t + MaxOpen) /\ c.lease <= t + ProbeLease
  /\ c.st = "closed" => c.reopen = 0
  /\ c.st \in {"open", "half_open"} => c.reopen < c.opened
  /\ c.st = "open" => c.opened < c.until
  /\ c.st = "half_open" => c.opened < t

StoreFits ==
  /\ now <= MaxNow /\ resetAt <= now /\ active \in 1..MaxVersion
  /\ closedAgo <= PollTicks /\ authOf \in 0..MaxVersion
  /\ Timed(shared, now)

(* A router's copy, and what it polled; one it may use it has.              *)
RoutersFit ==
  \A p \in Routers :
    /\ Timed(poll[p].circuit, now)
    /\ cache[p].deny <= MaxOpen + ProbeLease /\ freshFor[p] <= PollTicks
    /\ seenReset[p] <= resetAt
    /\ freshFor[p] # 0 => cache[p].st # "absent"

Windows == {w \in Seq(Outcomes) : Len(w) <= MaxWindow}

RequestsFit ==
  /\ window \in [Routers -> Windows]
  /\ again \in [Requests -> BOOLEAN]
  /\ version \in [Requests -> 1..MaxVersion]
  /\ before \in [Requests -> States]
  /\ at \in [Requests -> 0..now]

(* A request under way has a router with a copy.                            *)
CopiesThere == \A q \in Requests : pc[q] # "admit" => cache[RouterOf[q]].st # "absent"

(* A probe's verdict is on a circuit opened before its update began.        *)
VerdictsLate ==
  \A q \in Requests :
    pc[q] = "verdict" => /\ token[q] # None
                         /\ HoldsProbe(shared, token[q]) => shared.opened < at[q]

Fit == StoreFits /\ RoutersFit /\ RequestsFit /\ CopiesThere /\ VerdictsLate

LEMMA ConstantsFit ==
  /\ MaxOpen \in Nat \ {0} /\ ProbeLease \in Nat \ {0} /\ PollTicks \in Nat \ {0}
  /\ MaxNow \in Nat \ {0} /\ MaxWindow \in Nat \ {0} /\ MaxVersion \in Nat \ {0}
  /\ RouterOf \in [Requests -> Routers] /\ None \notin Tokens
  BY BreakerAssumption

LEMMA FieldTypes ==
  ASSUME NEW c \in Circuits
  PROVE  /\ c.st \in States /\ c.opened \in Nat /\ c.since \in Nat /\ c.until \in Int
         /\ c.reopen \in Nat /\ c.token \in Tokens \cup {None} /\ c.lease \in Nat
  BY DEF Circuits

LEMMA ClosedTimed == ASSUME NEW t \in Nat PROVE Timed(Closed, t)
  BY ConstantsFit DEF Closed, Timed

LEMMA TimedLater ==
  ASSUME NEW c \in Circuits, NEW t \in Nat, NEW u \in Nat, t <= u, Timed(c, t)
  PROVE  Timed(c, u)
  BY FieldTypes, ConstantsFit DEF Timed

(* The transitions keep the bounds, at any time that an update may have     *)
(* read.                                                                    *)
LEMMA TrippedTimed ==
  ASSUME NEW t \in Nat, NEW u \in 1..t, NEW c \in Circuits, Timed(c, t), c.st = "closed"
  PROVE  Timed(Tripped(c, u), t)
  <1> DEFINE d == OpenDuration(0)
             r == Tripped(c, u)
  <1>1. c.reopen = 0 /\ d \in 1..MaxOpen
    BY DurationBounds DEF Timed
  <1> HIDE DEF d
  <1>2. /\ r.st = "open" /\ r.opened = u /\ r.since = u /\ r.until = u + d
        /\ r.reopen = 0 /\ r.lease = 0
    BY <1>1 DEF Tripped, Closed, d
  <1> HIDE DEF r
  <1>3. Timed(r, t)
    BY <1>1, <1>2, ConstantsFit DEF Timed
  <1> QED
    BY <1>3 DEF r

LEMMA ReopenedTimed ==
  ASSUME NEW t \in Nat, NEW u \in 0..t, NEW c \in Circuits, Timed(c, t),
         c.st = "half_open", c.opened < u
  PROVE  Timed(Reopened(c, u), t)
  <1> DEFINE d == OpenDuration(c.reopen + 1)
             r == Reopened(c, u)
  <1>1. /\ c.reopen \in Nat /\ c.opened \in Nat /\ c.reopen < c.opened
        /\ c.since \in Nat /\ c.since <= t
    BY FieldTypes DEF Timed
  <1>2. d \in 1..MaxOpen
    BY <1>1, DurationBounds
  <1> HIDE DEF d
  <1>3. /\ r.st = "open" /\ r.opened = u /\ r.since = c.since /\ r.until = u + d
        /\ r.reopen = c.reopen + 1 /\ r.lease = 0
    BY DEF Reopened, Closed, d
  <1> HIDE DEF r
  <1>4. Timed(r, t)
    BY <1>1, <1>2, <1>3, ConstantsFit DEF Timed
  <1> QED
    BY <1>4 DEF r

LEMMA ProbingTimed ==
  ASSUME NEW t \in Nat, NEW u \in 0..t, NEW c \in Circuits, Timed(c, t), CanProbe(c, u), NEW k
  PROVE  Timed(Probing(c, u, k), t)
  <1> DEFINE r == Probing(c, u, k)
  <1>1. /\ r.st = "half_open" /\ r.opened = c.opened /\ r.since = c.since /\ r.until = 0
        /\ r.reopen = c.reopen /\ r.lease = u + ProbeLease
    BY DEF Probing, Circuits
  <1> HIDE DEF r
  <1>2. Timed(r, t)
    BY <1>1, FieldTypes, ConstantsFit DEF Timed, CanProbe
  <1> QED
    BY <1>2 DEF r

LEMMA RenewedTimed ==
  ASSUME NEW t \in Nat, NEW u \in 0..t, NEW c \in Circuits, Timed(c, t)
  PROVE  Timed(Renewed(c, u), t) /\ Timed(Released(c), t)
  <1> DEFINE r == Renewed(c, u)
             z == Released(c)
  <1>1. /\ r.st = c.st /\ r.opened = c.opened /\ r.since = c.since /\ r.until = c.until
        /\ r.reopen = c.reopen /\ r.lease = u + ProbeLease
    BY DEF Renewed, Circuits
  <1>2. /\ z.st = c.st /\ z.opened = c.opened /\ z.since = c.since /\ z.until = c.until
        /\ z.reopen = c.reopen /\ z.lease = 0
    BY DEF Released, Circuits
  <1> HIDE DEF r, z
  <1>3. Timed(r, t)
    BY <1>1, FieldTypes, ConstantsFit DEF Timed
  <1>4. Timed(z, t)
    BY <1>2, FieldTypes, ConstantsFit DEF Timed
  <1> QED
    BY <1>3, <1>4 DEF r, z

LEMMA AuthTimed ==
  ASSUME NEW t \in Nat, NEW u \in 0..t, NEW c \in Circuits, Timed(c, t)
  PROVE  Timed(AuthMode(c, u), t)
  <1> DEFINE r == AuthMode(c, u)
  <1>1. /\ r.st = "auth" /\ r.opened = u /\ r.since = (IF c.since # 0 THEN c.since ELSE u)
        /\ r.until = 0 /\ r.reopen = c.reopen /\ r.lease = 0
    BY DEF AuthMode, Closed
  <1> HIDE DEF r
  <1>2. Timed(r, t)
    BY <1>1, FieldTypes, ConstantsFit DEF Timed
  <1> QED
    BY <1>2 DEF r

LEMMA ViewFits ==
  ASSUME NEW c \in Circuits, now \in Nat, Timed(c, now)
  PROVE  View(c).deny <= MaxOpen + ProbeLease /\ View(c).st # "absent"
  <1>1. View(c).st = c.st /\ View(c).deny = Left(IF c.st = "open" THEN c.until ELSE c.lease)
    BY DEF View
  <1>2. c.st # "absent"
    BY FieldTypes DEF States
  <1>3. Left(c.until) <= MaxOpen + ProbeLease /\ Left(c.lease) <= MaxOpen + ProbeLease
    BY FieldTypes, ConstantsFit DEF Timed, Left
  <1> QED
    BY <1>1, <1>2, <1>3

LEMMA EmptyWindow == <<>> \in Windows
  BY ConstantsFit DEF Windows

LEMMA PrunedWindow ==
  ASSUME NEW w \in Windows, NEW t
  PROVE  Pruned(w, t) \in Windows
  <1>1. w \in Seq(Outcomes) /\ Len(w) <= MaxWindow /\ Len(w) \in Nat
    BY DEF Windows
  <1> DEFINE O == Outcomes
             v == Pruned(w, t)
  <1> HIDE DEF O, v
  <1>2. v \in Seq(O) /\ Len(v) <= Len(w)
    BY <1>1, PrunedFits DEF O, v
  <1>3. v \in Windows
    BY <1>1, <1>2, ConstantsFit DEF Windows, O
  <1> QED
    BY <1>3 DEF v

LEMMA LongerWindow ==
  ASSUME NEW w \in Windows, NEW e \in Outcomes
  PROVE  Append(IF Len(w) < MaxWindow THEN w ELSE Tail(w), e) \in Windows
  <1> DEFINE O == Outcomes
  <1>1. w \in Seq(O) /\ Len(w) <= MaxWindow /\ Len(w) \in Nat /\ e \in O
    BY DEF Windows
  <1> HIDE DEF O
  <1>2. CASE Len(w) < MaxWindow
    <2>1. Append(w, e) \in Seq(O) /\ Len(Append(w, e)) = Len(w) + 1
      BY <1>1
    <2> QED
      BY <1>1, <1>2, <2>1, ConstantsFit DEF Windows, O
  <1>3. CASE ~(Len(w) < MaxWindow)
    <2>1. w # <<>>
      BY <1>1, <1>3, ConstantsFit
    <2>2. Tail(w) \in Seq(O) /\ Len(Tail(w)) = Len(w) - 1
      BY <1>1, <2>1
    <2>3. Append(Tail(w), e) \in Seq(O) /\ Len(Append(Tail(w), e)) = Len(w)
      BY <1>1, <2>2
    <2> QED
      BY <1>1, <1>3, <2>3 DEF Windows, O
  <1> QED
    BY <1>2, <1>3

(* What a step of a request leaves of the requests' part.                   *)
Attempts == version \in [Requests -> 1..MaxVersion] /\ active \in 1..MaxVersion
Clocks == before \in [Requests -> States] /\ at \in [Requests -> 0..now]

LEMMA StepFits ==
  ASSUME NEW q \in Requests, NEW s, Attempts, Step(q, s)
  PROVE  version' \in [Requests -> 1..MaxVersion]
  BY DEF Step, Attempts

LEMMA BeginFits ==
  ASSUME NEW q \in Requests, NEW s, NEW st \in States, Attempts, Clocks, now \in Nat,
         now' = now, Begin(q, s, st)
  PROVE  Clocks' /\ version' \in [Requests -> 1..MaxVersion]
  <1>1. version' \in [Requests -> 1..MaxVersion]
    BY StepFits DEF Begin
  <1>2. now \in 0..now
    OBVIOUS
  <1> QED
    BY <1>1, <1>2 DEF Begin, Clocks

LEMMA EndedFits ==
  ASSUME NEW q \in Requests, NEW s, Attempts, Clocks, now \in Nat, now' = now, Ended(q, s)
  PROVE  Clocks' /\ version' \in [Requests -> 1..MaxVersion]
  <1>1. version' \in [Requests -> 1..MaxVersion]
    BY StepFits DEF Ended
  <1>2. 0 \in 0..now /\ "closed" \in States
    BY DEF States
  <1> QED
    BY <1>1, <1>2 DEF Ended, Clocks

(* A step of q with its fixed parts: what the clock and the admins do not   *)
(* do, and whose credential a router may hold rejected.                     *)
Steady(q) ==
  /\ now' = now /\ active' = active /\ authOf' \in {authOf, version[q]}
  /\ RequestsFit'

LEMMA SteadyStep ==
  ASSUME NEW q \in Requests, RequestsFit, active \in 1..MaxVersion,
         now' = now, active' = active, authOf' \in {authOf, version[q]},
         version' \in [Requests -> 1..MaxVersion], Clocks',
         again' = again \/ again' = [again EXCEPT ![q] = FALSE],
         window' = window \/ \E w \in Windows : window' = [window EXCEPT ![RouterOf[q]] = w]
  PROVE  Steady(q)
  <1>1. again' \in [Requests -> BOOLEAN]
    BY DEF RequestsFit
  <1>2. window' \in [Routers -> Windows]
    BY ConstantsFit DEF RequestsFit
  <1> QED
    BY <1>1, <1>2 DEF Steady, RequestsFit, Clocks

LEMMA OverFits ==
  ASSUME Shape, Fit, NEW q \in Requests, NEW v \in Verdicts, NEW w \in Windows, NEW st \in States,
         now' = now, active' = active, authOf' \in {authOf, version[q]}, Over(q, v, w, st)
  PROVE  Steady(q)
  <1> DEFINE e == [at |-> now, failed |-> v = "failure"]
             x == Append(IF Len(w) < MaxWindow THEN w ELSE Tail(w), e)
             y == Recent(x)
  <1>1. now \in Nat /\ now \in Times
    BY ConstantsFit DEF Shape, StoreShape, Fit, StoreFits, Times
  <1>2. Attempts /\ Clocks /\ RequestsFit /\ active \in 1..MaxVersion
    BY DEF Fit, StoreFits, RequestsFit, Attempts, Clocks
  <1>3. x \in Windows
    <2>1. e \in Outcomes
      BY <1>1 DEF Outcomes
    <2> HIDE DEF e
    <2> QED
      BY <2>1, LongerWindow
  <1>4. y \in Windows
    <2> HIDE DEF x
    <2> QED
      BY <1>3, PrunedWindow DEF Recent
  <1>5. \E z \in Windows : window' = [window EXCEPT ![RouterOf[q]] = z]
    <2>1. \/ window' = [window EXCEPT ![RouterOf[q]] = w]
          \/ window' = [window EXCEPT ![RouterOf[q]] = IF v = "failure" THEN y ELSE x]
      BY Zenon DEF Over
    <2> HIDE DEF x, y
    <2> QED
      BY <1>3, <1>4, <2>1
  <1>6. again' = [again EXCEPT ![q] = FALSE]
    BY DEF Over
  <1>7. \E s : Begin(q, s, st) \/ Ended(q, s)
    BY Zenon DEF Over
  <1>8. Clocks' /\ version' \in [Requests -> 1..MaxVersion]
    BY <1>1, <1>2, <1>7, BeginFits, EndedFits
  <1> QED
    BY <1>2, <1>5, <1>6, <1>8, SteadyStep

LEMMA RememberedWindow ==
  ASSUME Fit, NEW p \in Routers, NEW was
  PROVE  Remembered(p, was) \in Windows
  BY EmptyWindow DEF Remembered, Fit, RequestsFit

LEMMA CopyIsState ==
  ASSUME Shape, Fit, NEW q \in Requests, pc[q] # "admit" \/ Fresh(RouterOf[q])
  PROVE  cache[RouterOf[q]].st \in States
  <1>1. RouterOf[q] \in Routers
    BY ConstantsFit
  <1>2. cache[RouterOf[q]].st # "absent"
    BY <1>1 DEF Fit, CopiesThere, RoutersFit, Fresh, Shape, RouterShape
  <1> QED
    BY <1>1, <1>2 DEF Shape, RouterShape, CopyShapes

LEMMA EndsFits ==
  ASSUME Shape, Fit, NEW q \in Requests, NEW v \in Verdicts, EndsWith(q, v),
         pc[q] # "admit" \/ Fresh(RouterOf[q])
  PROVE  Steady(q)
  <1>1. cache[RouterOf[q]].st \in States
    BY CopyIsState
  <1>2. window[RouterOf[q]] \in Windows
    BY ConstantsFit DEF Fit, RequestsFit
  <1>3. Over(q, v, window[RouterOf[q]], cache[RouterOf[q]].st)
        /\ now' = now /\ active' = active /\ authOf' = authOf
    BY DEF EndsWith, history
  <1> QED
    BY <1>1, <1>2, <1>3, OverFits

(* The steps of a request, each with its parts.                             *)
LEMMA FitParts ==
  ASSUME Shape, Fit
  PROVE  /\ now \in Nat /\ Attempts /\ Clocks /\ RequestsFit /\ active \in 1..MaxVersion
         /\ shared \in Circuits /\ shared.st \in States
  BY FieldTypes DEF Shape, StoreShape, Fit, StoreFits, RequestsFit, Attempts, Clocks

LEMMA DecideFits ==
  ASSUME Shape, Fit, NEW q \in Requests, Decide(q)
  PROVE  Steady(q)
  <1>1. Fresh(RouterOf[q])
    BY DEF Decide
  <1>2. cache[RouterOf[q]].st \in States
    BY <1>1, CopyIsState
  <1>3. CASE EndsWith(q, Refusal(q))
    BY <1>1, <1>3, EndsFits, RefusalIsVerdict
  <1>4. CASE ~EndsWith(q, Refusal(q))
    <2>1. now' = now /\ active' = active /\ authOf' = authOf /\ again' = again /\ Quiet
      BY <1>4 DEF Decide, history
    <2>2. window' = window
      BY <2>1 DEF Quiet, router
    <2>3. \/ Step(q, Onward(q)) /\ at' = at /\ before' = before
          \/ \E s : Begin(q, s, cache[RouterOf[q]].st)
      BY <1>4 DEF Decide
    <2>4. Clocks' /\ version' \in [Requests -> 1..MaxVersion]
      <3>1. CASE Step(q, Onward(q)) /\ at' = at /\ before' = before
        BY <2>1, <3>1, FitParts, StepFits DEF Clocks
      <3>2. CASE \E s : Begin(q, s, cache[RouterOf[q]].st)
        BY <1>2, <2>1, <3>2, FitParts, BeginFits
      <3> QED
        BY <2>3, <3>1, <3>2
    <2> QED
      BY <2>1, <2>2, <2>4, FitParts, SteadyStep
  <1> QED
    BY <1>3, <1>4

LEMMA AcquireFits ==
  ASSUME Shape, Fit, NEW q \in Requests, NEW k \in Tokens, Acquire(q, k)
  PROVE  Steady(q)
  <1>1. /\ now' = now /\ active' = active /\ authOf' = authOf /\ again' = again
        /\ Ended(q, Onward(q))
        /\ Copies(RouterOf[q], Remembered(RouterOf[q], before[q]))
    BY DEF Acquire
  <1>2. Clocks' /\ version' \in [Requests -> 1..MaxVersion]
    BY <1>1, FitParts, EndedFits
  <1>3. \E w \in Windows : window' = [window EXCEPT ![RouterOf[q]] = w]
    BY <1>1, ConstantsFit, RememberedWindow DEF Copies
  <1> QED
    BY <1>1, <1>2, <1>3, FitParts, SteadyStep

LEMMA AcquireRefusedFits ==
  ASSUME Shape, Fit, NEW q \in Requests, AcquireRefused(q)
  PROVE  Steady(q)
  <1>1. now' = now /\ active' = active /\ authOf' = authOf
    BY DEF AcquireRefused
  <1>2. Remembered(RouterOf[q], before[q]) \in Windows
    BY ConstantsFit, RememberedWindow
  <1>3. CASE shared.st = "closed"
    <2>1. /\ again' = again /\ Ended(q, Onward(q))
          /\ Copies(RouterOf[q], Remembered(RouterOf[q], before[q]))
      BY <1>3 DEF AcquireRefused
    <2>2. Clocks' /\ version' \in [Requests -> 1..MaxVersion]
      BY <1>1, <2>1, FitParts, EndedFits
    <2>3. \E w \in Windows : window' = [window EXCEPT ![RouterOf[q]] = w]
      BY <1>2, <2>1 DEF Copies
    <2> QED
      BY <1>1, <2>1, <2>2, <2>3, FitParts, SteadyStep
  <1>4. CASE shared.st # "closed"
    <2>1. Over(q, Refusal(q), Remembered(RouterOf[q], before[q]), shared.st)
      BY <1>4 DEF AcquireRefused
    <2> QED
      BY <1>1, <1>2, <2>1, FitParts, OverFits, RefusalIsVerdict
  <1> QED
    BY <1>3, <1>4

LEMMA PrepareFits ==
  ASSUME Shape, Fit, NEW q \in Requests, Prepare(q)
  PROVE  Steady(q)
  <1>1. /\ now' = now /\ active' = active /\ authOf' = authOf /\ again' = again
        /\ window' = window
    BY DEF Prepare, history, Quiet, router
  <1>2. cache[RouterOf[q]].st \in States
    BY CopyIsState DEF Prepare
  <1>3. Clocks' /\ version' \in [Requests -> 1..MaxVersion]
    <2>1. CASE Step(q, "sending") /\ at' = at /\ before' = before
      BY <1>1, <2>1, FitParts, StepFits DEF Clocks
    <2>2. CASE Begin(q, "renew", cache[RouterOf[q]].st)
      BY <1>1, <1>2, <2>2, FitParts, BeginFits
    <2> QED
      BY <2>1, <2>2 DEF Prepare
  <1> QED
    BY <1>1, <1>3, FitParts, SteadyStep

LEMMA RenewFits ==
  ASSUME Shape, Fit, NEW q \in Requests, Renew(q)
  PROVE  Steady(q)
  <1>1. /\ now' = now /\ active' = active /\ authOf' = authOf /\ again' = again
        /\ Copies(RouterOf[q], Remembered(RouterOf[q], before[q]))
    BY DEF Renew
  <1>2. Ended(q, "sending") \/ Ended(q, "readmit")
    BY DEF Renew
  <1>3. Clocks' /\ version' \in [Requests -> 1..MaxVersion]
    BY <1>1, <1>2, FitParts, EndedFits
  <1>4. \E w \in Windows : window' = [window EXCEPT ![RouterOf[q]] = w]
    BY <1>1, ConstantsFit, RememberedWindow DEF Copies
  <1> QED
    BY <1>1, <1>3, <1>4, FitParts, SteadyStep

LEMMA ContinueFits ==
  ASSUME Shape, Fit, NEW q \in Requests, NEW failed \in BOOLEAN, Continue(q, failed)
  PROVE  Steady(q)
  <1>1. /\ now' = now /\ active' = active /\ authOf' = authOf
        /\ window' = window /\ at' = at /\ before' = before
        /\ again' = [again EXCEPT ![q] = failed]
    BY DEF Continue, history, Quiet, router
  <1>2. version' \in [Requests -> 1..MaxVersion]
    BY FitParts, StepFits DEF Continue
  <1>3. Clocks' /\ again' \in [Requests -> BOOLEAN] /\ window' \in [Routers -> Windows]
    BY <1>1, FitParts DEF Clocks, RequestsFit
  <1> QED
    BY <1>1, <1>2, <1>3 DEF Steady, RequestsFit, Clocks

LEMMA UnauthorizedFits ==
  ASSUME Shape, Fit, NEW q \in Requests, Unauthorized(q)
  PROVE  Steady(q)
  <1>1. /\ now' = now /\ active' = active /\ authOf' = authOf /\ again' = again
        /\ window' = window
    BY DEF Unauthorized, history, Quiet, router
  <1>2. cache[RouterOf[q]].st \in States
    BY CopyIsState DEF Unauthorized
  <1>3. Clocks' /\ version' \in [Requests -> 1..MaxVersion]
    BY <1>1, <1>2, FitParts, BeginFits DEF Unauthorized
  <1> QED
    BY <1>1, <1>3, FitParts, SteadyStep

LEMMA AuthFailureFits ==
  ASSUME Shape, Fit, NEW q \in Requests, AuthFailure(q)
  PROVE  Steady(q)
  <1>1. now' = now /\ active' = active /\ authOf' \in {authOf, version[q]}
    BY DEF AuthFailure
  <1>2. shared'.st \in States
    BY AuthFailureHandled, FieldTypes DEF Held
  <1>3. Over(q, "neutral", Remembered(RouterOf[q], before[q]), shared'.st)
    BY DEF AuthFailure
  <1>4. Remembered(RouterOf[q], before[q]) \in Windows /\ "neutral" \in Verdicts
    BY ConstantsFit, RememberedWindow DEF Verdicts
  <1> QED
    BY <1>1, <1>2, <1>3, <1>4, OverFits

LEMMA ConcludeFits ==
  ASSUME Shape, Fit, NEW q \in Requests, Conclude(q) \/ Trip(q)
  PROVE  Steady(q)
  <1>1. /\ now' = now /\ active' = active /\ authOf' = authOf /\ again' = again
        /\ Ended(q, "admit")
    BY DEF Conclude, Trip
  <1>2. \E w \in Windows : window' = [window EXCEPT ![RouterOf[q]] = w]
    BY ConstantsFit, RememberedWindow, EmptyWindow DEF Conclude, Trip, Copies
  <1>3. Clocks' /\ version' \in [Requests -> 1..MaxVersion]
    BY <1>1, FitParts, EndedFits
  <1> QED
    BY <1>1, <1>2, <1>3, FitParts, SteadyStep

LEMMA UpdateFailsFits ==
  ASSUME Shape, Fit, NEW q \in Requests, UpdateFails(q)
  PROVE  Steady(q)
  <1>1. CASE pc[q] \in {"renew", "unauthorized"} /\ EndsWith(q, "neutral")
    BY <1>1, EndsFits DEF Verdicts
  <1>2. CASE ~(pc[q] \in {"renew", "unauthorized"} /\ EndsWith(q, "neutral"))
    <2>1. /\ now' = now /\ active' = active /\ authOf' = authOf
          /\ again' = [again EXCEPT ![q] = FALSE] /\ window' = window /\ Ended(q, "admit")
      BY <1>2 DEF UpdateFails, history, Quiet, router
    <2>2. Clocks' /\ version' \in [Requests -> 1..MaxVersion]
      BY <2>1, FitParts, EndedFits
    <2> QED
      BY <2>1, <2>2, FitParts, SteadyStep
  <1> QED
    BY <1>1, <1>2

LEMMA RequestSteady ==
  ASSUME Shape, Fit, NEW q \in Requests, RequestStep(q)
  PROVE  Steady(q)
  <1>1. CASE NotSent(q)
    BY <1>1, EndsFits, RefusalIsVerdict DEF NotSent, Verdicts
  <1>2. CASE \E v \in {"success", "failure", "neutral"} : Reply(q, v)
    BY <1>2, EndsFits DEF Reply, Verdicts
  <1> QED
    BY <1>1, <1>2, DecideFits, AcquireFits, AcquireRefusedFits, PrepareFits, RenewFits,
       ContinueFits, UnauthorizedFits, AuthFailureFits, ConcludeFits, UpdateFailsFits
    DEF RequestStep

(* What a step of a request leaves of the store.                            *)
LEMMA CircuitTimed ==
  ASSUME Shape, Fit, NEW q \in Requests, RequestStep(q)
  PROVE  Timed(shared', now) /\ closedAgo' <= PollTicks
  <1>1. /\ now \in Nat /\ shared \in Circuits /\ Timed(shared, now)
        /\ at[q] \in 0..now
        /\ closedAgo <= PollTicks /\ 0 <= PollTicks
    BY FitParts, ConstantsFit DEF Fit, StoreFits, Clocks
  <1>2. ASSUME NEW c, Store(c), Timed(c, now) PROVE Timed(shared', now) /\ closedAgo' <= PollTicks
    BY <1>1, <1>2 DEF Store
  <1>3. ASSUME Unchanged PROVE Timed(shared', now) /\ closedAgo' <= PollTicks
    BY <1>1, <1>3 DEF Unchanged
  <1>4. ASSUME NEW k \in Tokens, Acquire(q, k)
        PROVE  Timed(shared', now) /\ closedAgo' <= PollTicks
    <2>1. Store(Probing(shared, at[q], k)) /\ CanProbe(shared, at[q])
      BY <1>4 DEF Acquire
    <2> QED
      BY <1>1, <1>2, <2>1, ProbingTimed
  <1>5. CASE Renew(q)
    BY <1>1, <1>2, <1>3, <1>5, RenewedTimed DEF Renew
  <1>6. CASE AuthFailure(q)
    BY <1>1, <1>2, <1>3, <1>6, AuthTimed DEF AuthFailure
  <1>7. CASE Conclude(q)
    <2>1. CASE HoldsProbe(shared, token[q])
      <3>1. pc[q] = "verdict" /\ shared.st = "half_open" /\ shared.opened < at[q]
        BY <1>7, <2>1 DEF Conclude, Fit, VerdictsLate, HoldsProbe
      <3>2. Timed(Closed, now) /\ Timed(Reopened(shared, at[q]), now)
            /\ Timed(Released(shared), now)
        BY <1>1, <3>1, ClosedTimed, ReopenedTimed, RenewedTimed
      <3>3. Timed(Concluded(shared, verdict[q], at[q]), now)
        BY <3>2, Zenon DEF Concluded
      <3> QED
        BY <1>2, <1>7, <2>1, <3>3 DEF Conclude
    <2> QED
      BY <1>3, <1>7, <2>1 DEF Conclude
  <1>8. CASE Trip(q)
    <2>1. at[q] \in 1..now
      BY <1>8 DEF Trip, Shape, Timely, Updating
    <2> QED
      BY <1>1, <1>2, <1>3, <1>8, <2>1, TrippedTimed DEF Trip
  <1>9. CASE ~Touches(q)
    <2>1. shared' = shared /\ closedAgo' = closedAgo
      <3>1. CASE NotSent(q) \/ \E v \in {"success", "failure", "neutral"} : Reply(q, v)
        BY <3>1, EndsWithHandled, RefusalIsVerdict DEF NotSent, Reply, Verdicts, Unchanged
      <3> QED
        BY <1>9, <3>1, DecideHandled, AcquireRefusedHandled, PrepareHandled, ContinueHandled,
           UnauthorizedHandled, UpdateFailsHandled DEF RequestStep, Touches, Unchanged
    <2> QED
      BY <1>1, <2>1
  <1> QED
    BY <1>4, <1>5, <1>6, <1>7, <1>8, <1>9 DEF Touches

LEMMA RequestRoutersFit ==
  ASSUME Shape, Fit, NEW q \in Requests, RequestStep(q)
  PROVE  RoutersFit' /\ CopiesThere'
  <1>1. Handled(q) /\ Timed(shared', now) /\ shared' \in Circuits /\ now \in Nat
    <2>1. Shape'
      BY RequestShapeKept
    <2> QED
      BY <2>1, RequestHandled, CircuitTimed, FitParts DEF Shape, StoreShape
  <1>2. View(shared').deny <= MaxOpen + ProbeLease /\ View(shared').st # "absent"
    BY <1>1, ViewFits
  <1>3. /\ now' = now /\ resetAt' = resetAt /\ cache \in [Routers -> CopyShapes]
        /\ UNCHANGED <<freshFor, poll, seenReset>>
        /\ \/ cache' = cache
           \/ cache' = [cache EXCEPT ![RouterOf[q]] = View(shared')]
    BY <1>1 DEF Handled, CopyTaken, CopyKept, Shape, RouterShape
  <1>4. RoutersFit'
    <2>1. ASSUME NEW p \in Routers
          PROVE  /\ cache'[p].deny <= MaxOpen + ProbeLease
                 /\ freshFor[p] # 0 => cache'[p].st # "absent"
      BY <1>2, <1>3 DEF Fit, RoutersFit
    <2> QED
      BY <1>3, <2>1 DEF Fit, RoutersFit
  <1>5. ASSUME NEW r \in Requests, pc'[r] # "admit"
        PROVE  cache'[RouterOf[r]].st # "absent"
    <2>1. RouterOf[r] \in Routers /\ RouterOf[q] \in Routers
      BY ConstantsFit
    <2>2. CASE cache' = [cache EXCEPT ![RouterOf[q]] = View(shared')] /\ RouterOf[r] = RouterOf[q]
      BY <1>2, <1>3, <2>1, <2>2
    <2>3. CASE cache'[RouterOf[r]] = cache[RouterOf[r]]
      <3>1. CASE pc[r] # "admit"
        BY <2>3, <3>1 DEF Fit, CopiesThere
      <3>2. CASE pc[r] = "admit"
        <4>1. r = q
          BY <1>1, <1>5, <3>2, OthersStay
        <4>2. Fresh(RouterOf[q])
          <5>1. ~UpdateFails(q)
            <6>1. ASSUME UpdateFails(q) PROVE pc'[q] = "admit"
              BY <3>2, <4>1, <6>1 DEF UpdateFails, Ended, Step, Shape, RequestShape
            <6> QED
              BY <1>5, <4>1, <6>1
          <5> QED
            BY <3>2, <4>1, <5>1 DEF RequestStep, Decide, AcquireRefused, Acquire, Prepare, Renew,
               NotSent, Reply, Continue, Unauthorized, AuthFailure, Conclude, Trip
        <4> QED
          BY <2>1, <2>3, <4>1, <4>2, CopyIsState DEF States
      <3> QED
        BY <3>1, <3>2
    <2> QED
      BY <1>3, <2>1, <2>2, <2>3
  <1> QED
    BY <1>4, <1>5 DEF CopiesThere

(* Whoever gives a verdict from now on began it after the circuit opened.   *)
LEMMA RequestVerdictsLate ==
  ASSUME Shape, Fit, NEW q \in Requests, RequestStep(q)
  PROVE  VerdictsLate'
  <1>0. /\ pc \in [Requests -> Steps] /\ token \in [Requests -> Tokens \cup {None}]
        /\ at \in [Requests -> Nat] /\ shared \in Circuits /\ now \in Nat /\ Handled(q)
        /\ (shared.st = "half_open" => shared.opened < now)
    BY FitParts, RequestHandled DEF Shape, RequestShape, Fit, StoreFits, Timed
  <1>1. ASSUME NEW r \in Requests, r # q
        PROVE  pc'[r] = pc[r] /\ at'[r] = at[r]
    BY <1>0, <1>1, OthersStay
  (* A holder's circuit is the one it had, or it is the new holder. *)
  <1>2. ASSUME HoldsProbe(shared', token'[q]) /\ pc'[q] = "verdict" => shared'.opened < at'[q],
               pc'[q] = "verdict" => token'[q] # None,
               \A r \in Requests : r # q => token'[r] = token[r],
               \A r \in Requests : r # q /\ token[r] # None /\ HoldsProbe(shared', token[r])
                  => HoldsProbe(shared, token[r]) /\ shared'.opened = shared.opened
        PROVE  VerdictsLate'
    <2>1. ASSUME NEW r \in Requests, pc'[r] = "verdict"
          PROVE  /\ token'[r] # None
                 /\ HoldsProbe(shared', token'[r]) => shared'.opened < at'[r]
      <3>1. CASE r = q
        BY <1>2, <2>1, <3>1
      <3>2. CASE r # q
        BY <1>1, <1>2, <2>1, <3>2 DEF Fit, VerdictsLate
      <3> QED
        BY <3>1, <3>2
    <2> QED
      BY <2>1 DEF VerdictsLate, HoldsProbe
  <1>3. ASSUME NEW v \in Verdicts, NEW w, NEW st, Over(q, v, w, st),
               shared' = shared \/ shared'.st = "auth"
        PROVE  VerdictsLate'
    <2>1. Closing(q) /\ token' = token
      BY <1>3, OverCloses DEF Shape
    <2>2. pc'[q] = "verdict" => at'[q] = now /\ token[q] # None
      <3>1. CASE token[q] # None
        BY <1>0, <1>3, <3>1 DEF Over, Begin, Step
      <3>2. CASE token[q] = None
        BY <1>0, <1>3, <3>2 DEF Over, Begin, Ended, Step
      <3> QED
        BY <3>1, <3>2
    <2> QED
      BY <1>0, <1>2, <1>3, <2>1, <2>2 DEF HoldsProbe
  <1>4. ASSUME NEW v \in Verdicts, EndsWith(q, v) PROVE VerdictsLate'
    BY <1>3, <1>4 DEF EndsWith
  <1>5. ASSUME pc'[q] # "verdict", token' = token \/ token' = [token EXCEPT ![q] = None],
               shared' = shared \/ ~(shared'.st = "half_open" /\ shared'.token # None)
        PROVE  VerdictsLate'
    <2>1. \A r \in Requests : r # q => token'[r] = token[r]
      BY <1>0, <1>5
    <2> QED
      BY <1>2, <1>5, <2>1 DEF HoldsProbe
  <1>6. CASE Decide(q)
    <2>1. CASE EndsWith(q, Refusal(q))
      BY <1>4, <2>1, RefusalIsVerdict
    <2>2. CASE ~EndsWith(q, Refusal(q))
      <3>1. token' = token /\ shared' = shared
        BY <1>6, <2>2 DEF Decide
      <3>2. pc'[q] # "verdict"
        BY <1>0, <1>6, <2>2 DEF Decide, Begin, Step, Onward
      <3> QED
        BY <1>5, <3>1, <3>2
    <2> QED
      BY <2>1, <2>2
  <1>7. ASSUME NEW k \in Tokens, Acquire(q, k) PROVE VerdictsLate'
    <2>1. /\ shared' = Probing(shared, at[q], k) /\ token' = [token EXCEPT ![q] = k]
          /\ \A r \in Requests : token[r] # k
      BY <1>7 DEF Acquire, Store, FreshToken
    <2>2. shared'.token = k
      BY <1>0, <2>1, ProbeBegins
    <2>3. pc'[q] # "verdict"
      BY <1>0, <1>7 DEF Acquire, Ended, Step, Onward
    <2>4. \A r \in Requests : r # q => token'[r] = token[r] /\ ~HoldsProbe(shared', token[r])
      BY <1>0, <2>1, <2>2 DEF HoldsProbe
    <2> QED
      BY <1>2, <2>3, <2>4
  <1>8. CASE AcquireRefused(q)
    <2>1. CASE shared.st = "closed"
      <3>1. pc'[q] # "verdict" /\ token' = token /\ shared' = shared
        BY <1>0, <1>8, <2>1 DEF AcquireRefused, Unchanged, Ended, Step, Onward
      <3> QED
        BY <1>5, <3>1
    <2>2. CASE shared.st # "closed"
      BY <1>3, <1>8, <2>2, RefusalIsVerdict DEF AcquireRefused, Unchanged
    <2> QED
      BY <2>1, <2>2
  <1>9. CASE Prepare(q) \/ Unauthorized(q) \/ \E failed \in BOOLEAN : Continue(q, failed)
    <2>1. pc'[q] # "verdict" /\ token' = token /\ shared' = shared
      BY <1>0, <1>9 DEF Prepare, Unauthorized, Continue, Begin, Step
    <2> QED
      BY <1>5, <2>1
  <1>10. CASE Renew(q)
    <2>1. CASE HoldsProbe(shared, token[q])
      <3>1. shared' = Renewed(shared, at[q]) /\ token' = token /\ pc'[q] # "verdict"
        BY <1>0, <1>10, <2>1 DEF Renew, Store, Ended, Step
      <3>2. shared'.st = shared.st /\ shared'.token = shared.token
            /\ shared'.opened = shared.opened
        BY <1>0, <3>1 DEF Renewed, Circuits
      <3> QED
        BY <1>2, <3>1, <3>2 DEF HoldsProbe
    <2>2. CASE ~HoldsProbe(shared, token[q])
      <3>1. shared' = shared /\ token' = [token EXCEPT ![q] = None] /\ pc'[q] # "verdict"
        BY <1>0, <1>10, <2>2 DEF Renew, Unchanged, Drop, Ended, Step
      <3> QED
        BY <1>5, <3>1
    <2> QED
      BY <2>1, <2>2
  <1>11. CASE NotSent(q) \/ \E v \in {"success", "failure", "neutral"} : Reply(q, v)
    BY <1>4, <1>11, RefusalIsVerdict DEF NotSent, Reply, Verdicts
  <1>12. CASE AuthFailure(q)
    <2>1. shared' = shared \/ shared'.st = "auth"
      <3>1. shared' = shared \/ shared' = AuthMode(shared, at[q])
        BY <1>12 DEF AuthFailure, Store, Unchanged
      <3> QED
        BY <1>0, <3>1, Transitions
    <2>2. Over(q, "neutral", Remembered(RouterOf[q], before[q]), shared'.st)
      BY <1>12 DEF AuthFailure
    <2> QED
      BY <1>3, <2>1, <2>2 DEF Verdicts
  <1>13. CASE Conclude(q)
    <2>1. token' = [token EXCEPT ![q] = None] /\ pc'[q] # "verdict"
      BY <1>0, <1>13 DEF Conclude, Drop, Ended, Step
    <2>2. CASE HoldsProbe(shared, token[q])
      <3>1. shared' = Concluded(shared, verdict[q], at[q])
        BY <1>13, <2>2 DEF Conclude, Store
      <3>2. shared'.token = None
        <4>1. Closed.token = None /\ Reopened(shared, at[q]).token = None
          BY DEF Closed, Reopened
        <4>2. Released(shared).token = None
          BY <1>0 DEF Released, Circuits
        <4> QED
          BY <3>1, <4>1, <4>2 DEF Concluded
      <3> QED
        BY <1>5, <2>1, <3>2
    <2>3. CASE ~HoldsProbe(shared, token[q])
      BY <1>5, <1>13, <2>1, <2>3 DEF Conclude, Unchanged
    <2> QED
      BY <2>2, <2>3
  <1>14. CASE Trip(q)
    <2>1. token' = token /\ pc'[q] # "verdict"
      BY <1>0, <1>14 DEF Trip, Ended, Step
    <2>2. shared' = shared \/ shared'.st = "open"
      BY <1>0, <1>14, Transitions DEF Trip, Store, Unchanged
    <2> QED
      BY <1>5, <2>1, <2>2
  <1>15. CASE UpdateFails(q)
    <2>1. CASE EndsWith(q, "neutral")
      BY <1>4, <2>1 DEF Verdicts
    <2>2. CASE ~EndsWith(q, "neutral")
      <3>1. token' = [token EXCEPT ![q] = None] /\ shared' = shared /\ pc'[q] # "verdict"
        BY <1>0, <1>15, <2>2 DEF UpdateFails, Drop, Ended, Step
      <3> QED
        BY <1>5, <3>1
    <2> QED
      BY <2>1, <2>2
  <1> QED
    BY <1>6, <1>7, <1>8, <1>9, <1>10, <1>11, <1>12, <1>13, <1>14, <1>15 DEF RequestStep

LEMMA RequestFit ==
  ASSUME Shape, Fit, NEW q \in Requests, RequestStep(q)
  PROVE  Fit'
  <1>1. Steady(q) /\ RoutersFit' /\ CopiesThere' /\ VerdictsLate'
    BY RequestSteady, RequestRoutersFit, RequestVerdictsLate
  <1>2. Timed(shared', now) /\ closedAgo' <= PollTicks /\ resetAt' = resetAt
    BY CircuitTimed, RequestHandled DEF Handled
  <1>3. authOf' \in 0..MaxVersion
    BY <1>1, ConstantsFit DEF Steady, Fit, StoreFits, RequestsFit
  <1>4. StoreFits'
    BY <1>1, <1>2, <1>3 DEF Steady, Fit, StoreFits
  <1> QED
    BY <1>1, <1>4 DEF Fit, Steady

(* The steps of the routers.                                                *)
LEMMA ResetInTime ==
  ASSUME Shape, Fit, NEW p \in Routers
  PROVE  poll[p].reset <= resetAt /\ poll[p].circuit \in Circuits /\ poll[p].reset \in Nat
         /\ resetAt \in Nat
  BY DEF Shape, StoreShape, RouterShape, Timely, Polls

LEMMA NoPollTimed == ASSUME NEW t \in Nat PROVE Timed(NoPoll.circuit, t)
  BY ClosedTimed DEF NoPoll

(* A closed circuit has no holder.                                          *)
LEMMA VerdictsStayLate ==
  ASSUME Shape, Fit, UNCHANGED <<pc, token, at>>, shared' = shared \/ shared'.st # "half_open"
  PROVE  VerdictsLate'
  BY DEF Fit, VerdictsLate, HoldsProbe

LEMMA PollReadFits ==
  ASSUME Shape, Fit, NEW p \in Routers, PollRead(p)
  PROVE  Fit'
  <1>1. /\ UNCHANGED <<now, shared, resetAt, active, cache, freshFor, seenReset, window>>
        /\ UNCHANGED request /\ UNCHANGED history
        /\ poll' = [poll EXCEPT ![p] = [on |-> TRUE, circuit |-> shared, reset |-> resetAt]]
    BY DEF PollRead
  <1>2. StoreFits' /\ RequestsFit' /\ CopiesThere' /\ VerdictsLate'
    BY <1>1, VerdictsStayLate DEF Fit, StoreFits, RequestsFit, CopiesThere, request, history
  <1>3. \A r \in Routers : Timed(poll'[r].circuit, now)
    BY <1>1 DEF Fit, StoreFits, RoutersFit, Shape, RouterShape
  <1> QED
    BY <1>1, <1>2, <1>3 DEF Fit, RoutersFit

LEMMA PollEndFits ==
  ASSUME Shape, Fit, NEW p \in Routers, PollEnd(p)
  PROVE  Fit'
  <1>0. now \in Nat /\ now <= MaxNow /\ shared \in Circuits /\ Timed(shared, now)
        /\ Timed(poll[p].circuit, now) /\ cache \in [Routers -> CopyShapes]
        /\ freshFor \in [Routers -> Nat] /\ seenReset \in [Routers -> Nat]
        /\ poll \in [Routers -> Polls] /\ window \in [Routers -> Windows]
    BY FitParts DEF Fit, StoreFits, RoutersFit, RequestsFit, Shape, RouterShape
  <1>1. UNCHANGED <<now, resetAt, active, authOf>> /\ UNCHANGED request
    BY DEF PollEnd
  <1>2. \/ shared' = shared /\ closedAgo' = closedAgo
        \/ shared' = Closed /\ closedAgo' = 0
    BY DEF PollEnd, Store, Unchanged, Closed
  <1>3. shared' \in Circuits /\ Timed(shared', now) /\ closedAgo' <= PollTicks
    BY <1>0, <1>2, ClosedShape, ClosedTimed, ConstantsFit DEF Fit, StoreFits
  <1>4. StoreFits'
    BY <1>1, <1>3 DEF Fit, StoreFits
  <1>5. \E v : cache' = [cache EXCEPT ![p] = v] /\ v.deny <= MaxOpen + ProbeLease /\ v.st # "absent"
    <2>1. cache' = [cache EXCEPT ![p] = View(shared')]
          \/ cache' = [cache EXCEPT ![p] = View(poll[p].circuit)]
      BY DEF PollEnd
    <2> QED
      BY <1>0, <1>3, <2>1, ViewFits, ResetInTime
  <1>6. window' \in [Routers -> Windows]
    BY <1>0, EmptyWindow DEF PollEnd
  <1>7. RequestsFit'
    BY <1>1, <1>6 DEF Fit, RequestsFit, request
  <1>8. CopiesThere'
    <2>1. \A q \in Requests : RouterOf[q] \in Routers
      BY ConstantsFit
    <2> QED
      BY <1>0, <1>1, <1>5, <2>1 DEF Fit, CopiesThere, request
  <1>9. VerdictsLate'
    BY <1>1, <1>2, VerdictsStayLate, ClosedIsClosed DEF request
  <1>10. RoutersFit'
    <2>1. ASSUME NEW r \in Routers
          PROVE  /\ Timed(poll'[r].circuit, now)
                 /\ cache'[r].deny <= MaxOpen + ProbeLease /\ freshFor'[r] <= PollTicks
                 /\ seenReset'[r] <= resetAt
                 /\ freshFor'[r] # 0 => cache'[r].st # "absent"
      <3>1. Timed(poll'[r].circuit, now)
        BY <1>0, NoPollTimed DEF PollEnd, Fit, RoutersFit
      <3>2. cache'[r].deny <= MaxOpen + ProbeLease /\ freshFor'[r] <= PollTicks
            /\ (freshFor'[r] # 0 => cache'[r].st # "absent")
        BY <1>0, <1>5, ConstantsFit DEF PollEnd, Fit, RoutersFit
      <3>3. seenReset'[r] <= resetAt
        BY <1>0, ResetInTime DEF PollEnd, Fit, RoutersFit
      <3> QED
        BY <3>1, <3>2, <3>3
    <2> QED
      BY <1>1, <2>1 DEF RoutersFit
  <1> QED
    BY <1>4, <1>7, <1>8, <1>9, <1>10 DEF Fit

LEMMA PollFailsFits ==
  ASSUME Shape, Fit, NEW p \in Routers, PollFails(p)
  PROVE  Fit'
  <1>1. /\ UNCHANGED <<now, shared, resetAt, active, cache, freshFor, seenReset, window>>
        /\ UNCHANGED request /\ UNCHANGED history
        /\ poll' = [poll EXCEPT ![p] = NoPoll]
    BY DEF PollFails
  <1>2. StoreFits' /\ RequestsFit' /\ CopiesThere' /\ VerdictsLate'
    BY <1>1, VerdictsStayLate DEF Fit, StoreFits, RequestsFit, CopiesThere, request, history
  <1>3. \A r \in Routers : Timed(poll'[r].circuit, now)
    BY <1>1, NoPollTimed, FitParts DEF Fit, RoutersFit, Shape, RouterShape
  <1> QED
    BY <1>1, <1>2, <1>3 DEF Fit, RoutersFit

LEMMA OtherEngineFits ==
  ASSUME Shape, Fit, NEW p \in Routers, OtherEngine(p)
  PROVE  Fit'
  <1>1. /\ UNCHANGED <<now, shared, resetAt, active, freshFor, poll, seenReset, window>>
        /\ UNCHANGED request /\ UNCHANGED history
        /\ cache' = [cache EXCEPT ![p] = View(shared)]
        /\ cache \in [Routers -> CopyShapes]
    BY DEF OtherEngine, Shape, RouterShape
  <1>2. View(shared).deny <= MaxOpen + ProbeLease /\ View(shared).st # "absent"
    BY FitParts, ViewFits DEF Fit, StoreFits
  <1>3. StoreFits' /\ RequestsFit' /\ VerdictsLate'
    BY <1>1, VerdictsStayLate DEF Fit, StoreFits, RequestsFit, request, history
  <1>4. RoutersFit'
    BY <1>1, <1>2 DEF Fit, RoutersFit
  <1>5. CopiesThere'
    <2>1. \A q \in Requests : RouterOf[q] \in Routers
      BY ConstantsFit
    <2> QED
      BY <1>1, <1>2, <2>1 DEF Fit, CopiesThere, request
  <1> QED
    BY <1>3, <1>4, <1>5 DEF Fit

LEMMA CrashFits ==
  ASSUME Shape, Fit, NEW p \in Routers, Crash(p)
  PROVE  Fit'
  <1>0. /\ cache \in [Routers -> CopyShapes] /\ poll \in [Routers -> Polls]
        /\ freshFor \in [Routers -> Nat] /\ seenReset \in [Routers -> Nat]
        /\ now \in Nat /\ resetAt \in Nat
    BY DEF Shape, RouterShape, StoreShape
  <1>1. /\ UNCHANGED <<now, shared, resetAt, active, version>> /\ UNCHANGED history
        /\ cache' = [cache EXCEPT ![p] = NoCopy]
        /\ freshFor' = [freshFor EXCEPT ![p] = 0]
        /\ poll' = [poll EXCEPT ![p] = NoPoll]
        /\ seenReset' = [seenReset EXCEPT ![p] = 0]
        /\ window' = [window EXCEPT ![p] = <<>>]
    BY DEF Crash
  <1>2. /\ pc' = [q \in Requests |-> IF RouterOf[q] = p THEN "admit" ELSE pc[q]]
        /\ token' = [q \in Requests |-> IF RouterOf[q] = p THEN None ELSE token[q]]
        /\ again' = [q \in Requests |-> IF RouterOf[q] = p THEN FALSE ELSE again[q]]
        /\ at' = [q \in Requests |-> IF RouterOf[q] = p THEN 0 ELSE at[q]]
        /\ before' = [q \in Requests |-> IF RouterOf[q] = p THEN "closed" ELSE before[q]]
    BY DEF Crash
  <1>3. StoreFits'
    BY <1>1 DEF Fit, StoreFits, history
  <1>4. RequestsFit'
    <2>1. window' \in [Routers -> Windows] /\ version' \in [Requests -> 1..MaxVersion]
      BY <1>1, EmptyWindow DEF Fit, RequestsFit
    <2>2. again' \in [Requests -> BOOLEAN]
      BY <1>2 DEF Fit, RequestsFit
    <2>3. before' \in [Requests -> States]
      BY <1>2 DEF Fit, RequestsFit, States
    <2>4. at' \in [Requests -> 0..now]
      BY <1>0, <1>2 DEF Fit, RequestsFit
    <2> QED
      BY <1>1, <2>1, <2>2, <2>3, <2>4 DEF RequestsFit
  <1>5. RoutersFit'
    <2>1. NoCopy.deny <= MaxOpen + ProbeLease /\ 0 <= PollTicks
      BY ConstantsFit DEF NoCopy
    <2>2. \A r \in Routers : Timed(poll'[r].circuit, now)
      BY <1>0, <1>1, NoPollTimed DEF Fit, RoutersFit
    <2> QED
      BY <1>0, <1>1, <2>1, <2>2 DEF Fit, RoutersFit
  <1>6. CopiesThere'
    <2>1. \A q \in Requests : RouterOf[q] \in Routers
      BY ConstantsFit
    <2> QED
      BY <1>0, <1>1, <1>2, <2>1 DEF Fit, CopiesThere
  <1>7. VerdictsLate'
    BY <1>1, <1>2 DEF Fit, VerdictsLate, HoldsProbe
  <1> QED
    BY <1>3, <1>4, <1>5, <1>6, <1>7 DEF Fit

LEMMA TickFits ==
  ASSUME Shape, Fit, Tick
  PROVE  Fit'
  <1>0. /\ now \in Nat /\ shared \in Circuits /\ closedAgo \in Nat /\ resetAt \in Nat
        /\ cache \in [Routers -> CopyShapes] /\ freshFor \in [Routers -> Nat]
        /\ poll \in [Routers -> Polls]
    BY DEF Shape, StoreShape, RouterShape
  <1>1. /\ now' = now + 1 /\ now' <= MaxNow
        /\ UNCHANGED <<shared, resetAt, active, poll, seenReset, authOf>> /\ UNCHANGED request
        /\ freshFor' = [p \in Routers |-> Minus1(freshFor[p])]
        /\ cache' = [p \in Routers |-> [st |-> cache[p].st, deny |-> Minus1(cache[p].deny)]]
    BY <1>0, ConstantsFit DEF Tick
  <1>2. StoreFits'
    <2>1. Timed(shared, now + 1)
      BY <1>0, TimedLater DEF Fit, StoreFits
    <2>2. closedAgo' <= PollTicks
      BY <1>0, ConstantsFit DEF Tick, Smaller
    <2> QED
      BY <1>0, <1>1, <2>1, <2>2 DEF Fit, StoreFits
  <1>3. RoutersFit'
    <2>1. ASSUME NEW p \in Routers
          PROVE  /\ Timed(poll[p].circuit, now + 1)
                 /\ cache'[p].deny <= MaxOpen + ProbeLease /\ freshFor'[p] <= PollTicks
                 /\ freshFor'[p] # 0 => cache'[p].st # "absent"
      <3>1. Timed(poll[p].circuit, now + 1)
        BY <1>0, TimedLater, ResetInTime DEF Fit, RoutersFit
      <3>2. /\ cache[p].deny \in Nat /\ cache[p].deny <= MaxOpen + ProbeLease
            /\ freshFor[p] \in Nat /\ freshFor[p] <= PollTicks
            /\ freshFor[p] # 0 => cache[p].st # "absent"
        BY <1>0 DEF Fit, RoutersFit, CopyShapes
      <3> QED
        BY <1>1, <3>1, <3>2, ConstantsFit DEF Minus1
    <2> QED
      BY <1>1, <2>1 DEF Fit, RoutersFit
  <1>4. RequestsFit'
    <2>1. window' \in [Routers -> Windows]
      BY PrunedWindow DEF Tick, Fit, RequestsFit
    <2> QED
      BY <1>0, <1>1, <2>1 DEF Fit, RequestsFit, request
  <1>5. CopiesThere' /\ VerdictsLate'
    <2>1. CopiesThere'
      <3>1. \A q \in Requests : RouterOf[q] \in Routers
        BY ConstantsFit
      <3> QED
        BY <1>1, <3>1 DEF Fit, CopiesThere, request
    <2> QED
      BY <1>1, <2>1, VerdictsStayLate DEF request
  <1> QED
    BY <1>2, <1>3, <1>4, <1>5 DEF Fit

LEMMA AdminFits ==
  ASSUME Shape, Fit, RequestReset \/ Activate
  PROVE  Fit'
  <1>1. UNCHANGED router /\ UNCHANGED request /\ now' = now /\ authOf' = authOf
    BY DEF RequestReset, Activate, history
  <1>2. RequestsFit' /\ CopiesThere'
    BY <1>1 DEF Fit, RequestsFit, CopiesThere, router, request
  <1>3. CASE RequestReset
    <2>1. resetAt' = now /\ UNCHANGED <<shared, active, closedAgo>> /\ now \in Nat
          /\ resetAt \in Nat /\ resetAt <= now /\ seenReset \in [Routers -> Nat]
      BY <1>3 DEF RequestReset, history, Shape, StoreShape, RouterShape, Fit, StoreFits
    <2>2. StoreFits' /\ RoutersFit'
      BY <1>1, <2>1 DEF Fit, StoreFits, RoutersFit, router
    <2> QED
      BY <1>1, <1>2, <2>1, <2>2, VerdictsStayLate DEF Fit, request
  <1>4. CASE Activate
    <2>1. /\ active' \in 1..MaxVersion /\ resetAt' = resetAt
          /\ \/ shared' = shared /\ closedAgo' = closedAgo
             \/ shared' = Closed /\ closedAgo' = 0
      BY <1>4, ConstantsFit DEF Activate, Store, Unchanged, Fit, StoreFits, Closed
    <2>2. StoreFits'
      <3>1. Timed(Closed, now) /\ 0 <= PollTicks
        BY ClosedTimed, ConstantsFit, FitParts
      <3> QED
        BY <1>1, <2>1, <3>1 DEF Fit, StoreFits
    <2>3. RoutersFit' /\ VerdictsLate'
      BY <1>1, <2>1, VerdictsStayLate, ClosedIsClosed DEF Fit, RoutersFit, router, request
    <2> QED
      BY <1>2, <2>2, <2>3 DEF Fit
  <1> QED
    BY <1>3, <1>4

LEMMA FitInitial == Init => Fit
  <1> SUFFICES ASSUME Init PROVE Fit
    OBVIOUS
  <1>1. StoreFits
    BY ClosedTimed, ConstantsFit DEF Init, StoreFits
  <1>2. RoutersFit
    BY NoPollTimed, ConstantsFit DEF Init, NoCopy, RoutersFit
  <1>3. RequestsFit
    BY EmptyWindow, ConstantsFit DEF Init, RequestsFit, States
  <1>4. CopiesThere /\ VerdictsLate
    BY DEF Init, CopiesThere, VerdictsLate
  <1> QED
    BY <1>1, <1>2, <1>3, <1>4 DEF Fit

LEMMA FitKept == Shape /\ Fit /\ [Next]_vars => Fit'
  <1> SUFFICES ASSUME Shape, Fit, [Next]_vars PROVE Fit'
    OBVIOUS
  <1>1. ASSUME NEW q \in Requests, RequestStep(q) PROVE Fit'
    BY <1>1, RequestFit
  <1>2. ASSUME NEW p \in Routers, RouterStep(p) PROVE Fit'
    BY <1>2, PollReadFits, PollEndFits, PollFailsFits, OtherEngineFits, CrashFits
    DEF RouterStep
  <1>3. CASE UNCHANGED vars
    BY <1>3 DEF vars, router, request, history, Fit, StoreFits, RoutersFit, RequestsFit,
       CopiesThere, VerdictsLate, HoldsProbe
  <1> QED
    BY <1>1, <1>2, <1>3, TickFits, AdminFits DEF Next, RouterNext

LEMMA CircuitBounds ==
  ASSUME NEW c \in Circuits, NEW t \in Nat, t <= MaxNow, Timed(c, t)
  PROVE  c \in Breaker
  <1>1. /\ c.st \in States /\ c.token \in Tokens \cup {None}
        /\ c.opened \in Times /\ c.since \in Times /\ c.reopen \in Times
        /\ c.until \in 0..(MaxNow + MaxOpen) /\ c.lease \in 0..(MaxNow + ProbeLease)
    BY FieldTypes, ConstantsFit DEF Timed, Times
  <1> QED
    BY <1>1 DEF Circuits, Breaker

(* The breaker keeps its shape and its bounds: a deny time never outlasts   *)
(* the cap or a lease, a window never grows beyond its limit, and failed    *)
(* probes are fewer than ticks, however polls, updates, crashes and         *)
(* verdicts interleave.                                                     *)
THEOREM BreakerBounded == Spec => []TypeOK
  <1>1. Shape /\ Fit => TypeOK
    <2> SUFFICES ASSUME Shape, Fit PROVE TypeOK
      OBVIOUS
    <2>0. now \in Nat /\ now <= MaxNow /\ resetAt \in Nat /\ resetAt <= now
      BY DEF Shape, StoreShape, Fit, StoreFits
    <2>1. /\ now \in 1..MaxNow /\ resetAt \in Times /\ active \in 1..MaxVersion
          /\ closedAgo \in 0..PollTicks /\ authOf \in 0..MaxVersion
      BY ConstantsFit DEF Shape, StoreShape, Fit, StoreFits, Times
    <2>2. shared \in Breaker
      BY <2>0, CircuitBounds DEF Shape, StoreShape, Fit, StoreFits
    <2>3. cache \in [Routers -> Copy]
      <3>1. ASSUME NEW p \in Routers PROVE cache[p] \in Copy
        <4>1. cache[p] \in CopyShapes /\ cache[p].deny <= MaxOpen + ProbeLease
          BY DEF Shape, RouterShape, Fit, RoutersFit
        <4> QED
          BY <4>1, ConstantsFit DEF CopyShapes, Copy
      <3> QED
        BY <3>1 DEF Shape, RouterShape
    <2>4. freshFor \in [Routers -> 0..PollTicks]
      BY ConstantsFit DEF Shape, RouterShape, Fit, RoutersFit
    <2>5. poll \in [Routers -> [on: BOOLEAN, circuit: Breaker, reset: Times]]
      <3>1. ASSUME NEW p \in Routers
            PROVE  poll[p] \in [on: BOOLEAN, circuit: Breaker, reset: Times]
        <4>1. poll[p] \in Polls /\ poll[p].circuit \in Breaker
          BY <2>0, CircuitBounds, ResetInTime DEF Shape, RouterShape, Fit, RoutersFit
        <4>2. poll[p].reset \in Times
          BY <2>0, ResetInTime, ConstantsFit DEF Times
        <4> QED
          BY <4>1, <4>2 DEF Polls
      <3> QED
        BY <3>1 DEF Shape, RouterShape
    <2>6. seenReset \in [Routers -> Times]
      BY <2>0, ConstantsFit DEF Shape, RouterShape, Fit, RoutersFit, Times
    <2>7. \A p \in Routers : window[p] \in Seq(Outcomes) /\ Len(window[p]) <= MaxWindow
      BY DEF Fit, RequestsFit, Windows
    <2>8. /\ again \in [Requests -> BOOLEAN] /\ version \in [Requests -> 1..MaxVersion]
          /\ before \in [Requests -> States]
      BY DEF Fit, RequestsFit
    <2>9. at \in [Requests -> Times]
      BY <2>0, ConstantsFit DEF Fit, RequestsFit, Times
    <2>10. /\ pc \in [Requests -> Steps] /\ token \in [Requests -> Tokens \cup {None}]
           /\ verdict \in [Requests -> {"success", "failure", "neutral"}]
      BY DEF Shape, RequestShape, Verdicts
    <2> QED
      BY <2>1, <2>2, <2>3, <2>4, <2>5, <2>6, <2>7, <2>8, <2>9, <2>10 DEF TypeOK
  <1> QED
    BY <1>1, FitInitial, FitKept, ShapeAlways, PTL DEF Spec
=============================================================================
