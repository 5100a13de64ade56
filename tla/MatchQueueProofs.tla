------------------------- MODULE MatchQueueProofs -------------------------
(***************************************************************************)
(* Proofs about the classification queue, for any number of cards and      *)
(* workers and any bounds.  Most steps do to the queue one of two things:  *)
(* they delete some rows, or they change rows but for their revision.      *)
(* RowsLeft says so once, and the lemmas of the first part show it of the  *)
(* operators the actions are built from.                                   *)
(***************************************************************************)
EXTENDS MatchQueue, TLAPS

Queue == [Cards -> Rows \cup {None}]

\* The rows of gone are deleted, the others keep their revision.
RowsLeft(gone, old, new) ==
  /\ new \in Queue
  /\ \A c \in Cards :
       /\ c \in gone => new[c] = None
       /\ c \notin gone => (new[c] = None <=> old[c] = None)
       /\ c \notin gone /\ old[c] # None => new[c].rev = old[c].rev

\* No row has more failed attempts than before.
NotFailed(old, new) ==
  \A c \in Cards : old[c] # None /\ new[c] # None => new[c].att <= old[c].att

-----------------------------------------------------------------------------
(* Rows                                                                    *)

\* A row is not None, whatever becomes of it.
LEMMA RowIsSome == ASSUME NEW r \in Rows PROVE r # None
  BY RecordsAssumption

LEMMA NewRowFacts ==
  ASSUME NEW v \in 1..MaxRev
  PROVE  NewRow(v) \in Rows /\ NewRow(v).rev = v /\ NewRow(v).att = 0
  BY BoundsAssumption DEF NewRow, Rows, Owners

\* A change of the lease or of the due time keeps the rest of the row.
LEMMA LeaseFacts ==
  ASSUME NEW r \in Rows, NEW o \in Owners, NEW b \in BOOLEAN
  PROVE  /\ [r EXCEPT !.live = b] \in Rows
         /\ [r EXCEPT !.live = b].rev = r.rev
         /\ [r EXCEPT !.live = b].att = r.att
         /\ [r EXCEPT !.ripe = b] \in Rows
         /\ [r EXCEPT !.ripe = b].rev = r.rev
         /\ [r EXCEPT !.ripe = b].att = r.att
         /\ [r EXCEPT !.own = o] \in Rows
         /\ [r EXCEPT !.own = o].rev = r.rev
         /\ [r EXCEPT !.own = o].att = r.att
         /\ [r EXCEPT !.own = o, !.live = b] \in Rows
         /\ [r EXCEPT !.own = o, !.live = b].rev = r.rev
         /\ [r EXCEPT !.own = o, !.live = b].att = r.att
<1>1. [r EXCEPT !.live = b] \in Rows
  BY Zenon DEF Rows
<1>2. [r EXCEPT !.live = b].rev = r.rev
  BY Zenon DEF Rows
<1>3. [r EXCEPT !.live = b].att = r.att
  BY Zenon DEF Rows
<1>4. [r EXCEPT !.ripe = b] \in Rows
  BY Zenon DEF Rows
<1>5. [r EXCEPT !.ripe = b].rev = r.rev
  BY Zenon DEF Rows
<1>6. [r EXCEPT !.ripe = b].att = r.att
  BY Zenon DEF Rows
<1>7. [r EXCEPT !.own = o] \in Rows
  BY Zenon DEF Rows
<1>8. [r EXCEPT !.own = o].rev = r.rev
  BY Zenon DEF Rows
<1>9. [r EXCEPT !.own = o].att = r.att
  BY Zenon DEF Rows
<1>10. [r EXCEPT !.own = o, !.live = b] \in Rows
  BY Zenon DEF Rows
<1>11. [r EXCEPT !.own = o, !.live = b].rev = r.rev
  BY Zenon DEF Rows
<1>12. [r EXCEPT !.own = o, !.live = b].att = r.att
  BY Zenon DEF Rows
<1> QED
  BY <1>1, <1>2, <1>3, <1>4, <1>5, <1>6, <1>7, <1>8, <1>9, <1>10, <1>11, <1>12

LEMMA ReleasedFacts ==
  ASSUME NEW r \in Rows
  PROVE  Released(r) \in Rows /\ Released(r).rev = r.rev /\ Released(r).att = r.att
<1>1. None \in Owners /\ FALSE \in BOOLEAN
  BY DEF Owners
<1> QED
  BY <1>1, LeaseFacts, Zenon DEF Released

LEMMA DeferredFacts ==
  ASSUME NEW r \in Rows
  PROVE  Deferred(r) \in Rows /\ Deferred(r).rev = r.rev /\ Deferred(r).att = r.att
<1> DEFINE q == Released(r)
<1>1. q \in Rows /\ q.rev = r.rev /\ q.att = r.att
  BY ReleasedFacts
<1> HIDE DEF q
<1>2. [q EXCEPT !.ripe = FALSE, !.bad = FALSE] \in Rows
  BY <1>1, Zenon DEF Rows
<1>3. [q EXCEPT !.ripe = FALSE, !.bad = FALSE].rev = q.rev
  BY <1>1, Zenon DEF Rows
<1>4. [q EXCEPT !.ripe = FALSE, !.bad = FALSE].att = q.att
  BY <1>1, Zenon DEF Rows
<1> QED
  BY <1>1, <1>2, <1>3, <1>4, Zenon DEF Deferred, q

LEMMA FailedFacts ==
  ASSUME NEW r \in Rows
  PROVE  Failed(r) \in Rows /\ Failed(r).rev = r.rev
<1> DEFINE q == Released(r)
           a == IF q.att < MaxAttempts THEN q.att + 1 ELSE q.att
<1>1. q \in Rows /\ q.rev = r.rev
  BY ReleasedFacts
<1>2. q.att \in 0..MaxAttempts
  BY <1>1, Zenon DEF Rows
<1>3. a \in 0..MaxAttempts
  BY <1>2, BoundsAssumption
<1>4. Failed(r) = [q EXCEPT !.att = a, !.ripe = FALSE, !.bad = FALSE]
  BY Zenon DEF Failed, q, a
<1> HIDE DEF q, a
<1>5. [q EXCEPT !.att = a, !.ripe = FALSE, !.bad = FALSE] \in Rows
  BY <1>1, <1>3, Zenon DEF Rows
<1>6. [q EXCEPT !.att = a, !.ripe = FALSE, !.bad = FALSE].rev = q.rev
  BY <1>1, Zenon DEF Rows
<1> QED
  BY <1>1, <1>4, <1>5, <1>6, Zenon

LEMMA ExhaustedFacts ==
  ASSUME NEW r \in Rows
  PROVE  Exhausted(r) \in Rows /\ Exhausted(r).rev = r.rev
<1> DEFINE q == Released(r)
<1>1. q \in Rows /\ q.rev = r.rev
  BY ReleasedFacts
<1>2. MaxAttempts \in 0..MaxAttempts
  BY BoundsAssumption
<1>4. Exhausted(r) = [q EXCEPT !.att = MaxAttempts, !.ripe = FALSE, !.bad = TRUE]
  BY Zenon DEF Exhausted, q
<1> HIDE DEF q
<1>5. [q EXCEPT !.att = MaxAttempts, !.ripe = FALSE, !.bad = TRUE] \in Rows
  BY <1>1, <1>2, Zenon DEF Rows
<1>6. [q EXCEPT !.att = MaxAttempts, !.ripe = FALSE, !.bad = TRUE].rev = q.rev
  BY <1>1, Zenon DEF Rows
<1> QED
  BY <1>1, <1>4, <1>5, <1>6, Zenon

LEMMA RevivedFacts ==
  ASSUME NEW r \in Rows
  PROVE  Revived(r) \in Rows /\ Revived(r).rev = r.rev /\ Revived(r).att <= r.att
<1>1. 0 \in 0..MaxAttempts
  BY BoundsAssumption
<1>2. [r EXCEPT !.att = 0, !.ripe = TRUE, !.bad = FALSE] \in Rows
  BY <1>1, Zenon DEF Rows
<1>3. [r EXCEPT !.att = 0, !.ripe = TRUE, !.bad = FALSE].rev = r.rev
  BY Zenon DEF Rows
<1>4. [r EXCEPT !.att = 0, !.ripe = TRUE, !.bad = FALSE].att = 0
  BY Zenon DEF Rows
<1>5. r.att \in 0..MaxAttempts
  BY Zenon DEF Rows
<1>6. Revived(r).att <= r.att
  BY <1>4, <1>5 DEF Revived
<1> QED
  BY <1>2, <1>3, <1>6, Zenon DEF Revived

LEMMA UpsertFacts ==
  ASSUME NEW r \in Rows \cup {None}, NEW v \in 1..MaxRev
  PROVE  /\ Upsert(r, v) \in Rows
         /\ r # None => Upsert(r, v).rev >= r.rev
         /\ r # None => Upsert(r, v).att <= r.att
         /\ r # None /\ r.rev = v => Upsert(r, v) = r
         /\ r = None \/ r.rev <= v => Upsert(r, v).rev = v
<1>1. NewRow(v) \in Rows /\ NewRow(v).rev = v /\ NewRow(v).att = 0
  BY NewRowFacts
<1>2. r # None => r \in Rows /\ r.rev \in Nat /\ r.att \in Nat
  BY BoundsAssumption DEF Rows
<1>3. v \in Nat
  BY BoundsAssumption
<1>4. Upsert(r, v) = IF r = None THEN NewRow(v)
                     ELSE IF r.rev < v THEN NewRow(v) ELSE r
  BY DEF Upsert
<1> QED
  BY <1>1, <1>2, <1>3, <1>4

LEMMA ReleaseReleased ==
  ASSUME row \in Queue, NEW w \in Workers, NEW C
  PROVE  /\ RowsLeft({}, row, Release(w, C, Released))
         /\ NotFailed(row, Release(w, C, Released))
<1> DEFINE new == Release(w, C, Released)
<1>1. \A c \in Cards : row[c] \in Rows \cup {None}
  BY DEF Queue
<1>2. ASSUME NEW c \in Cards
      PROVE  new[c] = IF c \in C \cap Leased(w) THEN Released(row[c]) ELSE row[c]
  BY DEF Release
<1>3. \A c \in Leased(w) : row[c] \in Rows
  BY <1>1 DEF Leased
<1>4. ASSUME NEW c \in Cards
      PROVE  /\ new[c] \in Rows \cup {None}
             /\ new[c] = None <=> row[c] = None
             /\ row[c] # None => new[c].rev = row[c].rev
             /\ row[c] # None => new[c].att <= row[c].att
  <2>1. CASE c \in C \cap Leased(w)
    <3>1. row[c] \in Rows /\ new[c] = Released(row[c])
      BY <1>2, <1>3, <2>1
    <3>2. row[c].att \in Nat
      BY <3>1, BoundsAssumption DEF Rows
    <3> QED
      BY <3>1, <3>2, ReleasedFacts, RowIsSome
  <2>2. CASE c \notin C \cap Leased(w)
    <3>1. new[c] = row[c]
      BY <1>2, <2>2
    <3>2. row[c] # None => row[c].att \in Nat
      BY <1>1, BoundsAssumption DEF Rows
    <3> QED
      BY <1>1, <3>1, <3>2
  <2> QED
    BY <2>1, <2>2
<1>5. new \in Queue
  BY <1>4 DEF Queue, Release
<1> QED
  BY <1>4, <1>5 DEF RowsLeft, NotFailed

LEMMA ReleaseDeferred ==
  ASSUME row \in Queue, NEW w \in Workers, NEW C
  PROVE  /\ RowsLeft({}, row, Release(w, C, Deferred))
         /\ NotFailed(row, Release(w, C, Deferred))
<1> DEFINE new == Release(w, C, Deferred)
<1>1. \A c \in Cards : row[c] \in Rows \cup {None}
  BY DEF Queue
<1>2. ASSUME NEW c \in Cards
      PROVE  new[c] = IF c \in C \cap Leased(w) THEN Deferred(row[c]) ELSE row[c]
  BY DEF Release
<1>3. \A c \in Leased(w) : row[c] \in Rows
  BY <1>1 DEF Leased
<1>4. ASSUME NEW c \in Cards
      PROVE  /\ new[c] \in Rows \cup {None}
             /\ new[c] = None <=> row[c] = None
             /\ row[c] # None => new[c].rev = row[c].rev
             /\ row[c] # None => new[c].att <= row[c].att
  <2>1. CASE c \in C \cap Leased(w)
    <3>1. row[c] \in Rows /\ new[c] = Deferred(row[c])
      BY <1>2, <1>3, <2>1
    <3>2. row[c].att \in Nat
      BY <3>1, BoundsAssumption DEF Rows
    <3> QED
      BY <3>1, <3>2, DeferredFacts, RowIsSome
  <2>2. CASE c \notin C \cap Leased(w)
    <3>1. new[c] = row[c]
      BY <1>2, <2>2
    <3>2. row[c] # None => row[c].att \in Nat
      BY <1>1, BoundsAssumption DEF Rows
    <3> QED
      BY <1>1, <3>1, <3>2
  <2> QED
    BY <2>1, <2>2
<1>5. new \in Queue
  BY <1>4 DEF Queue, Release
<1> QED
  BY <1>4, <1>5 DEF RowsLeft, NotFailed

LEMMA ReleaseFailed ==
  ASSUME row \in Queue, NEW w \in Workers, NEW C
  PROVE  /\ RowsLeft({}, row, Release(w, C, Failed))
<1> DEFINE new == Release(w, C, Failed)
<1>1. \A c \in Cards : row[c] \in Rows \cup {None}
  BY DEF Queue
<1>2. ASSUME NEW c \in Cards
      PROVE  new[c] = IF c \in C \cap Leased(w) THEN Failed(row[c]) ELSE row[c]
  BY DEF Release
<1>3. \A c \in Leased(w) : row[c] \in Rows
  BY <1>1 DEF Leased
<1>4. ASSUME NEW c \in Cards
      PROVE  /\ new[c] \in Rows \cup {None}
             /\ new[c] = None <=> row[c] = None
             /\ row[c] # None => new[c].rev = row[c].rev
  <2>1. CASE c \in C \cap Leased(w)
    <3>1. row[c] \in Rows /\ new[c] = Failed(row[c])
      BY <1>2, <1>3, <2>1
    <3> QED
      BY <3>1, FailedFacts, RowIsSome
  <2>2. CASE c \notin C \cap Leased(w)
    <3>1. new[c] = row[c]
      BY <1>2, <2>2
    <3> QED
      BY <1>1, <3>1
  <2> QED
    BY <2>1, <2>2
<1>5. new \in Queue
  BY <1>4 DEF Queue, Release
<1> QED
  BY <1>4, <1>5 DEF RowsLeft, NotFailed

LEMMA ReleaseExhausted ==
  ASSUME row \in Queue, NEW w \in Workers, NEW C
  PROVE  /\ RowsLeft({}, row, Release(w, C, Exhausted))
<1> DEFINE new == Release(w, C, Exhausted)
<1>1. \A c \in Cards : row[c] \in Rows \cup {None}
  BY DEF Queue
<1>2. ASSUME NEW c \in Cards
      PROVE  new[c] = IF c \in C \cap Leased(w) THEN Exhausted(row[c]) ELSE row[c]
  BY DEF Release
<1>3. \A c \in Leased(w) : row[c] \in Rows
  BY <1>1 DEF Leased
<1>4. ASSUME NEW c \in Cards
      PROVE  /\ new[c] \in Rows \cup {None}
             /\ new[c] = None <=> row[c] = None
             /\ row[c] # None => new[c].rev = row[c].rev
  <2>1. CASE c \in C \cap Leased(w)
    <3>1. row[c] \in Rows /\ new[c] = Exhausted(row[c])
      BY <1>2, <1>3, <2>1
    <3> QED
      BY <3>1, ExhaustedFacts, RowIsSome
  <2>2. CASE c \notin C \cap Leased(w)
    <3>1. new[c] = row[c]
      BY <1>2, <2>2
    <3> QED
      BY <1>1, <3>1
  <2> QED
    BY <2>1, <2>2
<1>5. new \in Queue
  BY <1>4 DEF Queue, Release
<1> QED
  BY <1>4, <1>5 DEF RowsLeft, NotFailed

LEMMA RenewReleased ==
  ASSUME row \in Queue, NEW w \in Workers, NEW gone, NEW C \in SUBSET Leased(w)
  PROVE  /\ RowsLeft(gone, row, Renew(w, gone, C, Released))
         /\ NotFailed(row, Renew(w, gone, C, Released))
<1> DEFINE new == Renew(w, gone, C, Released)
<1>1. \A c \in Cards : row[c] \in Rows \cup {None}
  BY DEF Queue
<1>2. ASSUME NEW c \in Cards
      PROVE  new[c] = IF c \in gone THEN None
                      ELSE IF c \in C THEN Released(row[c])
                      ELSE IF c \in Leased(w) THEN [row[c] EXCEPT !.live = TRUE]
                      ELSE row[c]
  BY Zenon DEF Renew
<1>3. \A c \in Leased(w) : row[c] \in Rows
  BY <1>1 DEF Leased
<1>4. ASSUME NEW c \in Cards
      PROVE  /\ new[c] \in Rows \cup {None}
             /\ c \in gone => new[c] = None
             /\ c \notin gone => (new[c] = None <=> row[c] = None)
             /\ c \notin gone /\ row[c] # None => new[c].rev = row[c].rev
             /\ c \notin gone /\ row[c] # None => new[c].att <= row[c].att
  <2>1. CASE c \in gone
    <3>1. new[c] = None
      BY <1>2, <2>1, Zenon
    <3> QED
      BY <2>1, <3>1
  <2>2. CASE c \notin gone /\ c \in C
    <3>1. row[c] \in Rows
      BY <1>3, <2>2
    <3>2. new[c] = Released(row[c])
      BY <1>2, <2>2, Zenon
    <3>3. row[c].att \in Nat
      BY <3>1, BoundsAssumption DEF Rows
    <3> QED
      BY <2>2, <3>1, <3>2, <3>3, ReleasedFacts, RowIsSome
  <2>3. CASE c \notin gone /\ c \notin C /\ c \in Leased(w)
    <3>1. row[c] \in Rows
      BY <1>3, <2>3
    <3> DEFINE r == [row[c] EXCEPT !.live = TRUE]
    <3>2. new[c] = r
      BY <1>2, <2>3, Zenon
    <3>4. None \in Owners /\ TRUE \in BOOLEAN
      BY DEF Owners
    <3>5. r \in Rows /\ r.rev = row[c].rev /\ r.att = row[c].att
      BY <3>1, <3>4, LeaseFacts, Zenon
    <3> HIDE DEF r
    <3>3. row[c].att \in Nat
      BY <3>1, BoundsAssumption DEF Rows
    <3> QED
      BY <2>3, <3>1, <3>2, <3>5, <3>3, RowIsSome
  <2>4. CASE c \notin gone /\ c \notin C /\ c \notin Leased(w)
    <3>1. new[c] = row[c]
      BY <1>2, <2>4, Zenon
    <3>2. row[c] # None => row[c].att \in Nat
      BY <1>1, BoundsAssumption DEF Rows
    <3> QED
      BY <1>1, <2>4, <3>1, <3>2
  <2> QED
    BY <2>1, <2>2, <2>3, <2>4
<1>5. new \in Queue
  <2>1. \A c \in Cards : new[c] \in Rows \cup {None}
    BY <1>4
  <2>2. new = [c \in Cards |-> new[c]]
    BY Zenon DEF Renew
  <2> HIDE DEF new
  <2> QED
    BY <2>1, <2>2 DEF Queue
<1> HIDE DEF new
<1>6. RowsLeft(gone, row, new)
  BY <1>4, <1>5 DEF RowsLeft
<1>7. NotFailed(row, new)
  BY <1>4 DEF NotFailed
<1> QED
  BY <1>6, <1>7 DEF new

LEMMA RenewFailed ==
  ASSUME row \in Queue, NEW w \in Workers, NEW gone, NEW C \in SUBSET Leased(w)
  PROVE  /\ RowsLeft(gone, row, Renew(w, gone, C, Failed))
<1> DEFINE new == Renew(w, gone, C, Failed)
<1>1. \A c \in Cards : row[c] \in Rows \cup {None}
  BY DEF Queue
<1>2. ASSUME NEW c \in Cards
      PROVE  new[c] = IF c \in gone THEN None
                      ELSE IF c \in C THEN Failed(row[c])
                      ELSE IF c \in Leased(w) THEN [row[c] EXCEPT !.live = TRUE]
                      ELSE row[c]
  BY Zenon DEF Renew
<1>3. \A c \in Leased(w) : row[c] \in Rows
  BY <1>1 DEF Leased
<1>4. ASSUME NEW c \in Cards
      PROVE  /\ new[c] \in Rows \cup {None}
             /\ c \in gone => new[c] = None
             /\ c \notin gone => (new[c] = None <=> row[c] = None)
             /\ c \notin gone /\ row[c] # None => new[c].rev = row[c].rev
  <2>1. CASE c \in gone
    <3>1. new[c] = None
      BY <1>2, <2>1, Zenon
    <3> QED
      BY <2>1, <3>1
  <2>2. CASE c \notin gone /\ c \in C
    <3>1. row[c] \in Rows
      BY <1>3, <2>2
    <3>2. new[c] = Failed(row[c])
      BY <1>2, <2>2, Zenon
    <3> QED
      BY <2>2, <3>1, <3>2, FailedFacts, RowIsSome
  <2>3. CASE c \notin gone /\ c \notin C /\ c \in Leased(w)
    <3>1. row[c] \in Rows
      BY <1>3, <2>3
    <3> DEFINE r == [row[c] EXCEPT !.live = TRUE]
    <3>2. new[c] = r
      BY <1>2, <2>3, Zenon
    <3>4. None \in Owners /\ TRUE \in BOOLEAN
      BY DEF Owners
    <3>5. r \in Rows /\ r.rev = row[c].rev /\ r.att = row[c].att
      BY <3>1, <3>4, LeaseFacts, Zenon
    <3> HIDE DEF r
    <3> QED
      BY <2>3, <3>1, <3>2, <3>5, RowIsSome
  <2>4. CASE c \notin gone /\ c \notin C /\ c \notin Leased(w)
    <3>1. new[c] = row[c]
      BY <1>2, <2>4, Zenon
    <3>2. row[c] # None => row[c].att \in Nat
      BY <1>1, BoundsAssumption DEF Rows
    <3> QED
      BY <1>1, <2>4, <3>1, <3>2
  <2> QED
    BY <2>1, <2>2, <2>3, <2>4
<1>5. new \in Queue
  <2>1. \A c \in Cards : new[c] \in Rows \cup {None}
    BY <1>4
  <2>2. new = [c \in Cards |-> new[c]]
    BY Zenon DEF Renew
  <2> HIDE DEF new
  <2> QED
    BY <2>1, <2>2 DEF Queue
<1> HIDE DEF new
<1>6. RowsLeft(gone, row, new)
  BY <1>4, <1>5 DEF RowsLeft
<1> QED
  BY <1>6 DEF new

\* A token nobody has any more is no change but of the token.
LEMMA OrphanedRows ==
  ASSUME NEW gone, NEW old, NEW new, RowsLeft(gone, old, new), NEW w \in Workers
  PROVE  /\ RowsLeft(gone, old, Orphaned(new, w))
         /\ NotFailed(old, new) => NotFailed(old, Orphaned(new, w))
<1> DEFINE out == Orphaned(new, w)
<1>1. \A c \in Cards : new[c] \in Rows \cup {None}
  BY DEF RowsLeft, Queue
<1>2. ASSUME NEW c \in Cards
      PROVE  out[c] = IF new[c] # None /\ new[c].own = w
                      THEN [new[c] EXCEPT !.own = Orphan] ELSE new[c]
  BY Zenon DEF Orphaned
<1>3. Orphan \in Owners /\ FALSE \in BOOLEAN
  BY DEF Owners
<1>4. ASSUME NEW c \in Cards
      PROVE  /\ out[c] \in Rows \cup {None}
             /\ out[c] = None <=> new[c] = None
             /\ new[c] # None => out[c].rev = new[c].rev /\ out[c].att = new[c].att
  <2>1. CASE new[c] # None /\ new[c].own = w
    <3> DEFINE r == [new[c] EXCEPT !.own = Orphan]
    <3>1. new[c] \in Rows
      BY <1>1, <2>1
    <3>2. out[c] = r
      BY <1>2, <2>1, Zenon
    <3>3. r \in Rows /\ r.rev = new[c].rev /\ r.att = new[c].att
      BY <3>1, <1>3, LeaseFacts, Zenon
    <3> HIDE DEF r, out
    <3> QED
      BY <3>1, <3>2, <3>3, RowIsSome
  <2>2. CASE ~ (new[c] # None /\ new[c].own = w)
    <3>1. out[c] = new[c]
      BY <1>2, <2>2, Zenon
    <3> HIDE DEF out
    <3> QED
      BY <1>1, <3>1
  <2> QED
    BY <2>1, <2>2
<1>5. out \in Queue
  <2>1. out = [c \in Cards |-> out[c]]
    BY Zenon DEF Orphaned
  <2> HIDE DEF out
  <2> QED
    BY <1>4, <2>1 DEF Queue
<1> HIDE DEF out
<1>6. RowsLeft(gone, old, out)
  BY <1>4, <1>5 DEF RowsLeft
<1>7. NotFailed(old, new) => NotFailed(old, out)
  BY <1>4 DEF NotFailed
<1> QED
  BY <1>6, <1>7 DEF out

-----------------------------------------------------------------------------
(* What the actions do to the queue                                        *)

\* A row that goes is not demanded or has its answer.
QueueKept ==
  \E gone : /\ RowsLeft(gone, row, row')
            /\ \A c \in gone : c \notin demand \/ ans'[c] # None

LEMMA SameQueue ==
  ASSUME row \in Queue, row' = row
  PROVE  QueueKept /\ NotFailed(row, row')
<1>1. RowsLeft({}, row, row')
  BY DEF RowsLeft
<1>2. \A c \in Cards : row[c] # None => row[c].att \in Nat
  BY BoundsAssumption DEF Queue, Rows
<1>3. QueueKept
  BY <1>1 DEF QueueKept
<1>4. NotFailed(row, row')
  BY <1>2 DEF NotFailed
<1> QED
  BY <1>3, <1>4

\* Changes row by row.
LEMMA RowByRow ==
  ASSUME row \in Queue, row' \in [Cards -> Rows \cup {None}],
         \A c \in Cards : /\ row'[c] = None <=> row[c] = None
                          /\ row[c] # None => /\ row'[c].rev = row[c].rev
                                              /\ row'[c].att <= row[c].att
  PROVE  QueueKept /\ NotFailed(row, row')
<1>1. RowsLeft({}, row, row')
  BY DEF RowsLeft, Queue
<1>2. QueueKept
  BY <1>1 DEF QueueKept
<1> QED
  BY <1>2 DEF NotFailed

LEMMA TimeQueue ==
  ASSUME TypeOK, NEW c \in Cards, Ripen(c) \/ Lapse(c)
  PROVE  QueueKept /\ NotFailed(row, row')
<1> DEFINE r == IF Ripen(c) THEN [row[c] EXCEPT !.ripe = TRUE]
                ELSE [row[c] EXCEPT !.live = FALSE]
<1>1. row \in Queue /\ row[c] # None /\ row[c] \in Rows
  BY DEF TypeOK, Queue, Ripen, Lapse
<1>2. row' = [row EXCEPT ![c] = r]
  BY DEF Ripen, Lapse
<1>3. None \in Owners /\ TRUE \in BOOLEAN /\ FALSE \in BOOLEAN
  BY DEF Owners
<1>4. [row[c] EXCEPT !.ripe = TRUE] \in Rows
      /\ [row[c] EXCEPT !.ripe = TRUE].rev = row[c].rev
      /\ [row[c] EXCEPT !.ripe = TRUE].att = row[c].att
  BY <1>1, <1>3, LeaseFacts, Zenon
<1>5. [row[c] EXCEPT !.live = FALSE] \in Rows
      /\ [row[c] EXCEPT !.live = FALSE].rev = row[c].rev
      /\ [row[c] EXCEPT !.live = FALSE].att = row[c].att
  BY <1>1, <1>3, LeaseFacts, Zenon
<1>6. r \in Rows /\ r.rev = row[c].rev /\ r.att = row[c].att
  BY <1>4, <1>5, Zenon
<1> HIDE DEF r
<1>7. \A x \in Cards : row[x] # None => row[x].att \in Nat
  BY <1>1, BoundsAssumption DEF Queue, Rows
<1>8. row' \in [Cards -> Rows \cup {None}]
  BY <1>1, <1>2, <1>6 DEF Queue
<1>9. ASSUME NEW x \in Cards
      PROVE  /\ row'[x] = None <=> row[x] = None
             /\ row[x] # None => /\ row'[x].rev = row[x].rev
                                 /\ row'[x].att <= row[x].att
  <2>1. CASE x = c
    <3>1. row'[x] = r
      BY <1>1, <1>2, <2>1 DEF Queue
    <3> QED
      BY <3>1, <2>1, <1>1, <1>6, <1>7, RowIsSome
  <2>2. CASE x # c
    <3>1. row'[x] = row[x]
      BY <1>1, <1>2, <2>2 DEF Queue
    <3> QED
      BY <3>1, <1>7
  <2> QED
    BY <2>1, <2>2
<1> QED
  BY <1>1, <1>8, <1>9, RowByRow

LEMMA ExpireQueue ==
  ASSUME TypeOK, NEW w \in Workers, Expire(w)
  PROVE  QueueKept /\ NotFailed(row, row')
<1>1. row \in Queue /\ \A c \in Leased(w) : row[c] \in Rows
  BY DEF TypeOK, Queue, Leased
<1>2. ASSUME NEW c \in Cards
      PROVE  row'[c] = IF c \in Leased(w) THEN [row[c] EXCEPT !.live = FALSE]
                       ELSE row[c]
  BY Zenon DEF Expire
<1>3. None \in Owners /\ FALSE \in BOOLEAN
  BY DEF Owners
<1>4. \A c \in Cards : row[c] # None => row[c].att \in Nat
  BY <1>1, BoundsAssumption DEF Queue, Rows
<1>5. ASSUME NEW c \in Cards
      PROVE  /\ row'[c] \in Rows \cup {None}
             /\ row'[c] = None <=> row[c] = None
             /\ row[c] # None => /\ row'[c].rev = row[c].rev
                                 /\ row'[c].att <= row[c].att
  <2>1. CASE c \in Leased(w)
    <3> DEFINE r == [row[c] EXCEPT !.live = FALSE]
    <3>1. row'[c] = r
      BY <1>2, <2>1, Zenon
    <3>2. r \in Rows /\ r.rev = row[c].rev /\ r.att = row[c].att
      BY <1>1, <2>1, <1>3, LeaseFacts, Zenon
    <3> HIDE DEF r
    <3> QED
      BY <1>1, <1>4, <2>1, <3>1, <3>2, RowIsSome
  <2>2. CASE c \notin Leased(w)
    <3>1. row'[c] = row[c]
      BY <1>2, <2>2, Zenon
    <3> QED
      BY <1>1, <1>4, <3>1 DEF Queue
  <2> QED
    BY <2>1, <2>2
<1>6. row' = [c \in Cards |-> row'[c]]
  BY Zenon DEF Expire
<1>7. row' \in [Cards -> Rows \cup {None}]
  BY <1>5, <1>6
<1> QED
  BY <1>1, <1>5, <1>7, RowByRow

LEMMA RecoverQueue ==
  ASSUME TypeOK, Recover
  PROVE  QueueKept /\ NotFailed(row, row')
<1>1. row \in Queue /\ \A c \in Cards : Recoverable(c) => row[c] \in Rows
  BY DEF TypeOK, Queue, Recoverable
<1>2. ASSUME NEW c \in Cards
      PROVE  row'[c] = IF Recoverable(c) THEN Revived(row[c]) ELSE row[c]
  BY Zenon DEF Recover
<1>4. \A c \in Cards : row[c] # None => row[c].att \in Nat
  BY <1>1, BoundsAssumption DEF Queue, Rows
<1>5. ASSUME NEW c \in Cards
      PROVE  /\ row'[c] \in Rows \cup {None}
             /\ row'[c] = None <=> row[c] = None
             /\ row[c] # None => /\ row'[c].rev = row[c].rev
                                 /\ row'[c].att <= row[c].att
  <2>1. CASE Recoverable(c)
    BY <1>1, <1>2, <2>1, RevivedFacts, RowIsSome
  <2>2. CASE ~ Recoverable(c)
    BY <1>1, <1>2, <1>4, <2>2 DEF Queue
  <2> QED
    BY <2>1, <2>2
<1>6. row' = [c \in Cards |-> row'[c]]
  BY Zenon DEF Recover
<1>7. row' \in [Cards -> Rows \cup {None}]
  BY <1>5, <1>6
<1> QED
  BY <1>1, <1>5, <1>7, RowByRow

LEMMA ClaimQueue ==
  ASSUME TypeOK, NEW w \in Workers, Claim(w)
  PROVE  QueueKept /\ NotFailed(row, row')
<1>1. PICK C \in SUBSET {c \in Cards : Claimable(c)} :
        row' = [c \in Cards |->
                  IF c \in C THEN [row[c] EXCEPT !.own = w, !.live = TRUE]
                  ELSE row[c]]
  BY Zenon DEF Claim
<1>2. row \in Queue /\ \A c \in C : row[c] \in Rows
  BY DEF TypeOK, Queue, Claimable
<1>3. ASSUME NEW c \in Cards
      PROVE  row'[c] = IF c \in C THEN [row[c] EXCEPT !.own = w, !.live = TRUE]
                       ELSE row[c]
  BY <1>1, Zenon
<1>4. \A c \in Cards : row[c] # None => row[c].att \in Nat
  BY <1>2, BoundsAssumption DEF Queue, Rows
<1>5. w \in Owners /\ TRUE \in BOOLEAN
  BY DEF Owners
<1>6. ASSUME NEW c \in Cards
      PROVE  /\ row'[c] \in Rows \cup {None}
             /\ row'[c] = None <=> row[c] = None
             /\ row[c] # None => /\ row'[c].rev = row[c].rev
                                 /\ row'[c].att <= row[c].att
  <2>1. CASE c \in C
    <3> DEFINE r == [row[c] EXCEPT !.own = w, !.live = TRUE]
    <3>1. row'[c] = r
      BY <1>3, <2>1, Zenon
    <3>2. r \in Rows /\ r.rev = row[c].rev /\ r.att = row[c].att
      BY <1>2, <2>1, <1>5, LeaseFacts, Zenon
    <3> HIDE DEF r
    <3> QED
      BY <1>2, <1>4, <2>1, <3>1, <3>2, RowIsSome
  <2>2. CASE c \notin C
    <3>1. row'[c] = row[c]
      BY <1>3, <2>2, Zenon
    <3> QED
      BY <1>2, <1>4, <3>1 DEF Queue
  <2> QED
    BY <2>1, <2>2
<1>7. row' = [c \in Cards |-> row'[c]]
  BY <1>1, Zenon
<1>8. row' \in [Cards -> Rows \cup {None}]
  BY <1>6, <1>7
<1> QED
  BY <1>2, <1>6, <1>8, RowByRow

LEMMA NothingGone == ASSUME RowsLeft({}, row, row') PROVE QueueKept
  BY DEF QueueKept

LEMMA MineIsLeased ==
  ASSUME NEW w \in Workers, NEW C
  PROVE  Mine(w, C) \subseteq Leased(w) /\ Mine(w, C) \subseteq C
  BY DEF Mine

LEMMA GiveBackQueue ==
  ASSUME TypeOK, NEW w \in Workers, GiveBack(w)
  PROVE  QueueKept /\ NotFailed(row, row')
<1> DEFINE back == Release(w, job[w].held, Released)
<1>1. RowsLeft({}, row, back) /\ NotFailed(row, back)
  BY ReleaseReleased DEF TypeOK, Queue
<1>2. row' = Orphaned(back, w)
  BY DEF GiveBack
<1> HIDE DEF back
<1>3. RowsLeft({}, row, row') /\ NotFailed(row, row')
  BY <1>1, <1>2, OrphanedRows
<1> QED
  BY <1>3, NothingGone

LEMMA OutdatedQueue ==
  ASSUME TypeOK, NEW w \in Workers, NEW gone, Outdated(w, gone),
         \A c \in gone : c \notin demand
  PROVE  QueueKept /\ NotFailed(row, row')
<1> DEFINE back == Release(w, job[w].held, Released)
           left == [c \in Cards |-> IF c \in gone THEN None ELSE back[c]]
<1>1. RowsLeft({}, row, back) /\ NotFailed(row, back)
  BY ReleaseReleased DEF TypeOK, Queue
<1>2. row' = Orphaned(left, w)
  BY Zenon DEF Outdated
<1> HIDE DEF back
<1>3. RowsLeft(gone, row, left)
  BY <1>1 DEF RowsLeft, Queue
<1>4. NotFailed(row, left)
  BY <1>1 DEF NotFailed
<1> HIDE DEF left
<1>5. RowsLeft(gone, row, row') /\ NotFailed(row, row')
  BY <1>2, <1>3, <1>4, OrphanedRows
<1> QED
  BY <1>5 DEF QueueKept

\* A step that renews the lease, deletes the rows of gone and releases others.
LEMMA RenewedQueue ==
  ASSUME TypeOK, NEW w \in Workers, NEW gone, NEW C \in SUBSET Leased(w),
         row' = Renew(w, gone, C, Released),
         \A c \in gone : c \notin demand \/ ans'[c] # None
  PROVE  QueueKept /\ NotFailed(row, row')
<1>1. row \in Queue
  BY DEF TypeOK, Queue
<1>2. RowsLeft(gone, row, row') /\ NotFailed(row, row')
  BY <1>1, RenewReleased
<1> QED
  BY <1>2 DEF QueueKept

LEMMA PrepareQueue ==
  ASSUME TypeOK, NEW w \in Workers, Prepare(w)
  PROVE  QueueKept /\ NotFailed(row, row')
<1> DEFINE mine == Mine(w, job[w].held)
           undemanded == mine \ demand
           sated == {c \in mine \cap demand : Satisfied(c, job[w].rev, job[w].cfg)}
           gone == undemanded \cup sated
<1>1. \/ Outdated(w, undemanded)
      \/ row' = Renew(w, gone, {}, Released) /\ ans' = ans
  BY Zenon DEF Prepare
<1>2. \A c \in sated : ans[c] # None
  BY DEF Satisfied, Current
<1>3. CASE Outdated(w, undemanded)
  BY <1>3, OutdatedQueue
<1>4. CASE row' = Renew(w, gone, {}, Released) /\ ans' = ans
  <2>1. \A c \in gone : c \notin demand \/ ans'[c] # None
    BY <1>2, <1>4
  <2> HIDE DEF gone
  <2> QED
    BY <1>4, <2>1, RenewedQueue
<1> QED
  BY <1>1, <1>3, <1>4

LEMMA AskPackQueue ==
  ASSUME TypeOK, NEW w \in Workers, NEW P, AskPack(w, P)
  PROVE  QueueKept /\ NotFailed(row, row')
<1> DEFINE gone == Mine(w, P \cap job[w].held) \ demand
<1>1. row' = row \/ row' = Renew(w, gone, {}, Released)
  BY Zenon DEF AskPack
<1>2. row \in Queue
  BY DEF TypeOK, Queue
<1>3. \A c \in gone : c \notin demand \/ ans'[c] # None
  OBVIOUS
<1> HIDE DEF gone
<1> QED
  BY <1>1, <1>2, <1>3, SameQueue, RenewedQueue

LEMMA RevokedQueue ==
  ASSUME TypeOK, NEW w \in Workers, Revoked(w)
  PROVE  QueueKept /\ NotFailed(row, row')
<1> DEFINE mine == Mine(w, job[w].ask)
<1>1. row' = Renew(w, mine \ demand, mine \cap demand, Released)
  BY Zenon DEF Revoked
<1>2. mine \cap demand \in SUBSET Leased(w)
  BY MineIsLeased
<1>3. \A c \in mine \ demand : c \notin demand \/ ans'[c] # None
  OBVIOUS
<1> HIDE DEF mine
<1> QED
  BY <1>1, <1>2, <1>3, RenewedQueue

\* What a pack's answers leave in the store is an answer.
LEMMA WrittenAnswers ==
  ASSUME ans \in [Cards -> Answers \cup {None}], NEW C, NEW b \in Answers,
         ans' = WriteAnswers(C, b)
  PROVE  /\ ans' \in [Cards -> Answers \cup {None}]
         /\ \A c \in Cards : ans'[c] \in {ans[c], b}
         /\ \A c \in Cards : c \in C \/ ans[c] # None => ans'[c] # None
<1>1. b # None
  BY RecordsAssumption
<1>2. \A c \in Cards : ans'[c] = IF c \in C /\ Writable(ans[c], b) THEN b ELSE ans[c]
  BY DEF WriteAnswers
<1>3. \A c \in Cards : ans[c] = None => Writable(ans[c], b)
  BY DEF Writable
<1>4. \A c \in Cards : ans'[c] \in {ans[c], b}
  BY <1>2
<1>5. \A c \in Cards : c \in C \/ ans[c] # None => ans'[c] # None
  BY <1>1, <1>2, <1>3
<1>6. ans' \in [Cards -> Answers \cup {None}]
  BY <1>2 DEF WriteAnswers
<1> QED
  BY <1>4, <1>5, <1>6

\* What the job's worker would store.
LEMMA JobAnswer ==
  ASSUME TypeOK, NEW w \in Workers, NEW e \in {"llm", "primary"}
  PROVE  [rev |-> job[w].rev, cfg |-> job[w].cfg, eng |-> e] \in Answers
<1>1. job[w] \in Jobs
  BY DEF TypeOK
<1>2. job[w].rev \in 1..MaxRev /\ job[w].cfg \in 1..MaxCfg
  BY <1>1 DEF Jobs
<1> QED
  BY <1>2 DEF Answers

LEMMA ApplyPackQueue ==
  ASSUME TypeOK, NEW w \in Workers, NEW e \in {"llm", "primary"}, NEW got,
         ApplyPack(w, e, got)
  PROVE  QueueKept
<1> DEFINE mine == Mine(w, job[w].ask)
           done == mine \cap demand \cap got
           failed == (mine \cap demand) \ got
           gone == done \cup (mine \ demand)
           b == [rev |-> job[w].rev, cfg |-> job[w].cfg, eng |-> e]
<1>1. row' = Renew(w, gone, failed, Failed) /\ ans' = WriteAnswers(done, b)
  BY Zenon DEF ApplyPack
<1>2. b \in Answers
  BY JobAnswer
<1>3. failed \in SUBSET Leased(w) /\ done \subseteq Cards
  BY MineIsLeased DEF Leased
<1>4. ans \in [Cards -> Answers \cup {None}]
  BY DEF TypeOK
<1>5. \A c \in gone : c \in done \/ c \notin demand
  OBVIOUS
<1> HIDE DEF b, gone, failed, done
<1>6. \A c \in done : ans'[c] # None
  BY <1>1, <1>2, <1>3, <1>4, WrittenAnswers
<1>7. \A c \in gone : c \notin demand \/ ans'[c] # None
  BY <1>5, <1>6
<1>8. row \in Queue
  BY DEF TypeOK, Queue
<1>9. RowsLeft(gone, row, row')
  BY <1>1, <1>3, <1>8, RenewFailed
<1> QED
  BY <1>7, <1>9 DEF QueueKept

LEMMA DeferPackQueue ==
  ASSUME TypeOK, NEW w \in Workers, FailPack(w, Deferred)
  PROVE  QueueKept /\ NotFailed(row, row')
<1>1. row' = Release(w, job[w].ask, Deferred)
  BY Zenon DEF FailPack
<1>2. RowsLeft({}, row, row') /\ NotFailed(row, row')
  BY <1>1, ReleaseDeferred DEF TypeOK, Queue
<1> QED
  BY <1>2, NothingGone

LEMMA FailPackQueue ==
  ASSUME TypeOK, NEW w \in Workers, FailPack(w, Failed)
  PROVE  QueueKept
<1>1. row' = Release(w, job[w].ask, Failed)
  BY Zenon DEF FailPack
<1>2. RowsLeft({}, row, row')
  BY <1>1, ReleaseFailed DEF TypeOK, Queue
<1> QED
  BY <1>2, NothingGone

LEMMA ExhaustPackQueue ==
  ASSUME TypeOK, NEW w \in Workers, FailPack(w, Exhausted)
  PROVE  QueueKept
<1>1. row' = Release(w, job[w].ask, Exhausted)
  BY Zenon DEF FailPack
<1>2. RowsLeft({}, row, row')
  BY <1>1, ReleaseExhausted DEF TypeOK, Queue
<1> QED
  BY <1>2, NothingGone

LEMMA StopQueue ==
  ASSUME TypeOK, NEW w \in Workers, Stop(w)
  PROVE  QueueKept /\ NotFailed(row, row')
<1>1. row' = row \/ row' = Release(w, job[w].held, Released)
  BY Zenon DEF Stop
<1>2. row \in Queue
  BY DEF TypeOK, Queue
<1>3. CASE row' = Release(w, job[w].held, Released)
  BY <1>2, <1>3, ReleaseReleased, NothingGone
<1> QED
  BY <1>1, <1>2, <1>3, SameQueue

LEMMA EndQueue ==
  ASSUME TypeOK, NEW w \in Workers, row' = Orphaned(row, w)
  PROVE  QueueKept /\ NotFailed(row, row')
<1>1. RowsLeft({}, row, row) /\ NotFailed(row, row)
  <2>1. \A c \in Cards : row[c] # None => row[c].att \in Nat
    BY BoundsAssumption DEF TypeOK, Rows
  <2> QED
    BY <2>1 DEF RowsLeft, NotFailed, TypeOK, Queue
<1>2. RowsLeft({}, row, row') /\ NotFailed(row, row')
  BY <1>1, OrphanedRows
<1> QED
  BY <1>2, NothingGone

LEMMA DrainQueue ==
  ASSUME TypeOK, NEW w \in Workers, Drain(w)
  PROVE  QueueKept /\ NotFailed(row, row')
<1>1. row' = Release(w, Cards, Released)
  BY Zenon DEF Drain
<1>2. RowsLeft({}, row, row') /\ NotFailed(row, row')
  BY <1>1, ReleaseReleased DEF TypeOK, Queue
<1> QED
  BY <1>2, NothingGone

-----------------------------------------------------------------------------
(* Type correctness                                                        *)

LEMMA IdleIsJob == Idle \in Jobs
  BY BoundsAssumption DEF Idle, Jobs

LEMMA PacksIsJob ==
  ASSUME NEW j \in Jobs,
         NEW h \in SUBSET Cards, NEW t \in SUBSET Cards, NEW l \in BOOLEAN
  PROVE  [j EXCEPT !.pc = "packs", !.held = h, !.todo = t, !.lost = l] \in Jobs
  BY Zenon DEF Jobs

LEMMA LostIsJob ==
  ASSUME NEW j \in Jobs
  PROVE  [j EXCEPT !.lost = TRUE, !.todo = {}] \in Jobs
  BY Zenon DEF Jobs

LEMMA AskedIsJob ==
  ASSUME NEW j \in Jobs,
         NEW p \in {"more", "call"}, NEW h \in SUBSET Cards,
         NEW t \in SUBSET Cards, NEW a \in SUBSET Cards
  PROVE  [j EXCEPT !.pc = p, !.held = h, !.todo = t, !.ask = a] \in Jobs
  BY Zenon DEF Jobs

LEMMA DiscardedIsJob ==
  ASSUME NEW j \in Jobs
  PROVE  [j EXCEPT !.pc = "more", !.ask = {}] \in Jobs
  BY Zenon DEF Jobs

LEMMA AnsweredIsJob ==
  ASSUME NEW j \in Jobs,
         NEW h \in SUBSET Cards, NEW l \in BOOLEAN
  PROVE  [j EXCEPT !.pc = "more", !.ask = {}, !.held = h, !.lost = l] \in Jobs
  BY Zenon DEF Jobs

LEMMA FailedIsJob ==
  ASSUME NEW j \in Jobs, NEW h \in SUBSET Cards
  PROVE  [j EXCEPT !.pc = "more", !.ask = {}, !.held = h] \in Jobs
  BY Zenon DEF Jobs

LEMMA StoppedIsJob ==
  ASSUME NEW j \in Jobs, NEW h \in SUBSET Cards
  PROVE  [j EXCEPT !.pc = "finish", !.held = h] \in Jobs
  BY Zenon DEF Jobs

LEMMA ClaimedIsJob ==
  ASSUME NEW v \in 1..MaxRev, NEW k \in 1..MaxCfg, NEW h \in SUBSET Cards
  PROVE  [Idle EXCEPT !.pc = "claimed", !.rev = v, !.cfg = k, !.held = h] \in Jobs
<1> DEFINE j == Idle
<1>1. j \in Jobs
  BY IdleIsJob
<1> HIDE DEF j
<1>2. [j EXCEPT !.pc = "claimed", !.rev = v, !.cfg = k, !.held = h] \in Jobs
  BY <1>1, Zenon DEF Jobs
<1> QED
  BY <1>2 DEF j

\* A step of one worker that leaves its record a job.
LEMMA JobChanged ==
  ASSUME TypeOK, NEW w \in Workers, NEW j \in Jobs, job' = [job EXCEPT ![w] = j]
  PROVE  job' \in [Workers -> Jobs]
  BY DEF TypeOK

LEMMA JobFields ==
  ASSUME TypeOK, NEW w \in Workers
  PROVE  /\ job[w] \in Jobs
         /\ job[w].held \in SUBSET Cards
         /\ job[w].todo \in SUBSET Cards
         /\ job[w].ask \in SUBSET Cards
         /\ job[w].lost \in BOOLEAN
<1>1. job[w] \in Jobs
  BY DEF TypeOK
<1> QED
  BY <1>1, Zenon DEF Jobs

LEMMA EndedType ==
  ASSUME TypeOK, NEW w \in Workers, Ended(w)
  PROVE  job' \in [Workers -> Jobs] /\ active' \in Workers \cup {None}
<1>1. job' \in [Workers -> Jobs]
  BY IdleIsJob, JobChanged DEF Ended
<1>2. active' \in Workers \cup {None}
  BY DEF Ended, TypeOK
<1> QED
  BY <1>1, <1>2

LEMMA JobTypes ==
  ASSUME TypeOK, NEW w \in Workers
  PROVE  /\ Claim(w) => job' \in [Workers -> Jobs]
         /\ Prepare(w) => job' \in [Workers -> Jobs]
         /\ (\E P \in SUBSET job[w].todo : AskPack(w, P)) => job' \in [Workers -> Jobs]
         /\ Discard(w) => job' \in [Workers -> Jobs]
         /\ Answered(w) => job' \in [Workers -> Jobs]
         /\ Refused(w) => job' \in [Workers -> Jobs]
         /\ Stop(w) => job' \in [Workers -> Jobs]
<1>1. /\ job[w] \in Jobs
      /\ job[w].held \in SUBSET Cards
      /\ job[w].todo \in SUBSET Cards
      /\ job[w].ask \in SUBSET Cards
      /\ job[w].lost \in BOOLEAN
  BY JobFields
<1>2. ASSUME NEW C PROVE Mine(w, C) \in SUBSET Cards
  BY DEF Mine, Leased
<1>3. ASSUME Claim(w) PROVE job' \in [Workers -> Jobs]
  <2>1. PICK C \in SUBSET {c \in Cards : Claimable(c)} :
          job' = [job EXCEPT ![w] = [Idle EXCEPT !.pc = "claimed", !.rev = rev,
                                                 !.cfg = cfg, !.held = C]]
    BY <1>3, Zenon DEF Claim
  <2>2. rev \in 1..MaxRev /\ cfg \in 1..MaxCfg /\ C \in SUBSET Cards
    BY DEF TypeOK
  <2>3. [Idle EXCEPT !.pc = "claimed", !.rev = rev, !.cfg = cfg, !.held = C] \in Jobs
    BY <2>2, ClaimedIsJob
  <2> QED
    BY <2>1, <2>3, JobChanged, Zenon
<1>4. ASSUME Prepare(w) PROVE job' \in [Workers -> Jobs]
  <2> DEFINE mine == Mine(w, job[w].held)
             sated == {c \in mine \cap demand : Satisfied(c, job[w].rev, job[w].cfg)}
             gone == (mine \ demand) \cup sated
             l == job[w].lost \/ (job[w].held # {} /\ Leased(w) = {})
             h == job[w].held \ gone
             t == mine \ gone
  <2>1. \/ Outdated(w, mine \ demand)
        \/ job' = [job EXCEPT ![w] = [job[w] EXCEPT !.pc = "packs", !.held = h,
                                                    !.todo = t, !.lost = l]]
    BY <1>4, Zenon DEF Prepare
  <2>2. l \in BOOLEAN
    BY <1>1
  <2>3. h \in SUBSET Cards /\ t \in SUBSET Cards
    BY <1>1, <1>2
  <2> HIDE DEF l, h, t
  <2>4. CASE Outdated(w, mine \ demand)
    BY <2>4, EndedType DEF Outdated
  <2>5. [job[w] EXCEPT !.pc = "packs", !.held = h, !.todo = t, !.lost = l] \in Jobs
    BY <1>1, <2>2, <2>3, PacksIsJob
  <2> QED
    BY <2>1, <2>4, <2>5, JobChanged, Zenon
<1>5. ASSUME NEW P, AskPack(w, P) PROVE job' \in [Workers -> Jobs]
  <2> DEFINE mine == Mine(w, P \cap job[w].held)
             p == IF mine \cap demand = {} THEN "more" ELSE "call"
             h == job[w].held \ (mine \ demand)
             t == job[w].todo \ P
             a == mine \cap demand
  <2>1. \/ job' = [job EXCEPT ![w] = [job[w] EXCEPT !.lost = TRUE, !.todo = {}]]
        \/ job' = [job EXCEPT ![w] = [job[w] EXCEPT !.pc = p, !.held = h,
                                                    !.todo = t, !.ask = a]]
    BY <1>5, Zenon DEF AskPack
  <2>2. /\ p \in {"more", "call"}
        /\ h \in SUBSET Cards /\ t \in SUBSET Cards /\ a \in SUBSET Cards
    BY <1>1, <1>2
  <2> HIDE DEF p, h, t, a
  <2>3. [job[w] EXCEPT !.lost = TRUE, !.todo = {}] \in Jobs
    BY <1>1, LostIsJob
  <2>4. [job[w] EXCEPT !.pc = p, !.held = h, !.todo = t, !.ask = a] \in Jobs
    BY <1>1, <2>2, AskedIsJob
  <2> QED
    BY <2>1, <2>3, <2>4, JobChanged, Zenon
<1>6. ASSUME Discard(w) PROVE job' \in [Workers -> Jobs]
  <2>1. [job[w] EXCEPT !.pc = "more", !.ask = {}] \in Jobs
    BY <1>1, DiscardedIsJob
  <2> QED
    BY <1>6, <2>1, JobChanged, Zenon DEF Discard
<1>7. ASSUME NEW e \in {"llm", "primary"}, NEW got, ApplyPack(w, e, got)
      PROVE  job' \in [Workers -> Jobs]
  <2> DEFINE mine == Mine(w, job[w].ask)
             done == mine \cap demand \cap got
             failed == (mine \cap demand) \ got
             gone == done \cup (mine \ demand)
             h == job[w].held \ (gone \cup failed)
             l == job[w].lost \/ Leased(w) = {}
  <2>1. job' = [job EXCEPT ![w] = [job[w] EXCEPT !.pc = "more", !.ask = {},
                                                 !.held = h, !.lost = l]]
    BY <1>7, Zenon DEF ApplyPack
  <2>2. l \in BOOLEAN /\ h \in SUBSET Cards
    BY <1>1
  <2> HIDE DEF l, h
  <2>3. [job[w] EXCEPT !.pc = "more", !.ask = {}, !.held = h, !.lost = l] \in Jobs
    BY <1>1, <2>2, AnsweredIsJob
  <2> QED
    BY <2>1, <2>3, JobChanged, Zenon
<1>8. ASSUME Refused(w) PROVE job' \in [Workers -> Jobs]
  <2> DEFINE h == job[w].held \ job[w].ask
             g == job[w].held \ Mine(w, job[w].ask)
             l == job[w].lost \/ Leased(w) = {}
  <2>1. \/ job' = [job EXCEPT ![w] = [job[w] EXCEPT !.pc = "more", !.ask = {}, !.held = h]]
        \/ Revoked(w)
    BY <1>8, Zenon DEF Refused, FailPack
  <2>2. Revoked(w) =>
          job' = [job EXCEPT ![w] = [job[w] EXCEPT !.pc = "more", !.ask = {},
                                                   !.held = g, !.lost = l]]
    BY Zenon DEF Revoked
  <2>3. l \in BOOLEAN /\ h \in SUBSET Cards /\ g \in SUBSET Cards
    BY <1>1
  <2> HIDE DEF l, h, g
  <2>4. [job[w] EXCEPT !.pc = "more", !.ask = {}, !.held = h] \in Jobs
    BY <1>1, <2>3, FailedIsJob
  <2>5. [job[w] EXCEPT !.pc = "more", !.ask = {}, !.held = g, !.lost = l] \in Jobs
    BY <1>1, <2>3, AnsweredIsJob
  <2> QED
    BY <2>1, <2>2, <2>4, <2>5, JobChanged, Zenon
<1>9. ASSUME Stop(w) PROVE job' \in [Workers -> Jobs]
  <2> DEFINE h == IF job[w].lost THEN job[w].held ELSE {}
  <2>1. job' = [job EXCEPT ![w] = [job[w] EXCEPT !.pc = "finish", !.held = h]]
    BY <1>9, Zenon DEF Stop
  <2>2. h \in SUBSET Cards
    BY <1>1
  <2> HIDE DEF h
  <2>3. [job[w] EXCEPT !.pc = "finish", !.held = h] \in Jobs
    BY <1>1, <2>2, StoppedIsJob
  <2> QED
    BY <2>1, <2>3, JobChanged, Zenon
<1>10. Answered(w) => job' \in [Workers -> Jobs]
  BY <1>7 DEF Answered
<1>11. (\E P \in SUBSET job[w].todo : AskPack(w, P)) => job' \in [Workers -> Jobs]
  BY <1>5
<1> QED
  BY <1>3, <1>4, <1>6, <1>8, <1>9, <1>10, <1>11

\* The steps that queue pairs.
LEMMA ResetQueue ==
  ASSUME TypeOK, Reset
  PROVE  /\ row' \in Queue
         /\ \A c \in Cards : /\ row'[c] # None => row'[c].rev \in Nat
                             /\ row[c] # None /\ row'[c] # None => row'[c].att <= row[c].att
                             /\ row'[c] # None /\ row[c] # None
                                  => row'[c].rev <= row[c].rev \/ row'[c].rev = rev + 1
                             /\ row'[c] # None /\ row[c] = None => row'[c].rev = rev + 1
<1>1. row \in Queue /\ rev + 1 \in 1..MaxRev /\ rev \in Nat
  BY BoundsAssumption DEF TypeOK, Queue, Reset
<1>2. ASSUME NEW c \in Cards
      PROVE  row'[c] = IF c \in demand THEN Upsert(row[c], rev + 1) ELSE None
  BY Zenon DEF Reset
<1>3. ASSUME NEW c \in Cards
      PROVE  /\ Upsert(row[c], rev + 1) \in Rows
             /\ row[c] # None => Upsert(row[c], rev + 1).att <= row[c].att
             /\ Upsert(row[c], rev + 1) \in {row[c], NewRow(rev + 1)}
             /\ row[c] = None => Upsert(row[c], rev + 1) = NewRow(rev + 1)
  <2>1. row[c] \in Rows \cup {None}
    BY <1>1 DEF Queue
  <2>2. Upsert(row[c], rev + 1) \in {row[c], NewRow(rev + 1)}
        /\ (row[c] = None => Upsert(row[c], rev + 1) = NewRow(rev + 1))
    BY DEF Upsert
  <2> QED
    BY <1>1, <2>1, <2>2, UpsertFacts
<1>4. NewRow(rev + 1).rev = rev + 1
  BY <1>1, NewRowFacts
<1>5. row' = [c \in Cards |-> row'[c]]
  BY Zenon DEF Reset
<1>6. \A c \in Cards : row'[c] \in Rows \cup {None}
  BY <1>2, <1>3
<1>7. \A r \in Rows : r.rev \in Nat
  BY BoundsAssumption DEF Rows
<1>8. row' \in Queue
  BY <1>5, <1>6 DEF Queue
<1>9. ASSUME NEW c \in Cards
      PROVE  /\ row'[c] # None => row'[c].rev \in Nat
             /\ row[c] # None /\ row'[c] # None => row'[c].att <= row[c].att
             /\ row'[c] # None /\ row[c] # None
                  => row'[c].rev <= row[c].rev \/ row'[c].rev = rev + 1
             /\ row'[c] # None /\ row[c] = None => row'[c].rev = rev + 1
  <2>1. row[c] # None => row[c] \in Rows
    BY <1>1 DEF Queue
  <2> QED
    BY <1>2, <1>3, <1>4, <1>6, <1>7, <2>1
<1> QED
  BY <1>8, <1>9

LEMMA EnrichQueue ==
  ASSUME TypeOK, Enrich
  PROVE  /\ row' \in Queue
         /\ NotFailed(row, row')
         /\ \A c \in Cards : IF c \in demand THEN row'[c] = Upsert(row[c], rev)
                             ELSE row'[c] = row[c]
<1>1. row \in Queue /\ rev \in 1..MaxRev
  BY DEF TypeOK, Queue
<1>2. ASSUME NEW c \in Cards
      PROVE  row'[c] = IF c \in demand THEN Upsert(row[c], rev) ELSE row[c]
  BY Zenon DEF Enrich, UpsertRows
<1>3. \A c \in Cards : row[c] \in Rows \cup {None}
  BY <1>1 DEF Queue
<1>4. \A c \in Cards : row[c] # None => row[c].att \in Nat
  BY <1>3, BoundsAssumption DEF Rows
<1>5. ASSUME NEW c \in Cards
      PROVE  /\ row'[c] \in Rows \cup {None}
             /\ row[c] # None => row'[c].att <= row[c].att
  BY <1>1, <1>2, <1>3, <1>4, UpsertFacts
<1>6. row' = [c \in Cards |-> row'[c]]
  BY Zenon DEF Enrich, UpsertRows
<1>7. row' \in Queue
  BY <1>5, <1>6 DEF Queue
<1>8. NotFailed(row, row')
  BY <1>5 DEF NotFailed
<1> QED
  BY <1>2, <1>7, <1>8

LEMMA PlanFields ==
  ASSUME TypeOK, plan # None
  PROVE  plan \in Plans /\ plan.card \in Cards /\ plan.rev \in 1..MaxRev
<1>1. plan \in Plans
  BY DEF TypeOK
<1> QED
  BY <1>1, Zenon DEF Plans

LEMMA WritePlanQueue ==
  ASSUME TypeOK, WritePlan
  PROVE  /\ row' \in Queue
         /\ NotFailed(row, row')
         /\ \A c \in Cards \ {plan.card} : row'[c] = row[c]
         /\ \/ plan.card \notin demand /\ row'[plan.card] = row[plan.card]
            \/ /\ row[plan.card] # None
               /\ row[plan.card].rev = plan.rev
               /\ row'[plan.card] # None
               /\ row'[plan.card].rev = plan.rev
            \/ row'[plan.card] = Upsert(row[plan.card], plan.rev)
<1> DEFINE c == plan.card
           r == IF Revivable(c) THEN Revived(Released(row[c]))
                ELSE Upsert(row[c], plan.rev)
<1>1. plan # None /\ c \in Cards /\ plan.rev \in 1..MaxRev
  <2>1. plan # None
    BY DEF WritePlan
  <2> QED
    BY <2>1, PlanFields
<1>2. row \in Queue /\ row[c] \in Rows \cup {None}
  BY <1>1 DEF TypeOK, Queue
<1>3. (row' = row /\ c \notin demand) \/ row' = [row EXCEPT ![c] = r]
  BY DEF WritePlan
<1>4. \A x \in Cards : row[x] # None => row[x].att \in Nat
  BY <1>2, BoundsAssumption DEF Queue, Rows
<1>5. ASSUME Revivable(c)
      PROVE  /\ r \in Rows /\ row[c] # None
             /\ r.rev = row[c].rev /\ row[c].rev = plan.rev /\ r.att <= row[c].att
  <2>1. row[c] \in Rows /\ row[c].rev = plan.rev /\ row[c] # None
    BY <1>2, <1>5 DEF Revivable
  <2> DEFINE q == Released(row[c])
  <2>2. q \in Rows /\ q.rev = row[c].rev /\ q.att = row[c].att
    BY <2>1, ReleasedFacts
  <2>3. r = Revived(q)
    BY <1>5
  <2> HIDE DEF q, r, c
  <2> QED
    BY <2>1, <2>2, <2>3, RevivedFacts
<1>6. ASSUME ~ Revivable(c)
      PROVE  /\ r \in Rows /\ r = Upsert(row[c], plan.rev)
             /\ row[c] # None => r.att <= row[c].att
  BY <1>1, <1>2, <1>6, UpsertFacts
<1>7. r \in Rows /\ (row[c] # None => r.att <= row[c].att)
  BY <1>5, <1>6
<1>8. \/ row[c] # None /\ row[c].rev = plan.rev /\ r.rev = plan.rev
      \/ r = Upsert(row[c], plan.rev)
  BY <1>5, <1>6
<1> HIDE DEF r, c
<1>9. CASE row' = row /\ c \notin demand
  BY <1>2, <1>4, <1>9 DEF NotFailed, c
<1>10. CASE row' = [row EXCEPT ![c] = r]
  <2>1. row' \in Queue /\ row'[c] = r /\ \A x \in Cards \ {c} : row'[x] = row[x]
    BY <1>1, <1>2, <1>7, <1>10 DEF Queue
  <2>2. NotFailed(row, row')
    BY <1>4, <1>7, <2>1 DEF NotFailed
  <2> QED
    BY <1>7, <1>8, <2>1, <2>2, RowIsSome DEF c
<1> QED
  BY <1>3, <1>9, <1>10

LEMMA KeptIsTyped == ASSUME QueueKept PROVE row' \in Queue
  BY DEF QueueKept, RowsLeft

LEMMA EnvironmentType ==
  ASSUME TypeOK, Environment
  PROVE  TypeOK'
<1>1. CASE Reset
  <2>1. row' \in Queue
    BY <1>1, ResetQueue
  <2>2. rev' \in 1..MaxRev
    BY <1>1, BoundsAssumption DEF Reset, TypeOK
  <2>3. ans' \in [Cards -> Answers \cup {None}]
    BY <1>1 DEF Reset
  <2> QED
    BY <1>1, <2>1, <2>2, <2>3 DEF TypeOK, Reset, Queue
<1>2. CASE ChangeConfig
  <2>1. cfg' \in 1..MaxCfg
    BY <1>2, BoundsAssumption DEF ChangeConfig, TypeOK
  <2> QED
    BY <1>2, <2>1 DEF TypeOK, ChangeConfig
<1>3. ASSUME NEW c \in Cards, GainDemand(c) PROVE TypeOK'
  BY <1>3 DEF TypeOK, GainDemand
<1>4. ASSUME NEW c \in Cards, LoseDemand(c) PROVE TypeOK'
  BY <1>4 DEF TypeOK, LoseDemand
<1>5. ASSUME NEW c \in Cards, CacheFill(c) PROVE TypeOK'
  <2> DEFINE b == [rev |-> rev, cfg |-> cfg, eng |-> "primary"]
  <2>1. b \in Answers
    BY DEF TypeOK, Answers
  <2>2. ans' = WriteAnswers({c}, b) /\ ans \in [Cards -> Answers \cup {None}]
    BY <1>5 DEF CacheFill, TypeOK
  <2> HIDE DEF b
  <2>3. ans' \in [Cards -> Answers \cup {None}]
    BY <2>1, <2>2, WrittenAnswers
  <2> QED
    BY <1>5, <2>3 DEF TypeOK, CacheFill, store
<1>6. ASSUME NEW c \in Cards, Ripen(c) \/ Lapse(c) PROVE TypeOK'
  <2>1. row' \in Queue
    BY <1>6, TimeQueue, KeptIsTyped
  <2> QED
    BY <1>6, <2>1 DEF TypeOK, Ripen, Lapse, store, Queue
<1>7. ASSUME NEW w \in Workers, Expire(w) PROVE TypeOK'
  <2>1. row' \in Queue
    BY <1>7, ExpireQueue, KeptIsTyped
  <2> QED
    BY <1>7, <2>1 DEF TypeOK, Expire, store, Queue
<1> QED
  BY <1>1, <1>2, <1>3, <1>4, <1>5, <1>6, <1>7 DEF Environment

LEMMA ProducerType ==
  ASSUME TypeOK, Producer
  PROVE  TypeOK'
<1>1. CASE Enrich
  <2>1. row' \in Queue
    BY <1>1, EnrichQueue
  <2>2. intent' \in BOOLEAN
    BY <1>1 DEF Enrich, TypeOK
  <2> QED
    BY <1>1, <2>1, <2>2 DEF TypeOK, Enrich, Queue
<1>2. CASE WritePlan
  <2>1. row' \in Queue
    BY <1>2, WritePlanQueue
  <2>2. intent' \in BOOLEAN /\ plan' \in Plans \cup {None}
    BY <1>2 DEF WritePlan, TypeOK
  <2>3. /\ UNCHANGED <<rev, stage, cfg, demand>>
        /\ UNCHANGED <<ans, active, job, want, faults>>
    BY <1>2 DEF WritePlan, store
  <2> QED
    BY <2>1, <2>2, <2>3 DEF TypeOK, Queue
<1>3. CASE Recover
  <2>1. row' \in Queue
    BY <1>3, RecoverQueue, KeptIsTyped
  <2> QED
    BY <1>3, <2>1 DEF TypeOK, Recover, store, Queue
<1>4. ASSUME NEW c \in Cards, BackfillRead(c) PROVE TypeOK'
  <2> DEFINE k == IF Classified THEN "match" ELSE "queue"
             new == [card |-> c, rev |-> rev, revive |-> FALSE, kind |-> k]
  <2>3. plan' = new \/ plan' = None
    BY <1>4, Zenon DEF BackfillRead
  <2>2. new \in Plans
    BY DEF TypeOK, Plans
  <2> HIDE DEF new
  <2>1. plan' \in Plans \cup {None}
    BY <2>2, <2>3
  <2> QED
    BY <1>4, <2>1 DEF TypeOK, BackfillRead, store
<1>5. ASSUME NEW c \in Cards, RematchRead(c) PROVE TypeOK'
  <2>1. plan' \in Plans \cup {None}
    BY <1>5 DEF RematchRead, TypeOK, Plans
  <2> QED
    BY <1>5, <2>1 DEF TypeOK, RematchRead, store
<1>6. ASSUME NEW c \in Cards, RescoreRead(c) PROVE TypeOK'
  <2>1. plan' \in Plans \cup {None}
    BY <1>6 DEF RescoreRead, TypeOK, Plans
  <2> QED
    BY <1>6, <2>1 DEF TypeOK, RescoreRead, store
<1> QED
  BY <1>1, <1>2, <1>3, <1>4, <1>5, <1>6 DEF Producer

LEMMA StepType ==
  ASSUME TypeOK, NEW w \in Workers, Step(w)
  PROVE  TypeOK'
<1>1. CASE Claim(w)
  <2>1. row' \in Queue /\ job' \in [Workers -> Jobs]
    BY <1>1, ClaimQueue, KeptIsTyped, JobTypes
  <2>2. UNCHANGED <<store, ans, want, plan, faults>> /\ intent' = FALSE /\ active' = w
    BY <1>1 DEF Claim
  <2> QED
    BY <2>1, <2>2 DEF TypeOK, store, Queue
<1>2. CASE GiveBack(w)
  <2>1. row' \in Queue /\ job' \in [Workers -> Jobs] /\ active' \in Workers \cup {None}
    BY <1>2, GiveBackQueue, KeptIsTyped, EndedType DEF GiveBack
  <2> QED
    BY <1>2, <2>1 DEF TypeOK, GiveBack, store, Queue
<1>3. CASE Prepare(w)
  <2>1. row' \in Queue /\ job' \in [Workers -> Jobs]
    BY <1>3, PrepareQueue, KeptIsTyped, JobTypes
  <2>2. \/ \E gone : Outdated(w, gone)
        \/ UNCHANGED <<ans, intent, active>>
    BY <1>3, Zenon DEF Prepare
  <2>3. \A gone : Outdated(w, gone) => ans' = ans /\ intent' = TRUE /\ Ended(w)
    BY DEF Outdated
  <2>4. ans' = ans /\ intent' \in BOOLEAN /\ active' \in Workers \cup {None}
    BY <2>2, <2>3, EndedType DEF TypeOK
  <2>5. UNCHANGED <<store, want, plan, faults>>
    BY <1>3 DEF Prepare
  <2> QED
    BY <2>1, <2>4, <2>5 DEF TypeOK, store, Queue
<1>4. ASSUME NEW P \in SUBSET job[w].todo, AskPack(w, P) PROVE TypeOK'
  <2>1. row' \in Queue /\ job' \in [Workers -> Jobs]
    BY <1>4, AskPackQueue, KeptIsTyped, JobTypes
  <2>2. UNCHANGED <<store, ans, intent, active, want, plan, faults>>
    BY <1>4 DEF AskPack
  <2> QED
    BY <2>1, <2>2 DEF TypeOK, store, Queue
<1>5. CASE Discard(w)
  <2>1. job' \in [Workers -> Jobs]
    BY <1>5, JobTypes
  <2>2. UNCHANGED <<store, row, ans, intent, active, want, plan, faults>>
    BY <1>5 DEF Discard
  <2> QED
    BY <2>1, <2>2 DEF TypeOK, store
<1>6. CASE OutdatedReply(w)
  <2>1. Outdated(w, {}) /\ UNCHANGED <<store, want, plan, faults>>
    BY <1>6 DEF OutdatedReply
  <2>2. row' \in Queue
    BY <2>1, OutdatedQueue, KeptIsTyped
  <2>3. ans' = ans /\ intent' = TRUE /\ Ended(w)
    BY <2>1 DEF Outdated
  <2> QED
    BY <2>1, <2>2, <2>3, EndedType DEF TypeOK, store, Queue
<1>7. CASE Answered(w)
  <2>1. PICK e \in {"llm", "primary"}, got \in SUBSET job[w].ask : ApplyPack(w, e, got)
    BY <1>7 DEF Answered
  <2>2. row' \in Queue /\ job' \in [Workers -> Jobs]
    BY <1>7, <2>1, ApplyPackQueue, KeptIsTyped, JobTypes
  <2> DEFINE b == [rev |-> job[w].rev, cfg |-> job[w].cfg, eng |-> e]
             done == Mine(w, job[w].ask) \cap demand \cap got
  <2>3. ans' = WriteAnswers(done, b)
    BY <2>1, Zenon DEF ApplyPack
  <2>4. b \in Answers /\ ans \in [Cards -> Answers \cup {None}]
    BY JobAnswer DEF TypeOK
  <2> HIDE DEF b, done
  <2>5. ans' \in [Cards -> Answers \cup {None}]
    BY <2>3, <2>4, WrittenAnswers
  <2>6. UNCHANGED <<store, intent, active, want, plan, faults>>
    BY <2>1 DEF ApplyPack
  <2> QED
    BY <2>2, <2>5, <2>6 DEF TypeOK, store, Queue
<1>8. CASE Refused(w)
  <2>1. row' \in Queue /\ job' \in [Workers -> Jobs]
    BY <1>8, DeferPackQueue, FailPackQueue, ExhaustPackQueue, RevokedQueue,
       KeptIsTyped, JobTypes DEF Refused
  <2>2. UNCHANGED <<store, ans, intent, active, want, plan, faults>>
    BY <1>8, Zenon DEF Refused, FailPack, Revoked
  <2> QED
    BY <2>1, <2>2 DEF TypeOK, store, Queue
<1>9. CASE Stop(w)
  <2>1. row' \in Queue /\ job' \in [Workers -> Jobs]
    BY <1>9, StopQueue, KeptIsTyped, JobTypes
  <2>2. UNCHANGED <<store, ans, intent, active, want, plan, faults>>
    BY <1>9 DEF Stop
  <2> QED
    BY <2>1, <2>2 DEF TypeOK, store, Queue
<1>10. CASE Finish(w)
  <2>1. row' = Orphaned(row, w) /\ Ended(w)
        /\ UNCHANGED <<rev, cfg, demand, ans, want, plan, faults>>
    BY <1>10 DEF Finish
  <2>2. row' \in Queue
    BY <2>1, EndQueue, KeptIsTyped
  <2>3. stage' \in {"waiting", "enriched", "matched"} /\ intent' \in BOOLEAN
    BY <1>10 DEF Finish, TypeOK
  <2> QED
    BY <2>1, <2>2, <2>3, EndedType DEF TypeOK, Queue
<1> QED
  BY <1>1, <1>2, <1>3, <1>4, <1>5, <1>6, <1>7, <1>8, <1>9, <1>10 DEF Step

LEMMA FaultType ==
  ASSUME TypeOK, NEW w \in Workers, Fault(w)
  PROVE  TypeOK'
<1>1. faults < MaxFaults => faults + 1 \in 0..MaxFaults
  BY BoundsAssumption DEF TypeOK
<1>2. CASE Crash(w)
  <2>1. row' \in Queue
    BY <1>2, EndQueue, KeptIsTyped DEF Crash
  <2>2. Ended(w) /\ intent' \in BOOLEAN /\ faults' \in 0..MaxFaults
        /\ UNCHANGED <<store, ans, want, plan>>
    BY <1>1, <1>2 DEF Crash, TypeOK
  <2> QED
    BY <2>1, <2>2, EndedType DEF TypeOK, store, Queue
<1>3. CASE Drain(w)
  <2>1. row' \in Queue
    BY <1>3, DrainQueue, KeptIsTyped
  <2>2. Ended(w) /\ intent' \in BOOLEAN /\ faults' \in 0..MaxFaults
        /\ UNCHANGED <<store, ans, want, plan>>
    BY <1>1, <1>3 DEF Drain, TypeOK
  <2> QED
    BY <2>1, <2>2, EndedType DEF TypeOK, store, Queue
<1>4. CASE Overrun(w)
  BY <1>1, <1>4 DEF Overrun, TypeOK, store
<1> QED
  BY <1>2, <1>3, <1>4 DEF Fault

LEMMA TypeInit == Init => TypeOK
<1> SUFFICES ASSUME Init PROVE TypeOK
  OBVIOUS
<1>1. 1 \in 1..MaxRev /\ 1 \in 1..MaxCfg /\ 0 \in 0..MaxFaults
  BY BoundsAssumption
<1> QED
  BY <1>1, IdleIsJob DEF Init, TypeOK

LEMMA TypeStep == TypeOK /\ [Next]_vars => TypeOK'
<1> SUFFICES ASSUME TypeOK, [Next]_vars PROVE TypeOK'
  OBVIOUS
<1>1. CASE UNCHANGED vars
  BY <1>1 DEF TypeOK, vars
<1>2. CASE Next
  BY <1>2, ProducerType, EnvironmentType, StepType, FaultType DEF Next
<1> QED
  BY <1>1, <1>2

\* The queue, the answers, the jobs and what is recorded about them are always
\* of the kinds the code means them to be; no attempt is counted past the limit.
THEOREM TypeCorrect == Spec => []TypeOK
  BY TypeInit, TypeStep, PTL DEF Spec

-----------------------------------------------------------------------------
(* No pair is forgotten.  The invariant adds that neither a row nor a      *)
(* producer's decision is ahead of the article, so that an upsert at the   *)
(* article's revision always leaves a row at it.                           *)

RevisionBounds ==
  /\ \A c \in Cards : row[c] # None => row[c].rev <= rev
  /\ plan # None => plan.rev <= rev

MatchInv == TypeOK /\ RevisionBounds /\ PairsAccounted

LEMMA AccountedStep ==
  ASSUME MatchInv, TypeOK', QueueKept, rev' = rev, plan' = plan,
         demand' \subseteq demand, want \subseteq want',
         \A c \in Cards : ans[c] # None => ans'[c] # None,
         stage = "waiting" => stage' = "waiting"
  PROVE  MatchInv'
<1>1. PICK gone : /\ RowsLeft(gone, row, row')
                  /\ \A c \in gone : c \notin demand \/ ans'[c] # None
  BY DEF QueueKept
<1>2. \A c \in Cards : row'[c] # None => row[c] # None /\ row'[c].rev = row[c].rev
  BY <1>1 DEF RowsLeft
<1>3. RevisionBounds'
  BY <1>2 DEF MatchInv, RevisionBounds
<1>4. ASSUME NEW c \in demand'
      PROVE  \/ ans'[c] # None
             \/ row'[c] # None /\ row'[c].rev = rev'
             \/ c \in want'
             \/ plan' # None /\ plan'.card = c /\ plan'.rev = rev'
             \/ stage' = "waiting"
  <2>1. c \in demand /\ c \in Cards
    BY DEF MatchInv, TypeOK
  <2>2. CASE row[c] # None /\ row[c].rev = rev
    <3>1. CASE c \in gone
      BY <1>1, <2>1, <3>1
    <3>2. CASE c \notin gone
      BY <1>1, <2>1, <2>2, <3>2 DEF RowsLeft
    <3> QED
      BY <3>1, <3>2
  <2>3. \/ ans[c] # None
        \/ row[c] # None /\ row[c].rev = rev
        \/ c \in want
        \/ plan # None /\ plan.card = c /\ plan.rev = rev
        \/ stage = "waiting"
    BY <2>1 DEF MatchInv, PairsAccounted
  <2> QED
    BY <2>1, <2>2, <2>3
<1>5. PairsAccounted'
  BY <1>4 DEF PairsAccounted
<1> QED
  BY <1>3, <1>5 DEF MatchInv

\* The producers' transactions.
LEMMA ProducerAccounts ==
  ASSUME MatchInv, TypeOK', Producer
  PROVE  MatchInv'
<1>1. TypeOK /\ row \in Queue /\ rev \in 1..MaxRev
  BY DEF MatchInv, TypeOK, Queue
<1>2. \A c \in Cards : row[c] \in Rows \cup {None} /\ (row[c] # None => row[c].rev <= rev)
  BY <1>1 DEF MatchInv, RevisionBounds, Queue
<1>3. CASE Enrich
  <2>1. \A c \in Cards : IF c \in demand THEN row'[c] = Upsert(row[c], rev)
                         ELSE row'[c] = row[c]
    BY <1>1, <1>3, EnrichQueue
  <2>2. \A c \in Cards : Upsert(row[c], rev) # None /\ Upsert(row[c], rev).rev = rev
    BY <1>1, <1>2, UpsertFacts, RowIsSome
  <2>3. rev' = rev /\ demand' = demand /\ plan' = plan
    BY <1>3 DEF Enrich
  <2>4. RevisionBounds'
    <3>1. rev <= rev
      BY <1>1, BoundsAssumption
    <3> QED
      BY <1>2, <2>1, <2>2, <2>3, <3>1 DEF RevisionBounds, MatchInv
  <2>5. PairsAccounted'
    <3>1. demand \subseteq Cards
      BY <1>1 DEF TypeOK
    <3> QED
      BY <2>1, <2>2, <2>3, <3>1 DEF PairsAccounted
  <2> QED
    BY <2>4, <2>5 DEF MatchInv
<1>4. CASE WritePlan
  <2> DEFINE x == plan.card
  <2>1. plan # None /\ x \in Cards /\ plan.rev \in 1..MaxRev /\ plan.rev <= rev
    <3>1. plan # None
      BY <1>4 DEF WritePlan
    <3> QED
      BY <1>1, <3>1, PlanFields DEF MatchInv, RevisionBounds
  <2>2. /\ \A c \in Cards \ {x} : row'[c] = row[c]
        /\ \/ x \notin demand /\ row'[x] = row[x]
           \/ /\ row[x] # None
              /\ row[x].rev = plan.rev
              /\ row'[x] # None
              /\ row'[x].rev = plan.rev
           \/ row'[x] = Upsert(row[x], plan.rev)
    BY <1>1, <1>4, WritePlanQueue
  <2>3. rev' = rev /\ demand' = demand /\ plan' = None /\ ans' = ans
        /\ want' = want /\ stage' = stage
    BY <1>4 DEF WritePlan, store
  <2>4. /\ Upsert(row[x], plan.rev) # None
        /\ Upsert(row[x], plan.rev) = row[x] \/ Upsert(row[x], plan.rev).rev = plan.rev
        /\ plan.rev = rev => Upsert(row[x], plan.rev).rev = rev
        /\ row[x] # None /\ row[x].rev = rev => Upsert(row[x], plan.rev).rev = rev
    <3>1. row[x] \in Rows \cup {None} /\ (row[x] # None => row[x].rev \in Nat)
      BY <1>2, <2>1, BoundsAssumption DEF Rows
    <3>2. Upsert(row[x], plan.rev) \in {row[x], NewRow(plan.rev)}
      BY DEF Upsert
    <3>3. NewRow(plan.rev).rev = plan.rev
      BY <2>1, NewRowFacts
    <3>4. plan.rev \in Nat /\ rev \in Nat
      BY <1>1, <2>1, BoundsAssumption
    <3>5. /\ Upsert(row[x], plan.rev) \in Rows
          /\ row[x] # None => Upsert(row[x], plan.rev).rev >= row[x].rev
          /\ row[x] = None \/ row[x].rev <= plan.rev
               => Upsert(row[x], plan.rev).rev = plan.rev
      BY <2>1, <3>1, UpsertFacts
    <3>6. Upsert(row[x], plan.rev) # None
      BY <3>5, RowIsSome
    <3>7. Upsert(row[x], plan.rev) = row[x] \/ Upsert(row[x], plan.rev).rev = plan.rev
      BY <3>2, <3>3
    <3>8. plan.rev = rev => Upsert(row[x], plan.rev).rev = rev
      BY <1>2, <2>1, <3>5
    <3>9. row[x] # None /\ row[x].rev = rev => Upsert(row[x], plan.rev).rev = rev
      <4> SUFFICES ASSUME row[x] # None, row[x].rev = rev
                   PROVE  Upsert(row[x], plan.rev).rev = rev
        OBVIOUS
      <4>1. CASE Upsert(row[x], plan.rev) = row[x]
        BY <4>1
      <4>2. CASE Upsert(row[x], plan.rev).rev = plan.rev
        BY <2>1, <3>4, <3>5, <4>2
      <4> QED
        BY <3>7, <4>1, <4>2
    <3> QED
      BY <3>6, <3>7, <3>8, <3>9
  <2> HIDE DEF x
  <2>5. RevisionBounds'
    <3>1. \A c \in Cards : row'[c] # None => row'[c].rev <= rev
      BY <1>2, <2>1, <2>2, <2>4
    <3> QED
      BY <2>3, <3>1 DEF RevisionBounds
  <2>6. ASSUME NEW c \in demand
        PROVE  \/ ans[c] # None
               \/ row'[c] # None /\ row'[c].rev = rev
               \/ c \in want
               \/ stage = "waiting"
    <3>1. \/ ans[c] # None
          \/ row[c] # None /\ row[c].rev = rev
          \/ c \in want
          \/ x = c /\ plan.rev = rev
          \/ stage = "waiting"
      BY DEF MatchInv, PairsAccounted, x
    <3>2. c \in Cards
      BY <1>1 DEF TypeOK
    <3>3. CASE c # x
      BY <2>2, <3>1, <3>2, <3>3
    <3>4. CASE c = x
      BY <2>2, <2>4, <3>1, <3>4
    <3> QED
      BY <3>3, <3>4
  <2>7. PairsAccounted'
    BY <2>3, <2>6 DEF PairsAccounted
  <2> QED
    BY <2>5, <2>7 DEF MatchInv
<1>5. CASE Recover
  <2>1. QueueKept
    BY <1>1, <1>5, RecoverQueue
  <2>2. UNCHANGED <<rev, stage, demand, ans, want, plan>>
    BY <1>5 DEF Recover, store
  <2> QED
    BY <2>1, <2>2, AccountedStep
<1>6. ASSUME NEW c \in Cards, BackfillRead(c) PROVE MatchInv'
  <2> DEFINE k == IF Classified THEN "match" ELSE "queue"
             new == [card |-> c, rev |-> rev, revive |-> FALSE, kind |-> k]
  <2>1. /\ want' = want \ {c}
        /\ UNCHANGED <<rev, stage, cfg, demand, row, ans>>
    BY <1>6 DEF BackfillRead, store
  <2>2. plan = None
    BY <1>6 DEF BackfillRead
  <2>3. \/ plan' = new
        \/ plan' = None /\ (c \notin demand \/ Satisfied(c, rev, cfg) \/ ~ Classified)
    BY <1>6, Zenon DEF BackfillRead
  <2>4. new # None
    <3>1. new \in Plans
      BY <1>1 DEF TypeOK, Plans
    <3> HIDE DEF new
    <3> QED
      BY <3>1, RecordsAssumption
  <2>5. new.card = c /\ new.rev = rev
    OBVIOUS
  <2>6. Satisfied(c, rev, cfg) => ans[c] # None
    BY DEF Satisfied, Current
  <2>7. ~ Classified => stage = "waiting"
    BY <1>1 DEF Classified, TypeOK
  <2>8. rev <= rev
    BY <1>1, BoundsAssumption
  <2> HIDE DEF new
  <2>9. RevisionBounds'
    BY <1>2, <2>1, <2>3, <2>5, <2>8 DEF RevisionBounds
  <2>10. ASSUME NEW d \in demand
         PROVE  \/ ans[d] # None
                \/ row[d] # None /\ row[d].rev = rev
                \/ d \in want'
                \/ plan' # None /\ plan'.card = d /\ plan'.rev = rev
                \/ stage = "waiting"
    <3>1. \/ ans[d] # None
          \/ row[d] # None /\ row[d].rev = rev
          \/ d \in want
          \/ stage = "waiting"
      BY <2>2 DEF MatchInv, PairsAccounted
    <3>2. CASE d # c
      BY <2>1, <3>1, <3>2
    <3>3. CASE d = c
      BY <2>3, <2>4, <2>5, <2>6, <2>7, <3>1, <3>3
    <3> QED
      BY <3>2, <3>3
  <2>11. PairsAccounted'
    BY <2>1, <2>10 DEF PairsAccounted
  <2> QED
    BY <2>9, <2>11 DEF MatchInv
<1>7. ASSUME NEW c \in Cards, RematchRead(c) \/ RescoreRead(c) PROVE MatchInv'
  <2>1. /\ plan = None /\ plan'.rev = rev
        /\ UNCHANGED <<rev, stage, demand, row, ans, want>>
    BY <1>7 DEF RematchRead, RescoreRead, store
  <2>2. rev <= rev
    BY <1>1, BoundsAssumption
  <2>3. RevisionBounds'
    BY <1>2, <2>1, <2>2 DEF RevisionBounds
  <2>4. PairsAccounted'
    BY <2>1 DEF MatchInv, PairsAccounted
  <2> QED
    BY <2>3, <2>4 DEF MatchInv
<1> QED
  BY <1>3, <1>4, <1>5, <1>6, <1>7 DEF Producer

LEMMA EnvironmentAccounts ==
  ASSUME MatchInv, TypeOK', Environment
  PROVE  MatchInv'
<1>1. TypeOK /\ row \in Queue /\ rev \in 1..MaxRev /\ rev \in Nat
  BY BoundsAssumption DEF MatchInv, TypeOK, Queue
<1>2. \A c \in Cards : row[c] # None => row[c].rev \in Nat /\ row[c].rev <= rev
  BY <1>1, BoundsAssumption DEF MatchInv, RevisionBounds, Queue, Rows
<1>3. CASE Reset
  <2>1. rev' = rev + 1 /\ stage' = "waiting" /\ plan' = plan
    BY <1>3 DEF Reset
  <2>2. \A c \in Cards : row'[c] # None => row'[c].rev <= rev + 1
    BY <1>1, <1>2, <1>3, ResetQueue
  <2>3. plan # None => plan.rev <= rev + 1
    <3>1. plan # None => plan.rev \in Nat /\ plan.rev <= rev
      BY <1>1, PlanFields, BoundsAssumption DEF MatchInv, RevisionBounds
    <3> QED
      BY <1>1, <3>1
  <2>4. RevisionBounds' /\ PairsAccounted'
    BY <2>1, <2>2, <2>3 DEF RevisionBounds, PairsAccounted
  <2> QED
    BY <2>4 DEF MatchInv
<1>4. CASE ChangeConfig
  <2>1. UNCHANGED <<rev, stage, demand, row, ans, want, plan>>
    BY <1>4 DEF ChangeConfig
  <2> QED
    BY <1>1, <2>1, SameQueue, AccountedStep
<1>5. ASSUME NEW c \in Cards, GainDemand(c) PROVE MatchInv'
  <2>1. demand' = demand \cup {c} /\ want' = want \cup {c}
        /\ UNCHANGED <<rev, stage, row, ans, plan>>
    BY <1>5 DEF GainDemand
  <2>2. RevisionBounds' /\ PairsAccounted'
    BY <2>1 DEF MatchInv, RevisionBounds, PairsAccounted
  <2> QED
    BY <2>2 DEF MatchInv
<1>6. ASSUME NEW c \in Cards, LoseDemand(c) PROVE MatchInv'
  <2>1. demand' = demand \ {c}
        /\ UNCHANGED <<rev, stage, row, ans, want, plan>>
    BY <1>6 DEF LoseDemand
  <2> QED
    BY <1>1, <2>1, SameQueue, AccountedStep
<1>7. ASSUME NEW c \in Cards, CacheFill(c) PROVE MatchInv'
  <2> DEFINE b == [rev |-> rev, cfg |-> cfg, eng |-> "primary"]
  <2>1. ans' = WriteAnswers({c}, b)
        /\ UNCHANGED <<rev, stage, demand, row, want, plan>>
    BY <1>7 DEF CacheFill, store
  <2>2. b \in Answers /\ ans \in [Cards -> Answers \cup {None}]
    BY <1>1 DEF TypeOK, Answers
  <2> HIDE DEF b
  <2>3. \A x \in Cards : ans[x] # None => ans'[x] # None
    BY <2>1, <2>2, WrittenAnswers
  <2> QED
    BY <1>1, <2>1, <2>3, SameQueue, AccountedStep
<1>8. ASSUME NEW c \in Cards, Ripen(c) \/ Lapse(c) PROVE MatchInv'
  <2>1. UNCHANGED <<rev, stage, demand, ans, want, plan>>
    BY <1>8 DEF Ripen, Lapse, store
  <2> QED
    BY <1>1, <1>8, <2>1, TimeQueue, AccountedStep
<1>9. ASSUME NEW w \in Workers, Expire(w) PROVE MatchInv'
  <2>1. UNCHANGED <<rev, stage, demand, ans, want, plan>>
    BY <1>9 DEF Expire, store
  <2> QED
    BY <1>1, <1>9, <2>1, ExpireQueue, AccountedStep
<1> QED
  BY <1>3, <1>4, <1>5, <1>6, <1>7, <1>8, <1>9 DEF Environment

LEMMA StepAccounts ==
  ASSUME MatchInv, TypeOK', NEW w \in Workers, Step(w)
  PROVE  MatchInv'
<1>1. TypeOK /\ row \in Queue
  BY DEF MatchInv, TypeOK, Queue
<1>2. CASE Answered(w)
  <2>1. PICK e \in {"llm", "primary"}, got \in SUBSET job[w].ask : ApplyPack(w, e, got)
    BY <1>2 DEF Answered
  <2> DEFINE b == [rev |-> job[w].rev, cfg |-> job[w].cfg, eng |-> e]
             done == Mine(w, job[w].ask) \cap demand \cap got
  <2>2. ans' = WriteAnswers(done, b)
    BY <2>1, Zenon DEF ApplyPack
  <2>3. b \in Answers /\ ans \in [Cards -> Answers \cup {None}]
    BY <1>1, JobAnswer DEF TypeOK
  <2> HIDE DEF b, done
  <2>4. \A c \in Cards : ans[c] # None => ans'[c] # None
    BY <2>2, <2>3, WrittenAnswers
  <2>5. UNCHANGED <<rev, stage, demand, want, plan>>
    BY <2>1 DEF ApplyPack, store
  <2>6. QueueKept
    BY <1>1, <2>1, ApplyPackQueue
  <2> QED
    BY <2>4, <2>5, <2>6, AccountedStep
<1>3. CASE Finish(w)
  <2>1. row' = Orphaned(row, w) /\ UNCHANGED <<rev, demand, ans, want, plan>>
    BY <1>3 DEF Finish
  <2>2. stage = "waiting" => stage' = "waiting"
    BY <1>3 DEF Finish, Classified
  <2> QED
    BY <1>1, <2>1, <2>2, EndQueue, AccountedStep
<1>4. ASSUME QueueKept, UNCHANGED <<store, want, plan>>, ans' = ans PROVE MatchInv'
  BY <1>4, AccountedStep DEF store
<1>5. CASE Claim(w)
  <2>1. UNCHANGED <<store, want, plan>> /\ ans' = ans
    BY <1>5 DEF Claim
  <2> QED
    BY <1>1, <1>4, <1>5, <2>1, ClaimQueue
<1>6. CASE GiveBack(w)
  <2>1. UNCHANGED <<store, want, plan>> /\ ans' = ans
    BY <1>6 DEF GiveBack
  <2> QED
    BY <1>1, <1>4, <1>6, <2>1, GiveBackQueue
<1>7. CASE Prepare(w)
  <2>1. UNCHANGED <<store, want, plan>>
    BY <1>7 DEF Prepare
  <2>2. (\E gone : Outdated(w, gone)) \/ ans' = ans
    BY <1>7, Zenon DEF Prepare
  <2>3. ans' = ans
    BY <2>2 DEF Outdated
  <2> QED
    BY <1>1, <1>4, <1>7, <2>1, <2>3, PrepareQueue
<1>8. ASSUME NEW P, AskPack(w, P) PROVE MatchInv'
  <2>1. UNCHANGED <<store, want, plan>> /\ ans' = ans
    BY <1>8 DEF AskPack
  <2> QED
    BY <1>1, <1>4, <1>8, <2>1, AskPackQueue
<1>9. CASE Discard(w)
  <2>1. UNCHANGED <<store, want, plan>> /\ ans' = ans /\ row' = row
    BY <1>9 DEF Discard
  <2> QED
    BY <1>1, <1>4, <2>1, SameQueue
<1>10. CASE OutdatedReply(w)
  <2>1. UNCHANGED <<store, want, plan>> /\ ans' = ans /\ Outdated(w, {})
    BY <1>10 DEF OutdatedReply, Outdated
  <2> QED
    BY <1>1, <1>4, <2>1, OutdatedQueue
<1>11. CASE Refused(w)
  <2>1. UNCHANGED <<store, want, plan>> /\ ans' = ans
    BY <1>11, Zenon DEF Refused, FailPack, Revoked
  <2> QED
    BY <1>1, <1>4, <1>11, <2>1, DeferPackQueue, FailPackQueue, ExhaustPackQueue,
       RevokedQueue DEF Refused
<1>12. CASE Stop(w)
  <2>1. UNCHANGED <<store, want, plan>> /\ ans' = ans
    BY <1>12 DEF Stop
  <2> QED
    BY <1>1, <1>4, <1>12, <2>1, StopQueue
<1> QED
  BY <1>2, <1>3, <1>5, <1>6, <1>7, <1>8, <1>9, <1>10, <1>11, <1>12 DEF Step

LEMMA FaultAccounts ==
  ASSUME MatchInv, TypeOK', NEW w \in Workers, Fault(w)
  PROVE  MatchInv'
<1>1. TypeOK /\ row \in Queue
  BY DEF MatchInv, TypeOK, Queue
<1>2. UNCHANGED <<rev, stage, demand, ans, want, plan>>
  BY DEF Fault, Crash, Drain, Overrun, store
<1>3. QueueKept
  <2>1. CASE Crash(w)
    BY <1>1, <2>1, EndQueue DEF Crash
  <2>2. CASE Drain(w)
    BY <1>1, <2>2, DrainQueue
  <2>3. CASE Overrun(w)
    BY <1>1, <2>3, SameQueue DEF Overrun
  <2> QED
    BY <2>1, <2>2, <2>3 DEF Fault
<1> QED
  BY <1>2, <1>3, AccountedStep

LEMMA MatchInvStep == MatchInv /\ [Next]_vars => MatchInv'
<1> SUFFICES ASSUME MatchInv, [Next]_vars PROVE MatchInv'
  OBVIOUS
<1>1. TypeOK'
  BY TypeStep DEF MatchInv
<1>2. CASE UNCHANGED vars
  BY <1>1, <1>2 DEF MatchInv, RevisionBounds, PairsAccounted, vars
<1>3. CASE Next
  BY <1>1, <1>3, ProducerAccounts, EnvironmentAccounts, StepAccounts, FaultAccounts
  DEF Next
<1> QED
  BY <1>2, <1>3

\* However workers, producers, resets, crashes and expired leases interleave, a
\* demanded pair has an answer, a row at the article's revision, or a producer
\* that will still look at it: match_queue never loses work.
THEOREM PairsAreAccounted == Spec => []PairsAccounted
<1>1. Init => MatchInv
  <2> SUFFICES ASSUME Init PROVE MatchInv
    OBVIOUS
  <2>1. TypeOK
    BY TypeInit
  <2>2. RevisionBounds /\ PairsAccounted
    BY DEF Init, RevisionBounds, PairsAccounted
  <2> QED
    BY <2>1, <2>2 DEF MatchInv
<1>2. MatchInv => PairsAccounted
  BY DEF MatchInv
<1> QED
  BY <1>1, <1>2, MatchInvStep, PTL DEF Spec

-----------------------------------------------------------------------------
(* What a step may store and count                                         *)

\* An answer is written only by the two transactions that hold the fence.
LEMMA AnswersStep ==
  TypeOK /\ [Next]_vars =>
    \A c \in Cards : ans'[c] \notin {ans[c], None} => Current(ans'[c], rev', cfg')
<1> SUFFICES ASSUME TypeOK, [Next]_vars, NEW c \in Cards,
                    ans'[c] \notin {ans[c], None}
             PROVE  Current(ans'[c], rev', cfg')
  OBVIOUS
<1>1. ans \in [Cards -> Answers \cup {None}]
  BY DEF TypeOK
<1>2. ASSUME NEW x \in Cards, CacheFill(x) PROVE Current(ans'[c], rev', cfg')
  <2> DEFINE b == [rev |-> rev, cfg |-> cfg, eng |-> "primary"]
  <2>1. ans' = WriteAnswers({x}, b) /\ rev' = rev /\ cfg' = cfg
    BY <1>2 DEF CacheFill, store
  <2>2. b \in Answers
    BY DEF TypeOK, Answers
  <2>3. b.rev = rev /\ b.cfg = cfg
    OBVIOUS
  <2> HIDE DEF b
  <2>4. ans'[c] = b
    BY <1>1, <2>1, <2>2, WrittenAnswers
  <2> QED
    BY <2>1, <2>3, <2>4 DEF Current
<1>3. ASSUME NEW w \in Workers, Answered(w) PROVE Current(ans'[c], rev', cfg')
  <2>1. PICK e \in {"llm", "primary"}, got \in SUBSET job[w].ask : ApplyPack(w, e, got)
    BY <1>3 DEF Answered
  <2> DEFINE b == [rev |-> job[w].rev, cfg |-> job[w].cfg, eng |-> e]
             done == Mine(w, job[w].ask) \cap demand \cap got
  <2>2. ans' = WriteAnswers(done, b)
    BY <2>1, Zenon DEF ApplyPack
  <2>3. /\ job[w].rev = rev /\ job[w].cfg = cfg
        /\ rev' = rev /\ cfg' = cfg
    BY <2>1 DEF ApplyPack, RevisionHolds, ConfigHolds, store
  <2>4. b \in Answers /\ b.rev = rev /\ b.cfg = cfg
    BY <2>3, JobAnswer
  <2> HIDE DEF b, done
  <2>5. ans'[c] = b
    BY <1>1, <2>2, <2>4, WrittenAnswers
  <2> QED
    BY <2>3, <2>4, <2>5 DEF Current
<1>4. CASE Reset
  BY <1>4 DEF Reset
<1>5. ASSUME ans' = ans PROVE FALSE
  BY <1>5
<1>6. CASE UNCHANGED vars
  BY <1>5, <1>6 DEF vars
<1>7. CASE Producer
  BY <1>5, <1>7 DEF Producer, Enrich, WritePlan, Recover, BackfillRead, RematchRead,
     RescoreRead
<1>8. CASE Environment
  BY <1>2, <1>4, <1>5, <1>8
  DEF Environment, ChangeConfig, GainDemand, LoseDemand, Ripen, Lapse, Expire
<1>9. ASSUME NEW w \in Workers, Fault(w) PROVE FALSE
  BY <1>5, <1>9 DEF Fault, Crash, Drain, Overrun
<1>10. ASSUME NEW w \in Workers, Step(w) PROVE Current(ans'[c], rev', cfg')
  <2>1. ASSUME Prepare(w) PROVE ans' = ans
    BY <2>1, Zenon DEF Prepare, Outdated
  <2>2. ASSUME Refused(w) PROVE ans' = ans
    BY <2>2, Zenon DEF Refused, FailPack, Revoked
  <2> QED
    BY <1>3, <1>5, <1>10, <2>1, <2>2
    DEF Step, Claim, GiveBack, AskPack, Discard, OutdatedReply, Outdated, Stop, Finish
<1> QED
  BY <1>6, <1>7, <1>8, <1>9, <1>10 DEF Next

\* An answer that arrives after a reset or a change of the settings is never
\* stored (D-84).
THEOREM AnswersAreFenced == Spec => AnswersFenced
  BY TypeCorrect, AnswersStep, PTL DEF Spec, AnswersFenced

\* A failed attempt is counted only in the two transactions that end a call.
LEMMA FailuresStep ==
  TypeOK /\ [Next]_vars =>
    \A c \in Cards :
      (row[c] # None /\ row'[c] # None /\ row'[c].att > row[c].att)
        => \E w \in Workers : /\ c \in job[w].ask \cap Leased(w)
                              /\ job[w].rev = rev
                              /\ job[w].cfg = cfg
<1> SUFFICES ASSUME TypeOK, [Next]_vars, NEW c \in Cards,
                    row[c] # None, row'[c] # None, row'[c].att > row[c].att
             PROVE  \E w \in Workers : /\ c \in job[w].ask \cap Leased(w)
                                       /\ job[w].rev = rev
                                       /\ job[w].cfg = cfg
  OBVIOUS
<1>1. row \in Queue /\ row[c].att \in Nat /\ row'[c].att \in Nat
  <2>1. TypeOK'
    BY TypeStep
  <2> QED
    BY <2>1, BoundsAssumption DEF TypeOK, Queue, Rows
<1>2. ASSUME NotFailed(row, row') PROVE FALSE
  BY <1>1, <1>2 DEF NotFailed
<1>3. ASSUME NEW w \in Workers, RevisionHolds(w), ConfigHolds(w),
             c \in job[w].ask \cap Leased(w)
      PROVE  \E x \in Workers : /\ c \in job[x].ask \cap Leased(x)
                                /\ job[x].rev = rev
                                /\ job[x].cfg = cfg
  BY <1>3 DEF RevisionHolds, ConfigHolds
<1>4. ASSUME NEW w \in Workers, NEW e, NEW got, ApplyPack(w, e, got)
      PROVE  RevisionHolds(w) /\ ConfigHolds(w) /\ c \in job[w].ask \cap Leased(w)
  <2> DEFINE mine == Mine(w, job[w].ask)
             failed == (mine \cap demand) \ got
             gone == (mine \cap demand \cap got) \cup (mine \ demand)
  <2>1. row' = Renew(w, gone, failed, Failed) /\ RevisionHolds(w) /\ ConfigHolds(w)
    BY <1>4, Zenon DEF ApplyPack
  <2>2. failed \subseteq job[w].ask \cap Leased(w)
    BY MineIsLeased
  <2> HIDE DEF gone, failed
  <2>3. row'[c] = IF c \in gone THEN None
                  ELSE IF c \in failed THEN Failed(row[c])
                  ELSE IF c \in Leased(w) THEN [row[c] EXCEPT !.live = TRUE]
                  ELSE row[c]
    BY <2>1, Zenon DEF Renew
  <2>4. ASSUME c \notin failed PROVE FALSE
    <3> DEFINE r == [row[c] EXCEPT !.live = TRUE]
    <3>1. row'[c] = r \/ row'[c] = row[c]
      BY <2>3, <2>4, Zenon
    <3>2. row[c] \in Rows /\ None \in Owners /\ TRUE \in BOOLEAN
      BY <1>1 DEF Queue, Owners
    <3>3. r.att = row[c].att
      BY <3>2, LeaseFacts, Zenon
    <3> HIDE DEF r
    <3> QED
      BY <1>1, <3>1, <3>3
  <2> QED
    BY <2>1, <2>2, <2>4
<1>5. ASSUME NEW w \in Workers, FailPack(w, Failed) \/ FailPack(w, Exhausted)
      PROVE  RevisionHolds(w) /\ ConfigHolds(w) /\ c \in job[w].ask \cap Leased(w)
  <2>1. RevisionHolds(w) /\ ConfigHolds(w)
    BY <1>5, Zenon DEF FailPack
  <2>2. \/ row' = Release(w, job[w].ask, Failed)
        \/ row' = Release(w, job[w].ask, Exhausted)
    BY <1>5, Zenon DEF FailPack
  <2>3. ASSUME c \notin job[w].ask \cap Leased(w) PROVE row'[c] = row[c]
    BY <2>2, <2>3, Zenon DEF Release
  <2> QED
    BY <1>1, <2>1, <2>3
<1>6. CASE UNCHANGED vars
  BY <1>1, <1>2, <1>6, SameQueue DEF vars
<1>7. CASE Producer
  <2>1. ASSUME NEW x \in Cards, BackfillRead(x) \/ RematchRead(x) \/ RescoreRead(x)
        PROVE  FALSE
    BY <1>1, <1>2, <2>1, SameQueue DEF BackfillRead, RematchRead, RescoreRead
  <2> QED
    BY <1>2, <1>7, <2>1, EnrichQueue, WritePlanQueue, RecoverQueue DEF Producer
<1>8. CASE Environment
  <2>1. ASSUME Reset PROVE FALSE
    BY <1>1, <2>1, ResetQueue
  <2>2. ASSUME NEW x \in Cards,
               \/ ChangeConfig \/ GainDemand(x) \/ LoseDemand(x) \/ CacheFill(x)
        PROVE  FALSE
    BY <1>1, <1>2, <2>2, SameQueue DEF ChangeConfig, GainDemand, LoseDemand, CacheFill
  <2>3. ASSUME NEW x \in Cards, Ripen(x) \/ Lapse(x) PROVE FALSE
    BY <1>2, <2>3, TimeQueue
  <2>4. ASSUME NEW w \in Workers, Expire(w) PROVE FALSE
    BY <1>2, <2>4, ExpireQueue
  <2> QED
    BY <1>8, <2>1, <2>2, <2>3, <2>4 DEF Environment
<1>9. ASSUME NEW w \in Workers, Fault(w) PROVE FALSE
  BY <1>1, <1>2, <1>9, EndQueue, DrainQueue, SameQueue DEF Fault, Crash, Overrun
<1>10. ASSUME NEW w \in Workers, Step(w)
       PROVE  \E x \in Workers : /\ c \in job[x].ask \cap Leased(x)
                                 /\ job[x].rev = rev
                                 /\ job[x].cfg = cfg
  <2>1. CASE Answered(w)
    BY <1>3, <1>4, <2>1 DEF Answered
  <2>2. CASE Refused(w)
    <3>1. CASE FailPack(w, Deferred) \/ Revoked(w)
      BY <1>2, <3>1, DeferPackQueue, RevokedQueue
    <3>2. CASE FailPack(w, Failed) \/ FailPack(w, Exhausted)
      BY <1>3, <1>5, <3>2
    <3> QED
      BY <2>2, <3>1, <3>2 DEF Refused
  <2>3. ASSUME Discard(w) PROVE FALSE
    BY <1>1, <1>2, <2>3, SameQueue DEF Discard
  <2>4. ASSUME OutdatedReply(w) PROVE FALSE
    <3>1. Outdated(w, {})
      BY <2>4 DEF OutdatedReply
    <3> QED
      BY <1>2, <3>1, OutdatedQueue
  <2>5. ASSUME Finish(w) PROVE FALSE
    BY <1>2, <2>5, EndQueue DEF Finish
  <2>6. ASSUME NEW P, AskPack(w, P) PROVE FALSE
    BY <1>2, <2>6, AskPackQueue
  <2>7. ASSUME Claim(w) \/ GiveBack(w) \/ Prepare(w) \/ Stop(w) PROVE FALSE
    BY <1>2, <2>7, ClaimQueue, GiveBackQueue, PrepareQueue, StopQueue
  <2> QED
    BY <1>10, <2>1, <2>2, <2>3, <2>4, <2>5, <2>6, <2>7 DEF Step
<1> QED
  BY <1>6, <1>7, <1>8, <1>9, <1>10 DEF Next

\* A pair's attempts are used up only by calls asked for it under the settings
\* in force, by the worker that holds its lease (D-85).
THEOREM FailuresAreHonest == Spec => FailuresHonest
  BY TypeCorrect, FailuresStep, PTL DEF Spec, FailuresHonest

\* The write guard, once: an answer of the same input is replaced by an equal one.
LEMMA PrimaryWritten ==
  ASSUME TypeOK, NEW c \in Cards, NEW C, NEW e \in {"llm", "primary"},
         Satisfied(c, rev, cfg),
         ans' = WriteAnswers(C, [rev |-> rev, cfg |-> cfg, eng |-> e])
  PROVE  ans'[c] = ans[c]
<1> DEFINE b == [rev |-> rev, cfg |-> cfg, eng |-> e]
<1>1. /\ ans[c] \in Answers /\ ans[c] # None
      /\ ans[c].rev = rev /\ ans[c].cfg = cfg /\ ans[c].eng = "primary"
  BY DEF Satisfied, Current, TypeOK
<1>2. ans'[c] = IF c \in C /\ Writable(ans[c], b) THEN b ELSE ans[c]
  BY DEF WriteAnswers
<1>3. rev \in Nat
  BY BoundsAssumption DEF TypeOK
<1>4. ASSUME Writable(ans[c], b) PROVE b.eng = "primary"
  BY <1>1, <1>3, <1>4 DEF Writable
<1>5. ASSUME b.eng = "primary" PROVE b = ans[c]
  <2>1. ans[c] = [rev |-> ans[c].rev, cfg |-> ans[c].cfg, eng |-> ans[c].eng]
    BY <1>1 DEF Answers
  <2>2. e = "primary"
    BY <1>5
  <2> QED
    BY <1>1, <2>1, <2>2
<1> QED
  BY <1>2, <1>4, <1>5

LEMMA PrimaryStep ==
  TypeOK /\ [Next]_vars =>
    \A c \in Cards : Satisfied(c, rev, cfg) /\ rev' = rev => ans'[c] = ans[c]
<1> SUFFICES ASSUME TypeOK, [Next]_vars, NEW c \in Cards,
                    Satisfied(c, rev, cfg), rev' = rev
             PROVE  ans'[c] = ans[c]
  OBVIOUS
<1>1. ASSUME NEW x \in Cards, CacheFill(x) PROVE ans'[c] = ans[c]
  BY <1>1, PrimaryWritten DEF CacheFill
<1>2. ASSUME NEW w \in Workers, Answered(w) PROVE ans'[c] = ans[c]
  <2>1. PICK e \in {"llm", "primary"}, got \in SUBSET job[w].ask : ApplyPack(w, e, got)
    BY <1>2 DEF Answered
  <2> DEFINE done == Mine(w, job[w].ask) \cap demand \cap got
  <2>2. ans' = WriteAnswers(done, [rev |-> job[w].rev, cfg |-> job[w].cfg, eng |-> e])
    BY <2>1, Zenon DEF ApplyPack
  <2>3. job[w].rev = rev /\ job[w].cfg = cfg
    BY <2>1 DEF ApplyPack, RevisionHolds, ConfigHolds
  <2> HIDE DEF done
  <2> QED
    BY <2>2, <2>3, PrimaryWritten
<1>3. ASSUME Reset PROVE FALSE
  <2>1. rev' = rev + 1 /\ rev \in Nat
    BY <1>3, BoundsAssumption DEF Reset, TypeOK
  <2> QED
    BY <2>1
<1>4. CASE ans' = ans
  BY <1>4
<1>5. CASE UNCHANGED vars
  BY <1>4, <1>5 DEF vars
<1>6. CASE Producer
  BY <1>4, <1>6 DEF Producer, Enrich, WritePlan, Recover, BackfillRead, RematchRead,
     RescoreRead
<1>7. CASE Environment
  BY <1>1, <1>3, <1>4, <1>7
  DEF Environment, ChangeConfig, GainDemand, LoseDemand, Ripen, Lapse, Expire
<1>8. ASSUME NEW w \in Workers, Fault(w) PROVE ans'[c] = ans[c]
  BY <1>4, <1>8 DEF Fault, Crash, Drain, Overrun
<1>9. ASSUME NEW w \in Workers, Step(w) PROVE ans'[c] = ans[c]
  <2>1. ASSUME Prepare(w) PROVE ans' = ans
    BY <2>1, Zenon DEF Prepare, Outdated
  <2>2. ASSUME Refused(w) PROVE ans' = ans
    BY <2>2, Zenon DEF Refused, FailPack, Revoked
  <2> QED
    BY <1>2, <1>4, <1>9, <2>1, <2>2
    DEF Step, Claim, GiveBack, AskPack, Discard, OutdatedReply, Outdated, Stop, Finish
<1> QED
  BY <1>5, <1>6, <1>7, <1>8, <1>9 DEF Next

\* A current answer of the primary engine stays until the article or the
\* settings change, whatever fallback answers arrive after it.
THEOREM PrimaryIsKept == Spec => PrimaryKept
  BY TypeCorrect, PrimaryStep, PTL DEF Spec, PrimaryKept

-----------------------------------------------------------------------------
(* Leases.  The invariant adds that a leased row is at the article's       *)
(* revision, so that no producer's upsert takes it for an older one.       *)

LeasesCurrent ==
  \A c \in Cards : row[c] # None /\ row[c].own # None => row[c].rev = rev

LeaseInv == MatchInv /\ LeasesCurrent

\* What a worker's step may change: the rows of its own lease.
LeftOthers(w, new) == \A c \in Cards \ Leased(w) : new[c] = row[c]

LEMMA ReleaseLeaves ==
  ASSUME NEW w \in Workers, NEW C
  PROVE  /\ LeftOthers(w, Release(w, C, Released))
         /\ LeftOthers(w, Release(w, C, Deferred))
         /\ LeftOthers(w, Release(w, C, Failed))
         /\ LeftOthers(w, Release(w, C, Exhausted))
<1>1. LeftOthers(w, Release(w, C, Released))
  BY DEF LeftOthers, Release
<1>2. LeftOthers(w, Release(w, C, Deferred))
  BY DEF LeftOthers, Release
<1>3. LeftOthers(w, Release(w, C, Failed))
  BY DEF LeftOthers, Release
<1>4. LeftOthers(w, Release(w, C, Exhausted))
  BY DEF LeftOthers, Release
<1> QED
  BY <1>1, <1>2, <1>3, <1>4

LEMMA RenewLeaves ==
  ASSUME NEW w \in Workers,
         NEW gone \in SUBSET Leased(w), NEW C \in SUBSET Leased(w)
  PROVE  /\ LeftOthers(w, Renew(w, gone, C, Released))
         /\ LeftOthers(w, Renew(w, gone, C, Failed))
<1>1. LeftOthers(w, Renew(w, gone, C, Released))
  BY DEF LeftOthers, Renew
<1>2. LeftOthers(w, Renew(w, gone, C, Failed))
  BY DEF LeftOthers, Renew
<1> QED
  BY <1>1, <1>2

LEMMA OrphanedLeaves ==
  ASSUME NEW w \in Workers, NEW new, LeftOthers(w, new)
  PROVE  LeftOthers(w, Orphaned(new, w))
<1>1. ASSUME NEW c \in Cards \ Leased(w)
      PROVE  Orphaned(new, w)[c] = row[c]
  <2>1. new[c] = row[c] /\ ~ (row[c] # None /\ row[c].own = w)
    BY DEF LeftOthers, Leased
  <2>2. Orphaned(new, w)[c] = IF new[c] # None /\ new[c].own = w
                              THEN [new[c] EXCEPT !.own = Orphan] ELSE new[c]
    BY Zenon DEF Orphaned
  <2> QED
    BY <2>1, <2>2, Zenon
<1> QED
  BY <1>1 DEF LeftOthers

LEMMA OutdatedLeaves ==
  ASSUME NEW w \in Workers, NEW gone \in SUBSET Leased(w), Outdated(w, gone)
  PROVE  LeftOthers(w, row')
<1> DEFINE back == Release(w, job[w].held, Released)
           left == [c \in Cards |-> IF c \in gone THEN None ELSE back[c]]
<1>1. LeftOthers(w, back)
  BY ReleaseLeaves
<1>2. row' = Orphaned(left, w)
  BY Zenon DEF Outdated
<1> HIDE DEF back
<1>3. LeftOthers(w, left)
  BY <1>1 DEF LeftOthers
<1> HIDE DEF left
<1> QED
  BY <1>2, <1>3, OrphanedLeaves

\* Only a claim changes a row that its worker has not leased.
LEMMA StepLeaves ==
  ASSUME NEW w \in Workers, Step(w) \/ Fault(w)
  PROVE  Claim(w) \/ LeftOthers(w, row')
<1>1. ASSUME row' = row PROVE LeftOthers(w, row')
  BY <1>1 DEF LeftOthers
<1>2. ASSUME row' = Orphaned(row, w) PROVE LeftOthers(w, row')
  <2>1. LeftOthers(w, row)
    BY DEF LeftOthers
  <2> QED
    BY <1>2, <2>1, OrphanedLeaves
<1>3. ASSUME GiveBack(w) PROVE LeftOthers(w, row')
  BY <1>3, ReleaseLeaves, OrphanedLeaves, Zenon DEF GiveBack
<1>4. ASSUME Prepare(w) PROVE LeftOthers(w, row')
  <2> DEFINE mine == Mine(w, job[w].held)
             undemanded == mine \ demand
             sated == {c \in mine \cap demand : Satisfied(c, job[w].rev, job[w].cfg)}
             gone == undemanded \cup sated
  <2>1. Outdated(w, undemanded) \/ row' = Renew(w, gone, {}, Released)
    BY <1>4, Zenon DEF Prepare
  <2>2. undemanded \in SUBSET Leased(w) /\ gone \in SUBSET Leased(w)
    BY MineIsLeased
  <2> HIDE DEF undemanded, gone
  <2> QED
    BY <2>1, <2>2, OutdatedLeaves, RenewLeaves
<1>5. ASSUME NEW P, AskPack(w, P) PROVE LeftOthers(w, row')
  <2> DEFINE gone == Mine(w, P \cap job[w].held) \ demand
  <2>1. row' = row \/ row' = Renew(w, gone, {}, Released)
    BY <1>5, Zenon DEF AskPack
  <2>2. gone \in SUBSET Leased(w)
    BY MineIsLeased
  <2> HIDE DEF gone
  <2> QED
    BY <1>1, <2>1, <2>2, RenewLeaves
<1>6. ASSUME NEW e, NEW got, ApplyPack(w, e, got) PROVE LeftOthers(w, row')
  <2> DEFINE mine == Mine(w, job[w].ask)
             failed == (mine \cap demand) \ got
             gone == (mine \cap demand \cap got) \cup (mine \ demand)
  <2>1. row' = Renew(w, gone, failed, Failed)
    BY <1>6, Zenon DEF ApplyPack
  <2>2. gone \in SUBSET Leased(w) /\ failed \in SUBSET Leased(w)
    BY MineIsLeased
  <2> HIDE DEF gone, failed
  <2> QED
    BY <2>1, <2>2, RenewLeaves
<1>7. ASSUME Refused(w) PROVE LeftOthers(w, row')
  <2> DEFINE mine == Mine(w, job[w].ask)
             gone == mine \ demand
             back == mine \cap demand
  <2>1. \/ row' = Release(w, job[w].ask, Deferred)
        \/ row' = Release(w, job[w].ask, Failed)
        \/ row' = Release(w, job[w].ask, Exhausted)
        \/ row' = Renew(w, gone, back, Released)
    BY <1>7, Zenon DEF Refused, FailPack, Revoked
  <2>2. gone \in SUBSET Leased(w) /\ back \in SUBSET Leased(w)
    BY MineIsLeased
  <2> HIDE DEF gone, back
  <2> QED
    BY <2>1, <2>2, ReleaseLeaves, RenewLeaves
<1>8. ASSUME OutdatedReply(w) PROVE LeftOthers(w, row')
  BY <1>8, OutdatedLeaves DEF OutdatedReply
<1>9. ASSUME Stop(w) PROVE LeftOthers(w, row')
  BY <1>1, <1>9, ReleaseLeaves, Zenon DEF Stop
<1>10. ASSUME Drain(w) PROVE LeftOthers(w, row')
  BY <1>10, ReleaseLeaves, Zenon DEF Drain
<1>11. CASE Step(w)
  BY <1>1, <1>2, <1>3, <1>4, <1>5, <1>6, <1>7, <1>8, <1>9, <1>11
  DEF Step, Discard, Answered, Finish
<1>12. CASE Fault(w)
  BY <1>1, <1>2, <1>10, <1>12 DEF Fault, Crash, Overrun
<1> QED
  BY <1>11, <1>12

\* Every step of a worker and every end of its job changes what it is doing.
LEMMA JobMoves ==
  ASSUME TypeOK, NEW w \in Workers, Step(w) \/ Crash(w) \/ Drain(w)
  PROVE  job'[w] # job[w]
<1>1. /\ job \in [Workers -> Jobs]
      /\ job[w] \in Jobs
      /\ job[w].todo \in SUBSET Cards
      /\ job[w].lost \in BOOLEAN
  BY JobFields DEF TypeOK
<1>2. ASSUME NEW j, job' = [job EXCEPT ![w] = j] PROVE job'[w] = j
  BY <1>1, <1>2
<1>3. ASSUME job[w].pc # "idle", Ended(w) PROVE job'[w] # job[w]
  <2>1. job'[w] = Idle
    BY <1>2, <1>3 DEF Ended
  <2>2. Idle.pc = "idle"
    BY DEF Idle
  <2> QED
    BY <1>3, <2>1, <2>2
<1>4. ASSUME Claim(w) PROVE job'[w] # job[w]
  <2>1. PICK C \in SUBSET {c \in Cards : Claimable(c)} :
          job' = [job EXCEPT ![w] = [Idle EXCEPT !.pc = "claimed", !.rev = rev,
                                                 !.cfg = cfg, !.held = C]]
    BY <1>4, Zenon DEF Claim
  <2>2. [Idle EXCEPT !.pc = "claimed", !.rev = rev, !.cfg = cfg, !.held = C].pc
          = "claimed"
    BY Zenon DEF Idle
  <2>3. job[w].pc = "idle"
    BY <1>4 DEF Claim
  <2>4. job'[w] = [Idle EXCEPT !.pc = "claimed", !.rev = rev, !.cfg = cfg, !.held = C]
    BY <1>2, <2>1, Zenon
  <2> QED
    BY <2>2, <2>3, <2>4, Zenon
<1>5. ASSUME Prepare(w) PROVE job'[w] # job[w]
  <2> DEFINE mine == Mine(w, job[w].held)
             sated == {c \in mine \cap demand : Satisfied(c, job[w].rev, job[w].cfg)}
             gone == (mine \ demand) \cup sated
             l == job[w].lost \/ (job[w].held # {} /\ Leased(w) = {})
             h == job[w].held \ gone
             t == mine \ gone
  <2>1. \/ Outdated(w, mine \ demand)
        \/ job' = [job EXCEPT ![w] = [job[w] EXCEPT !.pc = "packs", !.held = h,
                                                    !.todo = t, !.lost = l]]
    BY <1>5, Zenon DEF Prepare
  <2>2. job[w].pc = "claimed"
    BY <1>5 DEF Prepare
  <2> HIDE DEF l, h, t
  <2>3. CASE Outdated(w, mine \ demand)
    BY <1>3, <2>2, <2>3 DEF Outdated
  <2>4. [job[w] EXCEPT !.pc = "packs", !.held = h, !.todo = t, !.lost = l].pc = "packs"
    BY <1>1, Zenon DEF Jobs
  <2>5. CASE job' = [job EXCEPT ![w] = [job[w] EXCEPT !.pc = "packs", !.held = h,
                                                      !.todo = t, !.lost = l]]
    <3>1. job'[w] = [job[w] EXCEPT !.pc = "packs", !.held = h, !.todo = t, !.lost = l]
      BY <1>2, <2>5, Zenon
    <3> QED
      BY <2>2, <2>4, <3>1, Zenon
  <2> QED
    BY <2>1, <2>3, <2>5
<1>6. ASSUME NEW P \in SUBSET job[w].todo, AskPack(w, P) PROVE job'[w] # job[w]
  <2> DEFINE mine == Mine(w, P \cap job[w].held)
             p == IF mine \cap demand = {} THEN "more" ELSE "call"
             h == job[w].held \ (mine \ demand)
             t == job[w].todo \ P
             a == mine \cap demand
             lostJob == [job[w] EXCEPT !.lost = TRUE, !.todo = {}]
             askedJob == [job[w] EXCEPT !.pc = p, !.held = h, !.todo = t, !.ask = a]
  <2>1. job' = [job EXCEPT ![w] = lostJob] \/ job' = [job EXCEPT ![w] = askedJob]
    BY <1>6, Zenon DEF AskPack
  <2>2. ~ job[w].lost /\ P # {}
    BY <1>6 DEF AskPack
  <2>3. t # job[w].todo
    BY <2>2
  <2> HIDE DEF p, h, t, a
  <2>4. lostJob.lost = TRUE
    BY <1>1, Zenon DEF Jobs
  <2>5. askedJob.todo = t
    BY <1>1, Zenon DEF Jobs
  <2> HIDE DEF lostJob, askedJob
  <2>6. job'[w] \in {lostJob, askedJob}
    BY <1>2, <2>1
  <2> QED
    BY <2>2, <2>3, <2>4, <2>5, <2>6
<1>7. ASSUME Discard(w) PROVE job'[w] # job[w]
  <2>1. [job[w] EXCEPT !.pc = "more", !.ask = {}].pc = "more"
    BY <1>1, Zenon DEF Jobs
  <2>2. job[w].pc = "call" /\ job'[w] = [job[w] EXCEPT !.pc = "more", !.ask = {}]
    BY <1>2, <1>7, Zenon DEF Discard
  <2> QED
    BY <2>1, <2>2, Zenon
<1>8. ASSUME NEW h, NEW l, job[w].pc = "call",
             job' = [job EXCEPT ![w] = [job[w] EXCEPT !.pc = "more", !.ask = {},
                                                      !.held = h, !.lost = l]]
      PROVE  job'[w] # job[w]
  <2>1. [job[w] EXCEPT !.pc = "more", !.ask = {}, !.held = h, !.lost = l].pc = "more"
    BY <1>1, Zenon DEF Jobs
  <2>2. job'[w] = [job[w] EXCEPT !.pc = "more", !.ask = {}, !.held = h, !.lost = l]
    BY <1>2, <1>8, Zenon
  <2> QED
    BY <1>8, <2>1, <2>2, Zenon
<1>9. ASSUME NEW e, NEW got, ApplyPack(w, e, got) PROVE job'[w] # job[w]
  <2> DEFINE mine == Mine(w, job[w].ask)
             h == job[w].held \ (((mine \cap demand \cap got) \cup (mine \ demand))
                                    \cup ((mine \cap demand) \ got))
             l == job[w].lost \/ Leased(w) = {}
  <2>1. job' = [job EXCEPT ![w] = [job[w] EXCEPT !.pc = "more", !.ask = {},
                                                 !.held = h, !.lost = l]]
    BY <1>9, Zenon DEF ApplyPack
  <2>2. job[w].pc = "call"
    BY <1>9, Zenon DEF ApplyPack
  <2> HIDE DEF h, l
  <2> QED
    BY <1>8, <2>1, <2>2, Zenon
<1>10. ASSUME Refused(w) PROVE job'[w] # job[w]
  <2> DEFINE h == job[w].held \ job[w].ask
             g == job[w].held \ Mine(w, job[w].ask)
             l == job[w].lost \/ Leased(w) = {}
             failedJob == [job[w] EXCEPT !.pc = "more", !.ask = {}, !.held = h]
  <2>1. \/ job' = [job EXCEPT ![w] = failedJob]
        \/ job' = [job EXCEPT ![w] = [job[w] EXCEPT !.pc = "more", !.ask = {},
                                                    !.held = g, !.lost = l]]
    BY <1>10, Zenon DEF Refused, FailPack, Revoked
  <2>2. job[w].pc = "call"
    BY <1>10, Zenon DEF Refused, FailPack, Revoked
  <2> HIDE DEF h, g, l
  <2>3. failedJob.pc = "more"
    BY <1>1, Zenon DEF Jobs
  <2>4. CASE job' = [job EXCEPT ![w] = failedJob]
    <3>1. job'[w] = failedJob
      BY <1>2, <2>4, Zenon
    <3> QED
      BY <2>2, <2>3, <3>1, Zenon
  <2> QED
    BY <1>8, <2>1, <2>2, <2>4, Zenon
<1>11. ASSUME Stop(w) PROVE job'[w] # job[w]
  <2> DEFINE h == IF job[w].lost THEN job[w].held ELSE {}
             done == [job[w] EXCEPT !.pc = "finish", !.held = h]
  <2>1. job' = [job EXCEPT ![w] = done]
    BY <1>11, Zenon DEF Stop
  <2>2. job[w].pc \in {"more", "packs"}
    BY <1>11, Zenon DEF Stop
  <2> HIDE DEF h
  <2>3. done.pc = "finish"
    BY <1>1, Zenon DEF Jobs
  <2>4. job'[w] = done
    BY <1>2, <2>1, Zenon
  <2> HIDE DEF done
  <2> QED
    BY <2>2, <2>3, <2>4
<1>12. CASE GiveBack(w) \/ OutdatedReply(w) \/ Finish(w) \/ Crash(w) \/ Drain(w)
  BY <1>3, <1>12, Zenon DEF GiveBack, OutdatedReply, Outdated, Finish, Crash, Drain
<1> QED
  BY <1>4, <1>5, <1>6, <1>7, <1>9, <1>10, <1>11, <1>12 DEF Step, Answered

\* What a step must do to keep the leases at the article's revision.
LEMMA LeasesKept ==
  ASSUME TypeOK, LeasesCurrent, QueueKept, rev' = rev,
         \A c \in Cards : \/ row'[c] = row[c]
                          \/ row[c] # None /\ row[c].own # None
                          \/ row[c] # None /\ row[c].rev = rev
                          \/ row'[c] # None /\ row'[c].own = None
  PROVE  LeasesCurrent'
<1>1. PICK gone : RowsLeft(gone, row, row')
  BY DEF QueueKept
<1>2. ASSUME NEW c \in Cards, row'[c] # None, row'[c].own # None
      PROVE  row'[c].rev = rev
  <2>1. row[c] # None /\ row'[c].rev = row[c].rev
    BY <1>1, <1>2 DEF RowsLeft
  <2>2. row[c].rev = rev
    BY <1>2, <2>1 DEF LeasesCurrent
  <2> QED
    BY <2>1, <2>2
<1> QED
  BY <1>2 DEF LeasesCurrent

\* A row that starts afresh is nobody's; one at the article's revision does not.
LEMMA UpsertLeaves ==
  ASSUME NEW r \in Rows \cup {None}, NEW v \in 1..MaxRev
  PROVE  /\ Upsert(r, v) = r \/ Upsert(r, v).own = None
         /\ r # None /\ r.rev >= v => Upsert(r, v) = r
<1>1. NewRow(v).own = None
  BY DEF NewRow
<1>2. r # None => r.rev \in Nat
  BY BoundsAssumption DEF Rows
<1>3. v \in Nat
  BY BoundsAssumption
<1>4. Upsert(r, v) = IF r = None THEN NewRow(v)
                     ELSE IF r.rev < v THEN NewRow(v) ELSE r
  BY DEF Upsert
<1> QED
  BY <1>1, <1>2, <1>3, <1>4

LEMMA RevivedOwn ==
  ASSUME NEW r \in Rows
  PROVE  Revived(Released(r)).own = None
<1> DEFINE q == Released(r)
<1>1. q \in Rows
  BY ReleasedFacts
<1>2. q.own = None
  BY Zenon DEF Released, Rows
<1> HIDE DEF q
<1>3. [q EXCEPT !.att = 0, !.ripe = TRUE, !.bad = FALSE].own = q.own
  BY <1>1, Zenon DEF Rows
<1>4. Revived(q).own = None
  BY <1>2, <1>3, Zenon DEF Revived
<1> QED
  BY <1>4, Zenon DEF q

\* A producer's transaction starts a row afresh or leaves it, and never takes
\* one under a running lease.
LEMMA WritePlanLeaves ==
  ASSUME LeaseInv, WritePlan, NEW c \in Cards
  PROVE  /\ row'[c] = row[c] \/ row'[c].own = None
         /\ row[c] # None /\ row[c].own # None /\ row[c].live => row'[c] = row[c]
<1> DEFINE p == plan.card
           r == IF Revivable(p) THEN Revived(Released(row[p]))
                ELSE Upsert(row[p], plan.rev)
<1>1. plan # None /\ p \in Cards /\ plan.rev \in 1..MaxRev
  <2>1. plan # None
    BY DEF WritePlan
  <2> QED
    BY <2>1, PlanFields DEF LeaseInv, MatchInv
<1>2. row \in Queue /\ row[p] \in Rows \cup {None}
  BY <1>1 DEF LeaseInv, MatchInv, TypeOK, Queue
<1>3. row' = row \/ row' = [row EXCEPT ![p] = r]
  BY DEF WritePlan
<1>4. ASSUME Revivable(p)
      PROVE  r.own = None /\ ~ (row[p] # None /\ row[p].live)
  <2>1. row[p] \in Rows /\ ~ row[p].live
    BY <1>2, <1>4 DEF Revivable
  <2>2. r = Revived(Released(row[p]))
    BY <1>4
  <2> HIDE DEF r, p
  <2> QED
    BY <2>1, <2>2, RevivedOwn
<1>5. ASSUME ~ Revivable(p)
      PROVE  /\ r = row[p] \/ r.own = None
             /\ row[p] # None /\ row[p].own # None => r = row[p]
  <2>1. r = Upsert(row[p], plan.rev)
    BY <1>5
  <2>2. /\ Upsert(row[p], plan.rev) = row[p] \/ Upsert(row[p], plan.rev).own = None
        /\ row[p] # None /\ row[p].rev >= plan.rev
             => Upsert(row[p], plan.rev) = row[p]
    BY <1>1, <1>2, UpsertLeaves
  <2>3. row[p] # None /\ row[p].own # None => row[p].rev >= plan.rev
    <3>1. rev \in Nat /\ plan.rev \in Nat /\ plan.rev <= rev
      BY <1>1, BoundsAssumption DEF LeaseInv, MatchInv, RevisionBounds, TypeOK
    <3> QED
      BY <1>1, <3>1 DEF LeaseInv, LeasesCurrent
  <2> HIDE DEF r, p
  <2> QED
    BY <2>1, <2>2, <2>3
<1>6. /\ r = row[p] \/ r.own = None
      /\ row[p] # None /\ row[p].own # None /\ row[p].live => r = row[p]
  BY <1>4, <1>5
<1> HIDE DEF r, p
<1> QED
  BY <1>1, <1>2, <1>3, <1>6 DEF Queue

LEMMA TimeLeaves ==
  ASSUME TypeOK, NEW x \in Cards, NEW c \in Cards, row'[c] # row[c]
  PROVE  /\ Ripen(x) => /\ row[c] # None
                        /\ row'[c] = [row[c] EXCEPT !.ripe = TRUE]
                        /\ row'[c].own = row[c].own
         /\ Lapse(x) => row[c] # None /\ row[c].own = Orphan
<1>1. row \in Queue
  BY DEF TypeOK, Queue
<1>2. ASSUME Ripen(x)
      PROVE  /\ row[c] # None
             /\ row'[c] = [row[c] EXCEPT !.ripe = TRUE]
             /\ row'[c].own = row[c].own
  <2> DEFINE r == [row[x] EXCEPT !.ripe = TRUE]
  <2>1. row' = [row EXCEPT ![x] = r] /\ row[x] # None
    BY <1>2 DEF Ripen
  <2>2. row[x] \in Rows
    BY <1>1, <2>1 DEF Queue
  <2>3. r.own = row[x].own
    BY <2>2, Zenon DEF Rows
  <2>4. c = x /\ row'[c] = r
    <3> HIDE DEF r
    <3> QED
      BY <1>1, <2>1 DEF Queue
  <2> QED
    BY <2>1, <2>3, <2>4, Zenon
<1>3. ASSUME Lapse(x) PROVE row[c] # None /\ row[c].own = Orphan
  <2> DEFINE r == [row[x] EXCEPT !.live = FALSE]
  <2>1. row' = [row EXCEPT ![x] = r] /\ row[x] # None /\ row[x].own = Orphan
    BY <1>3 DEF Lapse
  <2> HIDE DEF r
  <2> QED
    BY <1>1, <2>1 DEF Queue
<1> QED
  BY <1>2, <1>3

LEMMA ClaimLeaves ==
  ASSUME NEW w \in Workers, Claim(w), NEW c \in Cards, row'[c] # row[c]
  PROVE  Claimable(c)
<1>1. PICK C \in SUBSET {x \in Cards : Claimable(x)} :
        row' = [x \in Cards |->
                  IF x \in C THEN [row[x] EXCEPT !.own = w, !.live = TRUE]
                  ELSE row[x]]
  BY Zenon DEF Claim
<1>2. c \in C
  BY <1>1, Zenon
<1> QED
  BY <1>2

\* The queue as a worker's step leaves it, at the same revision.
LEMMA WorkerKeeps ==
  ASSUME TypeOK, NEW w \in Workers, Step(w) \/ Fault(w)
  PROVE  QueueKept /\ rev' = rev
<1>1. ASSUME row' = row PROVE QueueKept
  BY <1>1, SameQueue DEF TypeOK, Queue
<1>2. ASSUME row' = Orphaned(row, w) PROVE QueueKept
  BY <1>2, EndQueue
<1>3. rev' = rev
  <2>1. CASE Step(w)
    BY <2>1, Zenon DEF Step, Claim, GiveBack, Prepare, AskPack, Discard, OutdatedReply,
       Answered, ApplyPack, Refused, FailPack, Revoked, Stop, Finish, store
  <2>2. CASE Fault(w)
    BY <2>2, Zenon DEF Fault, Crash, Drain, Overrun, store
  <2> QED
    BY <2>1, <2>2
<1>4. ASSUME Answered(w) PROVE QueueKept
  BY <1>4, ApplyPackQueue DEF Answered
<1>5. ASSUME OutdatedReply(w) PROVE QueueKept
  BY <1>5, OutdatedQueue DEF OutdatedReply
<1>6. ASSUME Refused(w) PROVE QueueKept
  BY <1>6, DeferPackQueue, FailPackQueue, ExhaustPackQueue, RevokedQueue DEF Refused
<1>7. ASSUME NEW P, AskPack(w, P) PROVE QueueKept
  BY <1>7, AskPackQueue
<1>8. ASSUME Claim(w) \/ GiveBack(w) \/ Prepare(w) \/ Stop(w) PROVE QueueKept
  BY <1>8, ClaimQueue, GiveBackQueue, PrepareQueue, StopQueue
<1>9. ASSUME Discard(w) \/ Finish(w) PROVE QueueKept
  <2>1. row' = row \/ row' = Orphaned(row, w)
    BY <1>9, Zenon DEF Discard, Finish
  <2> QED
    BY <1>1, <1>2, <2>1
<1>10. CASE Step(w)
  BY <1>3, <1>4, <1>5, <1>6, <1>7, <1>8, <1>9, <1>10 DEF Step
<1>11. ASSUME Drain(w) PROVE QueueKept
  BY <1>11, DrainQueue
<1>12. CASE Fault(w)
  <2>1. row' = row \/ row' = Orphaned(row, w) \/ Drain(w)
    BY <1>12, Zenon DEF Fault, Crash, Overrun
  <2> QED
    BY <1>1, <1>2, <1>3, <1>11, <2>1
<1> QED
  BY <1>10, <1>12

LEMMA LeaseInvStep == LeaseInv /\ [Next]_vars => LeaseInv'
<1> SUFFICES ASSUME LeaseInv, [Next]_vars PROVE LeaseInv'
  OBVIOUS
<1>1. MatchInv' /\ TypeOK /\ LeasesCurrent
  BY MatchInvStep DEF LeaseInv, MatchInv
<1>2. row \in Queue
  BY <1>1 DEF TypeOK, Queue
<1>3. ASSUME row' = row, rev' = rev PROVE LeasesCurrent'
  BY <1>1, <1>3 DEF LeasesCurrent
<1>4. CASE UNCHANGED vars
  BY <1>1, <1>3, <1>4 DEF LeaseInv, vars
<1>5. ASSUME NEW w \in Workers, Step(w) \/ Fault(w) PROVE LeasesCurrent'
  <2>1. QueueKept /\ rev' = rev
    BY <1>1, <1>5, WorkerKeeps
  <2>2. ASSUME NEW c \in Cards
        PROVE  \/ row'[c] = row[c]
               \/ row[c] # None /\ row[c].own # None
               \/ row[c] # None /\ row[c].rev = rev
    <3>1. CASE Claim(w)
      BY <3>1, ClaimLeaves DEF Claimable
    <3>2. CASE LeftOthers(w, row')
      BY <3>2, NamesAssumption DEF LeftOthers, Leased
    <3> QED
      BY <1>5, <3>1, <3>2, StepLeaves
  <2> QED
    BY <1>1, <2>1, <2>2, LeasesKept
<1>6. ASSUME Enrich PROVE LeasesCurrent'
  <2>1. \A c \in Cards : row'[c] = row[c] \/ row'[c] = Upsert(row[c], rev)
    BY <1>1, <1>6, EnrichQueue
  <2>2. rev' = rev /\ rev \in 1..MaxRev
    BY <1>1, <1>6 DEF Enrich, TypeOK
  <2>3. \A c \in Cards : row'[c] = row[c] \/ row'[c].own = None
    BY <1>2, <2>1, <2>2, UpsertLeaves DEF Queue
  <2> QED
    BY <1>1, <2>2, <2>3 DEF LeasesCurrent
<1>7. ASSUME WritePlan PROVE LeasesCurrent'
  <2>1. \A c \in Cards : row'[c] = row[c] \/ row'[c].own = None
    BY <1>7, WritePlanLeaves
  <2>2. rev' = rev
    BY <1>7 DEF WritePlan, store
  <2> QED
    BY <1>1, <2>1, <2>2 DEF LeasesCurrent
<1>8. ASSUME Recover PROVE LeasesCurrent'
  <2>1. QueueKept /\ rev' = rev
    BY <1>1, <1>8, RecoverQueue DEF Recover, store
  <2>2. \A c \in Cards : row'[c] = row[c] \/ (row[c] # None /\ row[c].rev = rev)
    BY <1>8, Zenon DEF Recover, Recoverable
  <2> QED
    BY <1>1, <2>1, <2>2, LeasesKept
<1>9. CASE Producer
  <2>1. LeasesCurrent'
    BY <1>3, <1>6, <1>7, <1>8, <1>9
    DEF Producer, BackfillRead, RematchRead, RescoreRead, store
  <2> QED
    BY <1>1, <2>1 DEF LeaseInv
<1>10. ASSUME Reset PROVE LeasesCurrent'
  <2>1. rev \in Nat /\ rev + 1 \in 1..MaxRev /\ rev' = rev + 1
    BY <1>1, <1>10, BoundsAssumption DEF TypeOK, Reset
  <2>2. ASSUME NEW c \in Cards, row'[c] # None PROVE row'[c].own = None
    <3>1. row'[c] = Upsert(row[c], rev + 1)
      BY <1>10, <2>2, Zenon DEF Reset
    <3>2. row[c] = None \/ (row[c].rev < rev + 1 /\ row[c] \in Rows)
      BY <1>2, <2>1, BoundsAssumption
      DEF LeaseInv, MatchInv, RevisionBounds, Queue, Rows
    <3>3. Upsert(row[c], rev + 1) = NewRow(rev + 1)
      BY <3>2 DEF Upsert
    <3>4. NewRow(rev + 1).own = None
      BY DEF NewRow
    <3> QED
      BY <3>1, <3>3, <3>4
  <2> QED
    BY <2>2 DEF LeasesCurrent
<1>11. ASSUME NEW x \in Cards, Ripen(x) \/ Lapse(x) PROVE LeasesCurrent'
  <2>1. QueueKept /\ rev' = rev
    BY <1>1, <1>11, TimeQueue DEF Ripen, Lapse, store
  <2>2. ASSUME NEW c \in Cards
        PROVE  \/ row'[c] = row[c]
               \/ row[c] # None /\ row[c].own # None
               \/ row'[c] # None /\ row'[c].own = None
    <3>1. ASSUME row'[c] # row[c], Ripen(x)
          PROVE  row[c] # None /\ row'[c].own = row[c].own
      BY <1>1, <3>1, TimeLeaves
    <3>2. ASSUME row'[c] # row[c], Lapse(x)
          PROVE  row[c] # None /\ row[c].own = Orphan
      BY <1>1, <3>2, TimeLeaves
    <3>3. row[c] # None => row'[c] # None \/ ~ Ripen(x)
      <4>1. ASSUME row[c] # None, Ripen(x) PROVE row'[c] # None
        BY <1>2, <4>1, RowIsSome DEF Ripen, Queue, Rows
      <4> QED
        BY <4>1
    <3> QED
      BY <1>11, <3>1, <3>2, <3>3, NamesAssumption
  <2> QED
    BY <1>1, <2>1, <2>2, LeasesKept
<1>12. ASSUME NEW w \in Workers, Expire(w) PROVE LeasesCurrent'
  <2>1. QueueKept /\ rev' = rev
    BY <1>1, <1>12, ExpireQueue DEF Expire, store
  <2>2. \A c \in Cards : row'[c] = row[c] \/ (row[c] # None /\ row[c].own # None)
    BY <1>12, NamesAssumption, Zenon DEF Expire, Leased
  <2> QED
    BY <1>1, <2>1, <2>2, LeasesKept
<1>13. CASE Environment
  <2>1. LeasesCurrent'
    BY <1>3, <1>10, <1>11, <1>12, <1>13
    DEF Environment, ChangeConfig, GainDemand, LoseDemand, CacheFill, store
  <2> QED
    BY <1>1, <2>1 DEF LeaseInv
<1>14. CASE Next
  BY <1>1, <1>5, <1>9, <1>13, <1>14 DEF Next, LeaseInv
<1> QED
  BY <1>4, <1>14

\* The property, step by step.
LEMMA RespectStep ==
  LeaseInv /\ [Next]_vars =>
    \A c \in Cards, w \in Workers :
       (c \in Leased(w) /\ row[c].live /\ rev' = rev)
         => \/ job'[w] # job[w]
            \/ row'[c] = row[c]
            \/ row'[c] = [row[c] EXCEPT !.live = FALSE]
            \/ row'[c] = [row[c] EXCEPT !.ripe = TRUE]
<1> SUFFICES ASSUME LeaseInv, [Next]_vars, NEW c \in Cards, NEW w \in Workers,
                    c \in Leased(w), row[c].live, rev' = rev
             PROVE  \/ job'[w] # job[w]
                    \/ row'[c] = row[c]
                    \/ row'[c] = [row[c] EXCEPT !.live = FALSE]
                    \/ row'[c] = [row[c] EXCEPT !.ripe = TRUE]
  OBVIOUS
<1>1. TypeOK /\ row \in Queue /\ rev \in 1..MaxRev /\ rev \in Nat
  BY BoundsAssumption DEF LeaseInv, MatchInv, TypeOK, Queue
<1>2. /\ row[c] # None /\ row[c].own = w /\ row[c].own # None
      /\ row[c].own # Orphan /\ row[c].rev = rev
  BY NamesAssumption DEF LeaseInv, LeasesCurrent, Leased
<1>3. ~ Unleased(row[c])
  BY <1>2 DEF Unleased
<1>4. CASE UNCHANGED vars
  BY <1>4 DEF vars
<1>5. ASSUME NEW x \in Workers, Step(x) \/ Fault(x), row'[c] # row[c]
      PROVE  job'[w] # job[w]
  <2>1. ~ Claim(x)
    BY <1>3, <1>5, ClaimLeaves DEF Claimable
  <2>2. LeftOthers(x, row')
    BY <1>5, <2>1, StepLeaves
  <2>3. x = w
    BY <1>2, <1>5, <2>2 DEF LeftOthers, Leased
  <2>4. ~ Overrun(x)
    BY <1>5 DEF Overrun
  <2> QED
    BY <1>1, <1>5, <2>3, <2>4, JobMoves DEF Fault
<1>6. ASSUME Enrich PROVE row'[c] = row[c]
  <2>1. row'[c] = row[c] \/ row'[c] = Upsert(row[c], rev)
    BY <1>1, <1>6, EnrichQueue
  <2>2. row[c].rev >= rev
    BY <1>1, <1>2
  <2> QED
    BY <1>1, <1>2, <2>1, <2>2, UpsertLeaves DEF Queue
<1>7. ASSUME WritePlan PROVE row'[c] = row[c]
  BY <1>2, <1>7, WritePlanLeaves
<1>8. ASSUME Recover PROVE row'[c] = row[c]
  BY <1>3, <1>8, Zenon DEF Recover, Recoverable
<1>9. CASE Producer
  BY <1>6, <1>7, <1>8, <1>9 DEF Producer, BackfillRead, RematchRead, RescoreRead
<1>10. ASSUME Reset PROVE FALSE
  BY <1>1, <1>10 DEF Reset
<1>11. ASSUME NEW x \in Cards, Ripen(x), row'[c] # row[c]
       PROVE  row'[c] = [row[c] EXCEPT !.ripe = TRUE]
  BY <1>1, <1>11, TimeLeaves
<1>12. ASSUME NEW x \in Cards, Lapse(x) PROVE row'[c] = row[c]
  BY <1>1, <1>2, <1>12, TimeLeaves
<1>13. ASSUME NEW x \in Workers, Expire(x)
       PROVE  row'[c] = row[c] \/ row'[c] = [row[c] EXCEPT !.live = FALSE]
  BY <1>13, Zenon DEF Expire
<1>14. CASE Environment
  BY <1>10, <1>11, <1>12, <1>13, <1>14
  DEF Environment, ChangeConfig, GainDemand, LoseDemand, CacheFill
<1> QED
  BY <1>4, <1>5, <1>9, <1>14 DEF Next

\* A lease that has not run out is broken by nobody: not by another worker, by a
\* producer's upsert or by the recovery job, but only by its own worker or by a
\* reset of the article.
THEOREM LeasesAreRespected == Spec => LeaseRespected
<1>1. Init => LeaseInv
  <2> SUFFICES ASSUME Init PROVE LeaseInv
    OBVIOUS
  <2>1. TypeOK
    BY TypeInit
  <2>2. RevisionBounds /\ PairsAccounted /\ LeasesCurrent
    BY DEF Init, RevisionBounds, PairsAccounted, LeasesCurrent
  <2> QED
    BY <2>1, <2>2 DEF LeaseInv, MatchInv
<1> QED
  BY <1>1, LeaseInvStep, RespectStep, PTL DEF Spec, LeaseRespected
=============================================================================
