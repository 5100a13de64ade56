---------------------------- MODULE OutboxProofs ----------------------------
(***************************************************************************)
(* Proofs about Outbox, for every set of keys, singletons, relays and      *)
(* tokens and every lease, delay and batch size, with both writers and     *)
(* late relays.                                                            *)
(***************************************************************************)
EXTENDS Outbox, TLAPS

(* A relay that ends its turn keeps a well-formed pass. *)
LEMMA EndTurnType ==
  ASSUME relay \in [Relays -> Relay], NEW r \in Relays, EndTurn(r)
  PROVE  relay' \in [Relays -> Relay]
  BY DEF EndTurn, Relay, NoPass, Pass

(* The rows the actions write are well-formed. *)
LEMMA RowsWritten ==
  /\ NoRow("absent") \in Row /\ NoRow("delivered") \in Row
  /\ \A d \in 0..MaxDelay : Intent(d) \in Row
  /\ \A t \in Tokens : Leased(t) \in Row
  BY OutboxAssumption DEF Row, NoRow, Intent, Leased

(* Type correctness.  Only the actions that write a row, a relay's pass or *)
(* a job need more than their own definition.                              *)
LEMMA TypeInductive == TypeOK /\ [Next]_vars => TypeOK'
  <1> SUFFICES ASSUME TypeOK, [Next]_vars PROVE TypeOK'
    OBVIOUS
  <1>1. ASSUME NEW k \in Keys, ApiStep(k) PROVE TypeOK'
    <2>1. CASE ApiInsert(k)
      <3>1. apiTx' \in [Keys -> ApiTx]
        BY <2>1 DEF TypeOK, ApiTx, ApiInsert
      <3> QED
        BY <2>1, <3>1 DEF TypeOK, ApiInsert, jobs
    <2>2. CASE ApiCommit(k)
      <3>1. apiTx' \in [Keys -> ApiTx]
        BY <2>2 DEF TypeOK, ApiTx, ApiCommit
      <3>2. row' \in [Keys -> Row]
        BY <2>2, OutboxAssumption DEF TypeOK, Row, ApiCommit, Intent
      <3>3. fresh' \in [Keys -> BOOLEAN] /\ absorbed' \in [Keys -> Absorption]
        BY <2>2 DEF TypeOK, ApiTx, Absorption, ApiCommit, Request
      <3> QED
        BY <2>2, <3>1, <3>2, <3>3 DEF TypeOK, ApiCommit, jobs
    <2>3. CASE ApiRollback(k)
      BY <2>3 DEF TypeOK, ApiTx, ApiRollback, jobs
    <2> QED
      BY <1>1, <2>1, <2>2, <2>3 DEF ApiStep
  <1>2. ASSUME NEW k \in Keys, NEW d \in 0..MaxDelay, NEW b \in BOOLEAN,
               WorkerEnqueue(k, d, b)
        PROVE TypeOK'
    <2>1. row' \in [Keys -> Row]
      BY <1>2, RowsWritten DEF TypeOK, WorkerEnqueue
    <2>2. fresh' \in [Keys -> BOOLEAN] /\ absorbed' \in [Keys -> Absorption]
      BY <1>2 DEF TypeOK, Absorption, WorkerEnqueue, Request
    <2> QED
      BY <1>2, <2>1, <2>2 DEF TypeOK, WorkerEnqueue, jobs
  <1>3. ASSUME NEW k \in Keys, Purge(k) PROVE TypeOK'
    BY <1>3, RowsWritten DEF TypeOK, Purge, jobs
  <1>4. ASSUME NEW r \in Relays, NEW S \in SUBSET Keys, NEW t \in Tokens,
               Claim(r, S, t)
        PROVE TypeOK'
    <2>1. row' \in [Keys -> Row]
      BY <1>4, RowsWritten DEF TypeOK, Claim
    <2>2. relay' \in [Relays -> Relay]
      BY <1>4 DEF TypeOK, Relay, Claim, Pass
    <2> QED
      BY <1>4, <2>1, <2>2 DEF TypeOK, Claim, jobs
  <1>5. ASSUME NEW r \in Relays, NEW k \in Keys,
               Reject(r, k) \/ Send(r, k) \/ SendUnanswered(r, k)
        PROVE TypeOK'
    <2>1. ASSUME NEW p \in {"sent", "conflict", "keep"}, Turn(r, k, p)
          PROVE relay' \in [Relays -> Relay]
      BY <2>1 DEF TypeOK, Relay, Turn, At
    <2>2. relay' \in [Relays -> Relay]
      BY <1>5, <2>1 DEF Reject, Send, SendUnanswered
    <2>3. created' \in Jobs /\ UNCHANGED <<retry, active>>
      BY <1>5, OutboxAssumption
      DEF TypeOK, Jobs, Reject, Send, SendUnanswered, jobs
    <2> QED
      BY <1>5, <2>2, <2>3 DEF TypeOK, Reject, Send, SendUnanswered
  <1>6. ASSUME NEW r \in Relays, CheckEquivalent(r) \/ DatabaseFails(r)
        PROVE TypeOK'
    <2>1. relay' \in [Relays -> Relay]
      BY <1>6 DEF TypeOK, Relay, CheckEquivalent, DatabaseFails, At
    <2> QED
      BY <1>6, <2>1 DEF TypeOK, CheckEquivalent, DatabaseFails, jobs
  <1>7. ASSUME NEW r \in Relays, Complete(r) PROVE TypeOK'
    <2>1. relay' \in [Relays -> Relay]
      BY <1>7, EndTurnType DEF TypeOK, Complete
    <2>2. row' \in [Keys -> Row]
      BY <1>7, RowsWritten DEF TypeOK, Complete
    <2> QED
      BY <1>7, <2>1, <2>2 DEF TypeOK, Complete, jobs
  <1>8. ASSUME NEW r \in Relays, NEW d \in 1..MaxDelay, Keep(r, d)
        PROVE TypeOK'
    <2>1. relay' \in [Relays -> Relay]
      BY <1>8, EndTurnType DEF TypeOK, Keep
    <2>2. row' \in [Keys -> Row]
      <3>1. Intent(d) \in Row
        BY RowsWritten
      <3> QED
        BY <1>8, <3>1 DEF TypeOK, Keep
    <2> QED
      BY <1>8, <2>1, <2>2 DEF TypeOK, Keep, jobs
  <1>9. ASSUME NEW r \in Relays, Crash(r) PROVE TypeOK'
    BY <1>9 DEF TypeOK, Relay, Crash, NoPass, Pass, jobs
  <1>10. ASSUME NEW s \in Singletons, JobStep(s) PROVE TypeOK'
    <2>1. created' \in Jobs /\ retry' \in Jobs /\ active' \in Jobs
      BY <1>10 DEF TypeOK, Jobs, JobStep, StartCreated, StartRetry, Run,
         Finish, Retry
    <2>2. fresh' \in [Keys -> BOOLEAN]
      BY <1>10 DEF TypeOK, JobStep, StartCreated, StartRetry, Run,
         Finish, Retry
    <2>3. absorbed' \in [Keys -> Absorption]
      BY <1>10 DEF TypeOK, Absorption, JobStep, StartCreated, StartRetry, Run,
         Finish, Retry
    <2> QED
      BY <1>10, <2>1, <2>2, <2>3
      DEF TypeOK, JobStep, StartCreated, StartRetry, Run, Finish, Retry
  <1>11. CASE Tick
    <2>1. row' \in [Keys -> Row]
      <3>1. ASSUME NEW k \in Keys PROVE row'[k] \in Row
        <4> DEFINE old == row[k]
        <4>1. old \in Row
          BY DEF TypeOK
        <4>2. Minus1(old.due) \in 0..MaxDelay /\ Minus1(old.lease) \in 0..Lease
          BY <4>1, OutboxAssumption DEF Row, Minus1
        <4>3. [st |-> old.st, due |-> Minus1(old.due), token |-> old.token,
               lease |-> Minus1(old.lease)] \in Row
          BY <4>1, <4>2 DEF Row
        <4> QED
          BY <1>11, <4>3 DEF Tick
      <3> QED
        BY <1>11, <3>1 DEF Tick
    <2> QED
      BY <1>11, <2>1 DEF TypeOK, Tick, jobs
  <1>12. CASE UNCHANGED vars
    BY <1>12 DEF TypeOK, vars
  <1>13. 0 \in 0..MaxDelay
    BY OutboxAssumption
  <1>14. ASSUME NEW k \in Keys, WorkerStep(k) PROVE TypeOK'
    BY <1>2, <1>13, <1>14 DEF WorkerStep
  <1>15. ASSUME NEW r \in Relays, RelayStep(r) PROVE TypeOK'
    BY <1>4, <1>5, <1>6, <1>7, <1>8, <1>9, <1>15 DEF RelayStep
  <1> QED
    BY <1>1, <1>3, <1>10, <1>11, <1>12, <1>14, <1>15 DEF Next

LEMMA TypeInitial == Init => TypeOK
  BY OutboxAssumption DEF Init, TypeOK, Row, Relay, Jobs, Absorption, ApiTx,
     NoRow, NoPass, Pass, NoJobs

(* The state of the outbox, the relays and the broker stays well-formed.   *)
THEOREM TypeCorrect == Spec => []TypeOK
  BY TypeInitial, TypeInductive, PTL DEF Spec

-----------------------------------------------------------------------------
(* A relay with rows left to settle holds a token. *)
TokenHeld ==
  \A r \in Relays : relay[r].phase # "next" \/ relay[r].todo # {}
                     => relay[r].token # None

CoveredInv == TypeOK /\ TokenHeld /\ RequestsCovered /\ SentCovered

(* Only the broker's created and retry jobs decide what is pending there. *)
LEMMA PendingUnchanged ==
  ASSUME UNCHANGED <<created, retry>>
  PROVE  \A k : EquivalentPending(k)' = EquivalentPending(k)
  BY DEF EquivalentPending, Covers

(* A pending job stays pending while jobs are only added. *)
LEMMA PendingKept ==
  ASSUME TypeOK, NEW s \in Singletons, NEW p \in Keys,
         \/ created[s] = None /\ created' = [created EXCEPT ![s] = p]
                              /\ retry' = retry
         \/ retry[s] = None /\ retry' = [retry EXCEPT ![s] = p]
                            /\ created' = created,
         NEW k \in Keys, EquivalentPending(k)
  PROVE  EquivalentPending(k)'
  BY OutboxAssumption DEF TypeOK, Jobs, EquivalentPending, Covers

LEMMA ApiKeeps ==
  ASSUME CoveredInv, NEW k \in Keys, ApiStep(k)
  PROVE  TokenHeld' /\ RequestsCovered' /\ SentCovered'
  <1>0. UNCHANGED <<relay, created, retry>>
    BY DEF ApiStep, ApiInsert, ApiCommit, ApiRollback, jobs
  <1>1. TokenHeld'
    BY <1>0 DEF CoveredInv, TokenHeld
  <1>2. ASSUME NEW q \in Keys, EquivalentPending(q) # EquivalentPending(q)'
        PROVE FALSE
    BY <1>0, <1>2, PendingUnchanged
  <1>3. CASE ApiCommit(k)
    <2>1. CASE apiTx[k] = "inserted"
      BY <1>0, <1>1, <1>2, <1>3, <2>1
      DEF CoveredInv, TypeOK, TokenHeld, RequestsCovered, SentCovered, Owns,
          Undelivered, ApiCommit, Request, Intent
    <2>2. CASE apiTx[k] # "inserted"
      BY <1>0, <1>1, <1>2, <1>3, <2>2
      DEF CoveredInv, TypeOK, ApiTx, TokenHeld, RequestsCovered, SentCovered,
          Owns, Undelivered, ApiCommit, Request
    <2> QED
      BY <2>1, <2>2
  <1>4. CASE ApiInsert(k) \/ ApiRollback(k)
    BY <1>0, <1>1, <1>2, <1>4
    DEF CoveredInv, RequestsCovered, SentCovered, Owns, Undelivered,
        ApiInsert, ApiRollback
  <1> QED
    BY <1>3, <1>4 DEF ApiStep

LEMMA WorkerKeeps ==
  ASSUME CoveredInv, NEW k \in Keys, NEW d, NEW b, WorkerEnqueue(k, d, b)
  PROVE  TokenHeld' /\ RequestsCovered' /\ SentCovered'
  <1>0. UNCHANGED <<relay, created, retry>>
    BY DEF WorkerEnqueue, jobs
  <1>1. TokenHeld'
    BY <1>0 DEF CoveredInv, TokenHeld
  <1>2. \A q \in Keys : EquivalentPending(q)' = EquivalentPending(q)
    BY <1>0, PendingUnchanged
  <1>3. CASE Rearms(k, d, b)
    BY <1>0, <1>1, <1>2, <1>3
    DEF CoveredInv, TypeOK, TokenHeld, RequestsCovered, SentCovered, Owns,
        Undelivered, WorkerEnqueue, Request, Intent
  <1>4. CASE ~Rearms(k, d, b)
    BY <1>0, <1>1, <1>2, <1>4
    DEF CoveredInv, TypeOK, TokenHeld, RequestsCovered, SentCovered, Owns,
        Undelivered, WorkerEnqueue, Request, Rearms, ExpiredLease
  <1> QED
    BY <1>3, <1>4

LEMMA RelayKeeps ==
  ASSUME CoveredInv, NEW r \in Relays, RelayStep(r)
  PROVE  TokenHeld' /\ RequestsCovered' /\ SentCovered'
  <1>1. ASSUME NEW S \in SUBSET Keys, NEW t \in Tokens, Claim(r, S, t)
        PROVE  TokenHeld' /\ RequestsCovered' /\ SentCovered'
    <2>1. \A q \in Keys : EquivalentPending(q)' = EquivalentPending(q)
      BY <1>1, PendingUnchanged DEF Claim, jobs
    <2>2. TokenHeld'
      BY <1>1, OutboxAssumption DEF CoveredInv, TypeOK, TokenHeld, Claim, Pass
    <2>3. RequestsCovered'
      BY <1>1, <2>1 DEF CoveredInv, RequestsCovered, Undelivered, Claim, Leased
    <2>4. SentCovered'
      <3> SUFFICES ASSUME NEW x \in Relays, NEW q \in Keys,
                          relay'[x].phase = "sent", relay'[x].cur = q,
                          Owns(x, q)', fresh'[q], absorbed'[q] = "no"
                   PROVE  EquivalentPending(q)'
        BY DEF SentCovered
      <3>1. x # r
        BY <1>1 DEF CoveredInv, TypeOK, Claim, Pass
      <3>2. relay'[x] = relay[x] /\ relay[x].token # t
        BY <1>1, <3>1 DEF CoveredInv, TypeOK, Claim, FreshToken
      <3>3. q \notin S
        BY <1>1, <3>2 DEF Claim, Owns, Leased
      <3>4. row'[q] = row[q] /\ UNCHANGED <<fresh, absorbed>>
        BY <1>1, <3>3 DEF Claim
      <3>5. EquivalentPending(q)
        BY <3>2, <3>4 DEF CoveredInv, SentCovered, Owns, Undelivered
      <3> QED
        BY <2>1, <3>5
    <2> QED
      BY <2>2, <2>3, <2>4
  <1>2. ASSUME NEW k \in Keys,
               Reject(r, k) \/ Send(r, k) \/ SendUnanswered(r, k)
        PROVE  TokenHeld' /\ RequestsCovered' /\ SentCovered'
    <2>1. UNCHANGED <<row, retry, fresh, absorbed>>
      BY <1>2 DEF Reject, Send, SendUnanswered, jobs
    <2>2. ASSUME NEW q \in Keys, EquivalentPending(q)
          PROVE  EquivalentPending(q)'
      BY <1>2, <2>2, PendingKept, PendingUnchanged, OutboxAssumption
      DEF CoveredInv, Reject, Send, SendUnanswered, jobs
    <2>3. TokenHeld'
      <3>1. relay[r].token # None
        BY <1>2 DEF CoveredInv, TokenHeld, Reject, Send, SendUnanswered, Turn
      <3> QED
        BY <1>2, <3>1 DEF CoveredInv, TypeOK, TokenHeld, Reject, Send,
           SendUnanswered, Turn, At
    <2>4. RequestsCovered'
      BY <2>1, <2>2 DEF CoveredInv, RequestsCovered, Undelivered
    <2>5. SentCovered'
      <3> SUFFICES ASSUME NEW x \in Relays, NEW q \in Keys,
                          relay'[x].phase = "sent", relay'[x].cur = q,
                          Owns(x, q)', fresh'[q], absorbed'[q] = "no"
                   PROVE  EquivalentPending(q)'
        BY DEF SentCovered
      <3>1. CASE x = r
        <4>1. /\ q = k /\ created' = [created EXCEPT ![SingletonOf[k]] = k]
          BY <1>2, <3>1 DEF CoveredInv, TypeOK, Reject, Send, SendUnanswered,
             Turn, At
        <4> QED
          BY <4>1, OutboxAssumption
          DEF CoveredInv, TypeOK, Jobs, EquivalentPending, Covers
      <3>2. CASE x # r
        <4>1. relay'[x] = relay[x]
          BY <1>2, <3>2 DEF CoveredInv, TypeOK, Reject, Send, SendUnanswered,
             Turn
        <4> QED
          BY <2>1, <2>2, <4>1 DEF CoveredInv, SentCovered, Owns, Undelivered
      <3> QED
        BY <3>1, <3>2
    <2> QED
      BY <2>3, <2>4, <2>5
  <1>3. ASSUME CheckEquivalent(r) \/ DatabaseFails(r)
        PROVE  TokenHeld' /\ RequestsCovered' /\ SentCovered'
    <2>1. \A q \in Keys : EquivalentPending(q)' = EquivalentPending(q)
      BY <1>3, PendingUnchanged DEF CheckEquivalent, DatabaseFails, jobs
    <2>2. TokenHeld'
      BY <1>3 DEF CoveredInv, TypeOK, TokenHeld, CheckEquivalent, DatabaseFails,
         At
    <2>3. RequestsCovered'
      BY <1>3, <2>1 DEF CoveredInv, RequestsCovered, Undelivered,
         CheckEquivalent, DatabaseFails
    <2>4. SentCovered'
      <3> SUFFICES ASSUME NEW x \in Relays, NEW q \in Keys,
                          relay'[x].phase = "sent", relay'[x].cur = q,
                          Owns(x, q)', fresh'[q], absorbed'[q] = "no"
                   PROVE  EquivalentPending(q)'
        BY DEF SentCovered
      <3>1. CASE x = r
        <4>1. EquivalentPending(q)
          BY <1>3, <3>1 DEF CoveredInv, TypeOK, CheckEquivalent, DatabaseFails,
         At
        <4> QED
          BY <2>1, <4>1
      <3>2. CASE x # r
        <4>1. relay'[x] = relay[x]
          BY <1>3, <3>2 DEF CoveredInv, TypeOK, CheckEquivalent,
             DatabaseFails
        <4> QED
          BY <1>3, <2>1, <4>1 DEF CoveredInv, SentCovered, Owns, Undelivered,
             CheckEquivalent, DatabaseFails
      <3> QED
        BY <3>1, <3>2
    <2> QED
      BY <2>2, <2>3, <2>4
  <1>4. ASSUME Complete(r) \/ \E d \in 1..MaxDelay : Keep(r, d)
        PROVE  TokenHeld' /\ RequestsCovered' /\ SentCovered'
    <2>1. /\ \A q \in Keys : EquivalentPending(q)' = EquivalentPending(q)
          /\ UNCHANGED <<fresh, absorbed>>
      BY <1>4, PendingUnchanged DEF Complete, Keep, jobs
    <2>2. /\ relay'[r].phase = "next"
          /\ relay'[r].todo # {} => relay'[r].token = relay[r].token
          /\ relay[r].token # None
      BY <1>4 DEF CoveredInv, TypeOK, TokenHeld, Complete, Keep, EndTurn,
         NoPass, Pass
    <2>3. \A x \in Relays : x # r => relay'[x] = relay[x]
      BY <1>4 DEF CoveredInv, TypeOK, Complete, Keep, EndTurn
    <2>4. TokenHeld'
      BY <2>2, <2>3 DEF CoveredInv, TokenHeld
    <2>5. ASSUME NEW q \in Keys, row'[q] # row[q]
          PROVE  /\ Owns(r, q) /\ q = relay[r].cur
                 /\ Undelivered(q)' => row'[q].token = None
                 /\ ~Undelivered(q)' => relay[r].phase = "sent"
      <3>1. CASE Complete(r)
        BY <2>5, <3>1 DEF CoveredInv, TypeOK, Complete, Undelivered, NoRow
      <3>2. ASSUME NEW d \in 1..MaxDelay, Keep(r, d)
            PROVE  /\ Owns(r, q) /\ q = relay[r].cur
                   /\ row'[q].token = None /\ Undelivered(q)'
        <4>1. /\ Owns(r, relay[r].cur)
              /\ row' = [row EXCEPT ![relay[r].cur] = Intent(d)]
          BY <2>5, <3>2 DEF Keep
        <4>2. row \in [Keys -> Row]
          BY DEF CoveredInv, TypeOK
        <4>3. q = relay[r].cur
          BY <2>5, <4>1, <4>2
        <4> QED
          BY <4>1, <4>2, <4>3 DEF Intent, Undelivered
      <3> QED
        BY <1>4, <3>1, <3>2
    <2>6. RequestsCovered'
      <3> SUFFICES ASSUME NEW q \in Keys, fresh'[q], absorbed'[q] = "no",
                          ~Undelivered(q)'
                   PROVE  EquivalentPending(q)'
        BY DEF RequestsCovered
      <3>1. CASE row'[q] = row[q]
        BY <2>1, <3>1 DEF CoveredInv, RequestsCovered, Undelivered
      <3>2. CASE row'[q] # row[q]
        BY <2>1, <2>5, <3>2 DEF CoveredInv, SentCovered
      <3> QED
        BY <3>1, <3>2
    <2>7. SentCovered'
      <3> SUFFICES ASSUME NEW x \in Relays, NEW q \in Keys,
                          relay'[x].phase = "sent", relay'[x].cur = q,
                          Owns(x, q)', fresh'[q], absorbed'[q] = "no"
                   PROVE  EquivalentPending(q)'
        BY DEF SentCovered
      <3>1. x # r /\ relay'[x] = relay[x]
        BY <2>2, <2>3
      <3>2. row'[q] = row[q]
        BY <2>5, <3>1 DEF CoveredInv, TokenHeld, Owns
      <3> QED
        BY <2>1, <3>1, <3>2 DEF CoveredInv, SentCovered, Owns, Undelivered
    <2> QED
      BY <2>4, <2>6, <2>7
  <1>5. ASSUME Crash(r)
        PROVE  TokenHeld' /\ RequestsCovered' /\ SentCovered'
    <2>1. /\ \A q \in Keys : EquivalentPending(q)' = EquivalentPending(q)
          /\ UNCHANGED <<row, fresh, absorbed>>
      BY <1>5, PendingUnchanged DEF Crash, jobs
    <2>2. /\ relay'[r].phase = "next" /\ relay'[r].todo = {}
          /\ \A x \in Relays : x # r => relay'[x] = relay[x]
      BY <1>5 DEF CoveredInv, TypeOK, Crash, NoPass, Pass
    <2> QED
      BY <2>1, <2>2 DEF CoveredInv, TokenHeld, RequestsCovered, SentCovered,
         Owns, Undelivered
  <1> QED
    BY <1>1, <1>2, <1>3, <1>4, <1>5 DEF RelayStep

LEMMA JobKeeps ==
  ASSUME CoveredInv, NEW s \in Singletons, JobStep(s)
  PROVE  TokenHeld' /\ RequestsCovered' /\ SentCovered'
  <1>0. UNCHANGED <<relay, row>>
    BY DEF JobStep, StartCreated, StartRetry, Run, Finish, Retry
  <1>1. ASSUME NEW q \in Keys, fresh'[q]
        PROVE  /\ fresh[q] /\ absorbed'[q] = absorbed[q]
               /\ EquivalentPending(q) => EquivalentPending(q)'
    <2>1. CASE StartCreated(s)
      BY <1>1, <2>1, OutboxAssumption
      DEF CoveredInv, TypeOK, Jobs, StartCreated, Run, Served,
          EquivalentPending, Covers
    <2>2. CASE StartRetry(s)
      BY <1>1, <2>2, OutboxAssumption
      DEF CoveredInv, TypeOK, Jobs, StartRetry, Run, Served,
          EquivalentPending, Covers
    <2>3. CASE Finish(s)
      BY <1>1, <2>3, PendingUnchanged DEF Finish
    <2>4. CASE Retry(s)
      BY <1>1, <2>4, PendingKept DEF CoveredInv, TypeOK, Jobs, Retry
    <2> QED
      BY <2>1, <2>2, <2>3, <2>4 DEF JobStep
  <1> QED
    BY <1>0, <1>1 DEF CoveredInv, TokenHeld, RequestsCovered, SentCovered,
       Owns, Undelivered

LEMMA CoveredInductive == CoveredInv /\ [Next]_vars => CoveredInv'
  <1> SUFFICES ASSUME CoveredInv, [Next]_vars
               PROVE  TokenHeld' /\ RequestsCovered' /\ SentCovered'
    BY TypeInductive DEF CoveredInv
  <1>1. CASE \E k \in Keys : Purge(k)
    <2>1. /\ \A q \in Keys : EquivalentPending(q)' = EquivalentPending(q)
          /\ UNCHANGED <<relay, fresh, absorbed>>
      BY <1>1, PendingUnchanged DEF Purge, jobs
    <2>2. ASSUME NEW q \in Keys, row'[q] # row[q]
          PROVE  ~Undelivered(q) /\ ~Undelivered(q)'
      <3>1. PICK k \in Keys : row[k].st = "delivered"
                              /\ row' = [row EXCEPT ![k] = NoRow("absent")]
        BY <1>1 DEF Purge
      <3>2. row \in [Keys -> Row]
        BY DEF CoveredInv, TypeOK
      <3>3. q = k /\ row'[q] = NoRow("absent")
        BY <2>2, <3>1, <3>2
      <3> QED
        BY <3>1, <3>3 DEF Undelivered, NoRow
    <2> QED
      BY <2>1, <2>2 DEF CoveredInv, TokenHeld, RequestsCovered, SentCovered,
         Owns, Undelivered
  <1>2. CASE Tick \/ UNCHANGED vars
    <2>1. /\ \A q \in Keys : EquivalentPending(q)' = EquivalentPending(q)
          /\ UNCHANGED <<relay, fresh, absorbed>>
      BY <1>2, PendingUnchanged DEF Tick, jobs, vars
    <2>2. \A q \in Keys : row'[q].st = row[q].st /\ row'[q].token = row[q].token
      BY <1>2 DEF Tick, vars
    <2> QED
      BY <2>1, <2>2 DEF CoveredInv, TokenHeld, RequestsCovered, SentCovered,
         Owns, Undelivered
  <1> QED
    BY <1>1, <1>2, ApiKeeps, WorkerKeeps, RelayKeeps, JobKeeps
    DEF Next, WorkerStep

(* What the two properties below rest on.                                  *)
THEOREM CoveredAlways == Spec => []CoveredInv
  <1>1. Init => CoveredInv
    BY TypeInitial DEF Init, CoveredInv, TokenHeld, RequestsCovered,
       SentCovered, NoPass, Pass
  <1> QED
    BY <1>1, CoveredInductive, PTL DEF Spec

(* No request is forgotten between a commit and the consumer that serves   *)
(* it, unless a row that may already have been sent took it in.            *)
THEOREM RequestsAreCovered == Spec => []RequestsCovered
  <1>1. CoveredInv => RequestsCovered
    BY DEF CoveredInv
  <1> QED
    BY <1>1, CoveredAlways, PTL

(* relayIntent's rule for a null send: while a relay that owns a row is    *)
(* about to mark it delivered, the requests it stands for have a job that  *)
(* has not started.                                                        *)
THEOREM SentIsCovered == Spec => []SentCovered
  <1>1. CoveredInv => SentCovered
    BY DEF CoveredInv
  <1> QED
    BY <1>1, CoveredAlways, PTL
=============================================================================
