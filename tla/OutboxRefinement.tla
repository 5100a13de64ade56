-------------------------- MODULE OutboxRefinement --------------------------
(***************************************************************************)
(* The outbox, its relays and the broker implement CoalescingQueue, for    *)
(* every set of keys, singletons, relays and tokens, while the relays      *)
(* settle what they claimed before its lease ends.                         *)
(***************************************************************************)
EXTENDS OutboxProofs

(* A job runs under the singleton key of its payload. *)
JobsHome ==
  \A s \in Singletons :
    \A p \in {created[s], retry[s], active[s]} : p # None => SingletonOf[p] = s

(* The row a relay is busy with is one of its batch. *)
BusyWithBatch ==
  \A r \in Relays : relay[r].phase # "next" => relay[r].cur \in relay[r].todo

(* A relay still to settle a row that carries its token has a live lease.  *)
OwnedIsLive ==
  \A r \in Relays : \A k \in relay[r].todo : Owns(r, k) => LiveLease(k)

(* Every open request is pending, also after the row is marked delivered   *)
(* by the relay that is about to do so.                                    *)
RequestsPending ==
  \A k \in Keys : fresh[k] => Undelivered(k) \/ EquivalentPending(k)
SentPending ==
  \A r \in Relays, k \in Keys :
    relay[r].phase = "sent" /\ relay[r].cur = k /\ Owns(r, k) /\ fresh[k]
    => EquivalentPending(k)

QueueInv ==
  /\ TypeOK /\ TokenHeld /\ JobsHome /\ BusyWithBatch /\ OwnedIsLive
  /\ RequestsPending /\ SentPending

LEMMA WorkerNextIsNext == [WorkerNext]_vars => [Next]_vars
  BY DEF WorkerNext, Next

(* What the abstract queue sees. *)
PendingKeys == {k \in Keys : Undelivered(k) \/ EquivalentPending(k)}
RequestedKeys == {k \in Keys : fresh[k]}
QueueStep == Queue!Next \/ UNCHANGED <<PendingKeys, RequestedKeys>>

LEMMA Unseen ==
  ASSUME \A k \in Keys : Undelivered(k)' = Undelivered(k),
         \A k \in Keys : EquivalentPending(k)' = EquivalentPending(k),
         fresh' = fresh
  PROVE  QueueStep
  BY DEF QueueStep, PendingKeys, RequestedKeys

(* Pending work may come back. *)
LEMMA Repeats ==
  ASSUME \A k \in Keys : Undelivered(k)' = Undelivered(k),
         \A k \in Keys : EquivalentPending(k) => EquivalentPending(k)',
         fresh' = fresh
  PROVE  QueueStep
  <1>1. PICK S \in SUBSET Keys : S = PendingKeys'
    BY DEF PendingKeys
  <1>2. PendingKeys' = PendingKeys \cup S /\ RequestedKeys' = RequestedKeys
    BY <1>1 DEF PendingKeys, RequestedKeys
  <1>3. Queue!Repeat(S)
    BY <1>2 DEF Queue!Repeat, PendingKeys, RequestedKeys
  <1> QED
    BY <1>3 DEF QueueStep, Queue!Next

(* The part of the invariant that an action's effects decide. *)
Steady == JobsHome /\ BusyWithBatch /\ OwnedIsLive /\ RequestsPending /\ SentPending

(* A change commits its request. *)
LEMMA EnqueueAsks ==
  ASSUME QueueInv, NEW k \in Keys, NEW d, NEW b, WorkerEnqueue(k, d, b)
  PROVE  Steady' /\ QueueStep
  <1>1. /\ UNCHANGED <<relay, created, retry, active>>
        /\ fresh' = [fresh EXCEPT ![k] = TRUE]
    BY DEF WorkerEnqueue, Request, jobs
  <1>2. \A q \in Keys : EquivalentPending(q)' = EquivalentPending(q)
    BY <1>1, PendingUnchanged
  <1>3. /\ Undelivered(k)'
        /\ \A q \in Keys \ {k} : row'[q] = row[q]
        /\ row'[k] = row[k] \/ row'[k].token = None
    BY DEF QueueInv, TypeOK, WorkerEnqueue, Rearms, Undelivered, Intent
  <1>4. \A x \in Relays, q \in Keys :
          relay[x].token # None /\ Owns(x, q)' => Owns(x, q) /\ row'[q] = row[q]
    BY <1>1, <1>3 DEF Owns, Undelivered
  <1>5. ASSUME NEW x \in Relays, Owns(x, k)', relay[x].phase = "sent",
               relay[x].cur = k
        PROVE  FALSE
    <2>1. relay[x].token # None /\ k \in relay[x].todo
      BY <1>5 DEF QueueInv, TokenHeld, BusyWithBatch
    <2>2. Owns(x, k) /\ row'[k] = row[k]
      BY <1>4, <1>5, <2>1
    <2>3. LiveLease(k)
      BY <2>1, <2>2 DEF QueueInv, OwnedIsLive
    <2>4. row'[k].token = None
      BY <2>3 DEF WorkerEnqueue, Rearms, Intent, QueueInv, TypeOK
    <2> QED
      BY <2>1, <2>2, <2>4 DEF Owns
  <1>6. JobsHome' /\ BusyWithBatch'
    BY <1>1 DEF QueueInv, JobsHome, BusyWithBatch
  <1>7. OwnedIsLive'
    <2> SUFFICES ASSUME NEW x \in Relays, NEW q \in relay[x].todo, Owns(x, q)'
                 PROVE  LiveLease(q)'
      BY <1>1 DEF OwnedIsLive
    <2>1. q \in Keys /\ relay[x].token # None
      BY DEF QueueInv, TypeOK, Relay, TokenHeld
    <2> QED
      BY <1>4, <2>1 DEF QueueInv, OwnedIsLive, LiveLease
  <1>8. RequestsPending'
    BY <1>1, <1>2, <1>3 DEF QueueInv, TypeOK, RequestsPending, Undelivered
  <1>9. SentPending'
    <2> SUFFICES ASSUME NEW x \in Relays, NEW q \in Keys, relay[x].phase = "sent",
                        relay[x].cur = q, Owns(x, q)', fresh'[q]
                 PROVE  EquivalentPending(q)'
      BY <1>1 DEF SentPending
    <2>1. q # k
      BY <1>5
    <2>2. fresh[q] /\ Owns(x, q)
      BY <1>1, <1>3, <2>1 DEF QueueInv, TypeOK, Owns, Undelivered
    <2> QED
      BY <1>2, <2>2 DEF QueueInv, SentPending
  <1>10. Queue!Ask(k)
    BY <1>1, <1>2, <1>3 DEF QueueInv, TypeOK, Queue!Ask, Undelivered
  <1> QED
    BY <1>6, <1>7, <1>8, <1>9, <1>10 DEF Steady, QueueStep, Queue!Next

(* A claim gives its rows a token no relay holds, and a whole lease. *)
LEMMA ClaimUnseen ==
  ASSUME QueueInv, NEW r \in Relays, NEW S \in SUBSET Keys, NEW t \in Tokens,
         Claim(r, S, t)
  PROVE  Steady' /\ QueueStep
  <1>1. UNCHANGED <<created, retry, active, fresh>>
    BY DEF Claim, jobs
  <1>2. \A q \in Keys : EquivalentPending(q)' = EquivalentPending(q)
    BY <1>1, PendingUnchanged
  <1>3. \A q \in Keys : Undelivered(q)' = Undelivered(q)
    BY DEF Claim, Claimable, Undelivered, Leased
  <1>4. /\ relay'[r] = Pass(t, S)
        /\ \A x \in Relays \ {r} : relay'[x] = relay[x] /\ relay[x].token # t
    BY DEF QueueInv, TypeOK, Claim, FreshToken
  <1>5. /\ \A q \in S : row'[q] = Leased(t)
        /\ \A q \in Keys \ S : row'[q] = row[q]
    BY DEF Claim
  <1>6. ASSUME NEW x \in Relays \ {r}, NEW q \in Keys, Owns(x, q)'
        PROVE  Owns(x, q) /\ row'[q] = row[q] /\ relay'[x] = relay[x]
    BY <1>4, <1>5, <1>6 DEF Owns, Leased, Undelivered
  <1>7. JobsHome'
    BY <1>1 DEF QueueInv, JobsHome
  <1>8. BusyWithBatch'
    BY <1>4 DEF QueueInv, BusyWithBatch, Pass
  <1>9. OwnedIsLive'
    <2> SUFFICES ASSUME NEW x \in Relays, NEW q \in relay'[x].todo, Owns(x, q)'
                 PROVE  LiveLease(q)'
      BY DEF OwnedIsLive
    <2>1. CASE x = r
      BY <1>4, <1>5, <2>1, OutboxAssumption DEF Pass, Leased, LiveLease
    <2>2. CASE x # r
      <3>1. q \in relay[x].todo /\ q \in Keys
        BY <1>4, <2>2 DEF QueueInv, TypeOK, Relay
      <3> QED
        BY <1>6, <2>2, <3>1 DEF QueueInv, OwnedIsLive, LiveLease
    <2> QED
      BY <2>1, <2>2
  <1>10. RequestsPending'
    BY <1>1, <1>2, <1>3 DEF QueueInv, RequestsPending
  <1>11. SentPending'
    BY <1>1, <1>2, <1>4, <1>6 DEF QueueInv, SentPending, Pass
  <1> QED
    BY <1>1, <1>2, <1>3, <1>7, <1>8, <1>9, <1>10, <1>11, Unseen DEF Steady

(* A send, answered or not, only adds a job. *)
LEMMA SendRepeats ==
  ASSUME QueueInv, NEW r \in Relays, NEW k \in Keys,
         Reject(r, k) \/ Send(r, k) \/ SendUnanswered(r, k)
  PROVE  Steady' /\ QueueStep
  <1>1. UNCHANGED <<row, retry, active, fresh>>
    BY DEF Reject, Send, SendUnanswered, jobs
  <1>2. \A q \in Keys : EquivalentPending(q) => EquivalentPending(q)'
    BY PendingKept, PendingUnchanged, OutboxAssumption
    DEF QueueInv, Reject, Send, SendUnanswered, jobs
  <1>3. PICK p \in {"sent", "conflict", "keep"} :
          /\ Turn(r, k, p)
          /\ p = "sent" => created' = [created EXCEPT ![SingletonOf[k]] = k]
    BY DEF Reject, Send, SendUnanswered
  <1>4. /\ relay'[r] = At(r, k, p) /\ k \in relay[r].todo
        /\ \A x \in Relays \ {r} : relay'[x] = relay[x]
    BY <1>3 DEF Turn, QueueInv, TypeOK
  <1>5. \A x \in Relays : relay'[x].todo = relay[x].todo
                          /\ relay'[x].token = relay[x].token
    BY <1>4 DEF At
  <1>6. JobsHome'
    BY <1>1, OutboxAssumption
    DEF QueueInv, TypeOK, Jobs, JobsHome, Reject, Send, SendUnanswered, jobs
  <1>7. BusyWithBatch'
    BY <1>4 DEF QueueInv, BusyWithBatch, At
  <1>8. OwnedIsLive'
    BY <1>1, <1>5 DEF QueueInv, OwnedIsLive, Owns, Undelivered, LiveLease
  <1>9. RequestsPending'
    BY <1>1, <1>2 DEF QueueInv, RequestsPending, Undelivered
  <1>10. SentPending'
    <2> SUFFICES ASSUME NEW x \in Relays, NEW q \in Keys,
                        relay'[x].phase = "sent", relay'[x].cur = q,
                        Owns(x, q)', fresh'[q]
                 PROVE  EquivalentPending(q)'
      BY DEF SentPending
    <2>1. CASE x = r
      BY <1>3, <1>4, <2>1, OutboxAssumption
      DEF At, QueueInv, TypeOK, Jobs, EquivalentPending, Covers
    <2>2. CASE x # r
      BY <1>1, <1>2, <1>4, <2>2 DEF QueueInv, SentPending, Owns, Undelivered
    <2> QED
      BY <2>1, <2>2
  <1> QED
    BY <1>1, <1>2, <1>6, <1>7, <1>8, <1>9, <1>10, Repeats
    DEF Steady, Undelivered

(* A null send is settled by what is pending; a failure keeps the row. *)
LEMMA CheckUnseen ==
  ASSUME QueueInv, NEW r \in Relays, CheckEquivalent(r) \/ DatabaseFails(r)
  PROVE  Steady' /\ QueueStep
  <1>1. UNCHANGED <<row, created, retry, active, fresh>>
    BY DEF CheckEquivalent, DatabaseFails, jobs
  <1>2. \A q \in Keys : EquivalentPending(q)' = EquivalentPending(q)
    BY <1>1, PendingUnchanged
  <1>3. PICK p \in {"sent", "keep"} :
          /\ relay[r].phase # "next"
          /\ relay' = [relay EXCEPT ![r] = At(r, relay[r].cur, p)]
          /\ p = "sent" => EquivalentPending(relay[r].cur)
    BY DEF CheckEquivalent, DatabaseFails
  <1>4. /\ relay'[r] = At(r, relay[r].cur, p)
        /\ \A x \in Relays \ {r} : relay'[x] = relay[x]
    BY <1>3 DEF QueueInv, TypeOK
  <1>5. \A x \in Relays : relay'[x].todo = relay[x].todo
                          /\ relay'[x].token = relay[x].token
                          /\ relay'[x].cur = relay[x].cur
    BY <1>4 DEF At
  <1>6. JobsHome' /\ BusyWithBatch'
    BY <1>1, <1>3, <1>4, <1>5 DEF QueueInv, JobsHome, BusyWithBatch, At
  <1>7. OwnedIsLive'
    BY <1>1, <1>5 DEF QueueInv, OwnedIsLive, Owns, Undelivered, LiveLease
  <1>8. RequestsPending'
    BY <1>1, <1>2 DEF QueueInv, RequestsPending, Undelivered
  <1>9. SentPending'
    BY <1>1, <1>2, <1>3, <1>4, <1>5
    DEF QueueInv, SentPending, Owns, Undelivered, At
  <1> QED
    BY <1>1, <1>2, <1>6, <1>7, <1>8, <1>9, Unseen DEF Steady, Undelivered

(* An acknowledgement only takes away a row whose requests have a job; a   *)
(* failure keeps the row.                                                  *)
LEMMA EndSettles ==
  ASSUME QueueInv, NEW r \in Relays,
         Complete(r) \/ \E d \in 1..MaxDelay : Keep(r, d)
  PROVE  Steady' /\ QueueStep
  <1>1. UNCHANGED <<created, retry, active, fresh>> /\ relay[r].phase # "next"
    BY DEF Complete, Keep, jobs
  <1>2. \A q \in Keys : EquivalentPending(q)' = EquivalentPending(q)
    BY <1>1, PendingUnchanged
  <1>3. /\ relay'[r].phase = "next"
        /\ relay'[r].todo \subseteq relay[r].todo \ {relay[r].cur}
        /\ relay'[r].todo # {} => relay'[r].token = relay[r].token
        /\ relay[r].token # None
    BY <1>1 DEF QueueInv, TypeOK, TokenHeld, Complete, Keep, EndTurn, NoPass, Pass
  <1>4. \A x \in Relays \ {r} : relay'[x] = relay[x]
    BY DEF QueueInv, TypeOK, Complete, Keep, EndTurn
  <1>5. ASSUME NEW q \in Keys, row'[q] # row[q]
        PROVE  /\ Owns(r, q) /\ q = relay[r].cur /\ row'[q].token = None
               /\ Undelivered(q)' \/ relay[r].phase = "sent"
    <2>1. row \in [Keys -> Row]
      BY DEF QueueInv, TypeOK
    <2>2. CASE Complete(r)
      BY <1>5, <2>1, <2>2 DEF Complete, NoRow
    <2>3. ASSUME NEW d \in 1..MaxDelay, Keep(r, d)
          PROVE  /\ Owns(r, q) /\ q = relay[r].cur /\ row'[q].token = None
                 /\ Undelivered(q)'
      <3>1. /\ Owns(r, relay[r].cur)
            /\ row' = [row EXCEPT ![relay[r].cur] = Intent(d)]
        BY <1>5, <2>3 DEF Keep
      <3>2. q = relay[r].cur
        BY <1>5, <2>1, <3>1
      <3> QED
        BY <2>1, <3>1, <3>2 DEF Intent, Undelivered
    <2> QED
      BY <2>2, <2>3
  <1>6. ASSUME NEW q \in Keys, Undelivered(q), ~Undelivered(q)'
        PROVE  fresh[q] => EquivalentPending(q)
    <2>1. row'[q] # row[q]
      BY <1>6 DEF Undelivered
    <2> QED
      BY <1>5, <1>6, <2>1 DEF QueueInv, SentPending
  <1>7. ASSUME NEW q \in Keys, Undelivered(q)' PROVE Undelivered(q)
    <2>1. CASE row'[q] = row[q]
      BY <1>7, <2>1 DEF Undelivered
    <2>2. CASE row'[q] # row[q]
      BY <1>5, <2>2 DEF Owns
    <2> QED
      BY <2>1, <2>2
  <1>8. ASSUME NEW x \in Relays, NEW q \in Keys, relay'[x].token # None,
               Owns(x, q)', x = r => q # relay[r].cur
        PROVE  row'[q] = row[q] /\ (x = r => relay'[r].token = relay[r].token
                                              \/ relay'[r].todo = {})
    BY <1>3, <1>5, <1>8 DEF Owns
  <1>9. JobsHome' /\ BusyWithBatch'
    BY <1>1, <1>3, <1>4 DEF QueueInv, JobsHome, BusyWithBatch
  <1>10. OwnedIsLive'
    <2> SUFFICES ASSUME NEW x \in Relays, NEW q \in relay'[x].todo, Owns(x, q)'
                 PROVE  LiveLease(q)'
      BY DEF OwnedIsLive
    <2>1. /\ q \in relay[x].todo /\ q \in Keys
          /\ relay'[x].token = relay[x].token /\ relay[x].token # None
          /\ x = r => q # relay[r].cur
      BY <1>3, <1>4 DEF QueueInv, TypeOK, Relay, TokenHeld
    <2>2. row'[q] = row[q]
      BY <1>8, <2>1
    <2>3. Owns(x, q)
      BY <2>1, <2>2 DEF Owns, Undelivered
    <2> QED
      BY <2>1, <2>2, <2>3 DEF QueueInv, OwnedIsLive, LiveLease
  <1>11. RequestsPending'
    BY <1>1, <1>2, <1>6 DEF QueueInv, RequestsPending
  <1>12. SentPending'
    <2> SUFFICES ASSUME NEW x \in Relays, NEW q \in Keys,
                        relay'[x].phase = "sent", relay'[x].cur = q,
                        Owns(x, q)', fresh'[q]
                 PROVE  EquivalentPending(q)'
      BY DEF SentPending
    <2>1. x # r /\ relay'[x] = relay[x] /\ relay[x].token # None
      BY <1>3, <1>4 DEF QueueInv, TokenHeld
    <2>2. row'[q] = row[q]
      BY <1>8, <2>1
    <2> QED
      BY <1>1, <1>2, <2>1, <2>2 DEF QueueInv, SentPending, Owns, Undelivered
  <1>13. QueueStep
    <2>1. PICK S \in SUBSET Keys : S = PendingKeys \ PendingKeys'
      BY DEF PendingKeys
    <2>2. PendingKeys' = PendingKeys \ S
      BY <1>2, <1>7, <2>1 DEF PendingKeys
    <2>3. S \cap RequestedKeys = {}
      BY <1>2, <1>6, <2>1 DEF PendingKeys, RequestedKeys
    <2>4. Queue!Settle(S)
      BY <1>1, <2>2, <2>3 DEF Queue!Settle, PendingKeys, RequestedKeys
    <2> QED
      BY <2>4 DEF QueueStep, Queue!Next
  <1> QED
    BY <1>9, <1>10, <1>11, <1>12, <1>13 DEF Steady

LEMMA CrashUnseen ==
  ASSUME QueueInv, NEW r \in Relays, Crash(r)
  PROVE  Steady' /\ QueueStep
  <1>1. /\ UNCHANGED <<row, created, retry, active, fresh>>
        /\ relay'[r].phase = "next" /\ relay'[r].todo = {}
        /\ \A x \in Relays \ {r} : relay'[x] = relay[x]
    BY DEF QueueInv, TypeOK, Crash, NoPass, Pass, jobs
  <1>2. \A q \in Keys : EquivalentPending(q)' = EquivalentPending(q)
    BY <1>1, PendingUnchanged
  <1>3. Steady'
    BY <1>1, <1>2 DEF Steady, QueueInv, JobsHome, BusyWithBatch, OwnedIsLive,
       RequestsPending, SentPending, Owns, Undelivered, LiveLease
  <1> QED
    BY <1>1, <1>2, <1>3, Unseen DEF Undelivered

LEMMA PurgeUnseen ==
  ASSUME QueueInv, NEW k \in Keys, Purge(k)
  PROVE  Steady' /\ QueueStep
  <1>1. UNCHANGED <<relay, created, retry, active, fresh>>
    BY DEF Purge, jobs
  <1>2. \A q \in Keys : EquivalentPending(q)' = EquivalentPending(q)
    BY <1>1, PendingUnchanged
  <1>3. /\ ~Undelivered(k) /\ ~Undelivered(k)'
        /\ \A q \in Keys \ {k} : row'[q] = row[q]
    BY DEF QueueInv, TypeOK, Purge, Undelivered, NoRow
  <1>4. \A q \in Keys : Undelivered(q)' => Undelivered(q) /\ row'[q] = row[q]
    BY <1>3 DEF Undelivered
  <1>5. \A q \in Keys : Undelivered(q) => Undelivered(q)'
    BY <1>3 DEF Undelivered
  <1>6. OwnedIsLive'
    <2> SUFFICES ASSUME NEW x \in Relays, NEW q \in relay[x].todo, Owns(x, q)'
                 PROVE  LiveLease(q)'
      BY <1>1 DEF OwnedIsLive
    <2>1. q \in Keys
      BY DEF QueueInv, TypeOK, Relay
    <2>2. Owns(x, q) /\ row'[q] = row[q]
      BY <1>1, <1>4, <2>1 DEF Owns
    <2> QED
      BY <2>2 DEF QueueInv, OwnedIsLive, LiveLease
  <1>7. Steady'
    BY <1>1, <1>2, <1>4, <1>5, <1>6 DEF Steady, QueueInv, JobsHome,
       BusyWithBatch, RequestsPending, SentPending, Owns
  <1>8. \A q \in Keys : Undelivered(q)' = Undelivered(q)
    BY <1>4, <1>5 DEF Undelivered
  <1> QED
    BY <1>1, <1>2, <1>7, <1>8, Unseen

(* A punctual relay's lease outlives its pass. *)
LEMMA TickUnseen ==
  ASSUME Punctual, QueueInv, Tick
  PROVE  Steady' /\ QueueStep
  <1>1. UNCHANGED <<relay, created, retry, active, fresh>>
    BY DEF Tick, jobs
  <1>2. \A q \in Keys : EquivalentPending(q)' = EquivalentPending(q)
    BY <1>1, PendingUnchanged
  <1>3. \A q \in Keys : /\ row'[q].st = row[q].st
                        /\ row'[q].token = row[q].token
                        /\ row'[q].lease = Minus1(row[q].lease)
    BY DEF Tick
  <1>4. OwnedIsLive'
    <2> SUFFICES ASSUME NEW x \in Relays, NEW q \in relay[x].todo, Owns(x, q)'
                 PROVE  LiveLease(q)'
      BY <1>1 DEF OwnedIsLive
    <2>1. q \in Keys /\ row[q].lease \in 0..Lease
      BY DEF QueueInv, TypeOK, Relay, Row
    <2>2. Owns(x, q)
      BY <1>1, <1>3, <2>1 DEF Owns, Undelivered
    <2>3. row[q].lease > 0 /\ row[q].lease # 1
      BY <2>2 DEF QueueInv, OwnedIsLive, LiveLease, Tick, LeaseHeldToEnd
    <2> QED
      BY <1>3, <2>1, <2>3, OutboxAssumption DEF LiveLease, Minus1
  <1>5. Steady'
    BY <1>1, <1>2, <1>3, <1>4 DEF Steady, QueueInv, JobsHome, BusyWithBatch,
       RequestsPending, SentPending, Owns, Undelivered
  <1> QED
    BY <1>1, <1>2, <1>3, <1>5, Unseen DEF Undelivered

(* A starting job serves every request its payload covers. *)
LEMMA StartServes ==
  ASSUME QueueInv, NEW s \in Singletons, StartCreated(s) \/ StartRetry(s)
  PROVE  Steady' /\ QueueStep
  <1>1. PICK p \in Keys :
          /\ p \in {created[s], retry[s]} /\ Run(s, p)
          /\ \/ /\ p = created[s] /\ retry' = retry
                /\ created' = [created EXCEPT ![s] = None]
             \/ /\ p = retry[s] /\ created' = created
                /\ retry' = [retry EXCEPT ![s] = None]
    BY DEF QueueInv, TypeOK, Jobs, StartCreated, StartRetry, Run
  <1>2. p # None /\ SingletonOf[p] = s
    BY <1>1 DEF QueueInv, JobsHome, Run
  <1>3. UNCHANGED <<row, relay>> /\ active' = [active EXCEPT ![s] = p]
    BY <1>1 DEF Run
  <1>4. \A q \in Keys : fresh'[q] = (q \notin Served(s, p) /\ fresh[q])
    BY <1>1 DEF Run
  <1>5. \A q \in Keys \ Served(s, p) :
          EquivalentPending(q)' = EquivalentPending(q)
    BY <1>1, <1>2, OutboxAssumption
    DEF QueueInv, TypeOK, Jobs, Served, EquivalentPending, Covers
  <1>6. Steady'
    <2>1. JobsHome'
      BY <1>1, <1>2, <1>3 DEF QueueInv, TypeOK, Jobs, JobsHome
    <2>2. BusyWithBatch' /\ OwnedIsLive'
      BY <1>3 DEF QueueInv, BusyWithBatch, OwnedIsLive, Owns, Undelivered,
         LiveLease
    <2>3. \A q \in Keys :
            fresh'[q] => fresh[q] /\ EquivalentPending(q)' = EquivalentPending(q)
      BY <1>4, <1>5
    <2>4. RequestsPending' /\ SentPending'
      BY <1>3, <2>3 DEF QueueInv, RequestsPending, SentPending, Owns, Undelivered
    <2> QED
      BY <2>1, <2>2, <2>4 DEF Steady
  <1>7. QueueStep
    <2>1. PICK S \in SUBSET Keys : S = Served(s, p)
      BY DEF Served
    <2>2. p \in S \cap PendingKeys
      BY <1>1, <1>2, <2>1 DEF PendingKeys, EquivalentPending, Covers, Served
    <2>3. RequestedKeys' = RequestedKeys \ S
      BY <1>4, <2>1 DEF RequestedKeys
    <2>4. PICK P \in SUBSET S : P = PendingKeys' \cap S
      OBVIOUS
    <2>5. PendingKeys' = (PendingKeys \ S) \cup P
      BY <1>3, <1>5, <2>1, <2>4 DEF PendingKeys, Undelivered
    <2>6. Queue!Serve(S)
      BY <2>2, <2>3, <2>5 DEF Queue!Serve, PendingKeys, RequestedKeys
    <2> QED
      BY <2>6 DEF QueueStep, Queue!Next
  <1> QED
    BY <1>6, <1>7

LEMMA EndRepeats ==
  ASSUME QueueInv, NEW s \in Singletons, Finish(s) \/ Retry(s)
  PROVE  Steady' /\ QueueStep
  <1>1. UNCHANGED <<row, relay, created, fresh>>
    BY DEF Finish, Retry
  <1>2. \A q \in Keys : EquivalentPending(q) => EquivalentPending(q)'
    <2>1. CASE Finish(s)
      BY <2>1, PendingUnchanged DEF Finish
    <2>2. CASE Retry(s)
      BY <2>2, PendingKept DEF QueueInv, TypeOK, Jobs, Retry
    <2> QED
      BY <2>1, <2>2
  <1>3. JobsHome'
    BY DEF QueueInv, TypeOK, Jobs, JobsHome, Finish, Retry
  <1>4. Steady'
    BY <1>1, <1>2, <1>3 DEF Steady, QueueInv, BusyWithBatch, OwnedIsLive,
       RequestsPending, SentPending, Owns, Undelivered, LiveLease
  <1> QED
    BY <1>1, <1>2, <1>4, Repeats DEF Undelivered

(* Only the step that ends a pass gives a token away. *)
LEMMA HeldKept ==
  ASSUME TypeOK, TokenHeld, WorkerNext
  PROVE  TokenHeld'
  <1>1. CASE UNCHANGED relay
    BY <1>1 DEF TokenHeld
  <1>2. ASSUME NEW r \in Relays, RelayStep(r) PROVE TokenHeld'
    <2>1. \A x \in Relays \ {r} : relay'[x] = relay[x]
      BY <1>2 DEF TypeOK, RelayStep, Claim, Reject, Send, SendUnanswered, Turn,
         CheckEquivalent, DatabaseFails, Complete, Keep, EndTurn, Crash
    <2>2. relay'[r].phase # "next" \/ relay'[r].todo # {}
          => relay'[r].token # None
      BY <1>2, OutboxAssumption
      DEF TypeOK, TokenHeld, RelayStep, Claim, Reject, Send, SendUnanswered, Turn,
          At, CheckEquivalent, DatabaseFails, Complete, Keep, EndTurn, Crash,
          NoPass, Pass
    <2> QED
      BY <2>1, <2>2 DEF TokenHeld
  <1> QED
    BY <1>1, <1>2 DEF WorkerNext, WorkerStep, WorkerEnqueue, Purge, JobStep,
       StartCreated, StartRetry, Run, Finish, Retry, Tick

LEMMA QueueInductive ==
  ASSUME Punctual, QueueInv, [WorkerNext]_vars
  PROVE  QueueInv' /\ QueueStep
  <1>1. CASE UNCHANGED vars
    <2>1. \A q \in Keys : EquivalentPending(q)' = EquivalentPending(q)
      BY <1>1, PendingUnchanged DEF vars
    <2>2. QueueStep
      BY <1>1, <2>1, Unseen DEF vars, Undelivered
    <2>3. Steady'
      BY <1>1, <2>1 DEF vars, Steady, QueueInv, JobsHome, BusyWithBatch,
         OwnedIsLive, RequestsPending, SentPending, Owns, Undelivered, LiveLease
    <2>4. TypeOK' /\ TokenHeld'
      BY <1>1, TypeInductive DEF QueueInv, TokenHeld, vars
    <2> QED
      BY <2>2, <2>3, <2>4 DEF QueueInv, Steady
  <1>2. CASE WorkerNext
    <2>1. Steady' /\ QueueStep
      BY <1>2, EnqueueAsks, ClaimUnseen, SendRepeats, CheckUnseen, EndSettles,
         CrashUnseen, PurgeUnseen, TickUnseen, StartServes, EndRepeats
      DEF WorkerNext, WorkerStep, RelayStep, JobStep
    <2>2. TypeOK'
      BY WorkerNextIsNext, TypeInductive DEF QueueInv
    <2>3. TokenHeld'
      BY <1>2, HeldKept DEF QueueInv
    <2> QED
      BY <2>1, <2>2, <2>3 DEF QueueInv, Steady
  <1> QED
    BY <1>1, <1>2

(* Outbox, relay and broker implement the coalescing queue: no request of  *)
(* a worker leaves the queue before a consumer starts on it.               *)
THEOREM QueueImplemented ==
  ASSUME Punctual
  PROVE  WorkerSpec => ImplementsQueue
  <1>1. Init => QueueInv /\ Queue!Init
    <2>1. Init => Steady
      BY DEF Init, NoJobs, NoPass, Pass, NoRow, Steady, JobsHome, BusyWithBatch,
         OwnedIsLive, RequestsPending, SentPending
    <2>2. Init => TypeOK /\ TokenHeld
      BY TypeInitial DEF Init, TokenHeld, NoPass, Pass
    <2>3. Init => Queue!Init
      <3>1. ASSUME Init, NEW k \in Keys
            PROVE  ~Undelivered(k) /\ ~EquivalentPending(k) /\ ~fresh[k]
        BY <3>1, OutboxAssumption
        DEF Init, NoJobs, NoRow, Undelivered, EquivalentPending, Covers
      <3> QED
        BY <3>1 DEF Queue!Init
    <2> QED
      BY <2>1, <2>2, <2>3 DEF QueueInv, Steady
  <1>2. QueueInv /\ [WorkerNext]_vars
        => QueueInv' /\ [Queue!Next]_<<PendingKeys, RequestedKeys>>
    BY QueueInductive DEF QueueStep
  <1>3. [Queue!Next]_<<PendingKeys, RequestedKeys>>
        => [Queue!Next]_<<{k \in Keys : Undelivered(k) \/ EquivalentPending(k)},
                          {k \in Keys : fresh[k]}>>
    BY DEF PendingKeys, RequestedKeys
  <1> QED
    BY <1>1, <1>2, <1>3, PTL DEF WorkerSpec, ImplementsQueue, Queue!Spec
=============================================================================
