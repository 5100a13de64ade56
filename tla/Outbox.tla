------------------------------- MODULE Outbox -------------------------------
(***************************************************************************)
(* The durable job outbox (packages/db/src/outbox.ts), the relay loop that *)
(* hands its rows to pg-boss (apps/worker/src/outbox-relay.ts) and the     *)
(* start, end and failure of pg-boss jobs.                                 *)
(*                                                                         *)
(* A key stands for one dedupe key of one queue, that is, one payload and  *)
(* revision; a singleton for the singletonKey sendSpecFor gives it.  Time  *)
(* is relative: a row holds the ticks left until it is due and until its   *)
(* lease ends, and Tick lowers them all.                                   *)
(*                                                                         *)
(* fresh and absorbed are history: fresh[k] says that a committed change   *)
(* asked for k and that no consumer has started since; absorbed[k] says    *)
(* how the row that took that request in was not rewritten by it.          *)
(***************************************************************************)
EXTENDS Naturals, FiniteSets

CONSTANTS
  Keys,        \* dedupe keys
  Singletons,  \* pg-boss singleton keys
  SingletonOf, \* the singleton key of each dedupe key
  Rereading,   \* singletons whose pending job covers any payload
  Relays,      \* worker processes, one relay loop each
  Tokens,      \* lease tokens
  None,        \* no key, no token
  BatchSize,   \* rows a pass claims at most
  Lease,       \* ticks a lease lasts
  MaxDelay,    \* longest delay, in ticks
  Punctual     \* whether a relay settles what it claimed within its lease

ASSUME OutboxAssumption ==
  /\ SingletonOf \in [Keys -> Singletons]
  /\ Rereading \subseteq Singletons
  /\ None \notin Keys /\ None \notin Tokens
  /\ BatchSize \in Nat \ {0} /\ Lease \in Nat \ {0} /\ MaxDelay \in Nat \ {0}
  /\ Punctual \in BOOLEAN

VARIABLES
  row,      \* job_outbox: the newest row of each key
  apiTx,    \* the open API transaction that asked for a key
  relay,    \* each relay's pass: its token and what is left of its batch
  created,  \* pg-boss: the payload of each singleton's created job,
  retry,    \*   of its retry job
  active,   \*   and of its active job
  fresh,    \* history: requested, and no start since
  absorbed  \* history: how an existing row took the latest request in

jobs == <<created, retry, active>>
vars == <<row, apiTx, relay, created, retry, active, fresh, absorbed>>

Row == [st: {"absent", "pending", "delivered"}, due: 0..MaxDelay,
        token: Tokens \cup {None}, lease: 0..Lease]
Relay == [token: Tokens \cup {None}, todo: SUBSET Keys,
          cur: Keys \cup {None}, phase: {"next", "sent", "conflict", "keep"}]
Jobs == [Singletons -> Keys \cup {None}]
Absorption == {"no", "inflight", "coalesced", "expired"}
ApiTx == {"none", "inserted", "inflight", "coalesced"}

TypeOK ==
  /\ row \in [Keys -> Row]
  /\ apiTx \in [Keys -> ApiTx]
  /\ relay \in [Relays -> Relay]
  /\ created \in Jobs /\ retry \in Jobs /\ active \in Jobs
  /\ fresh \in [Keys -> BOOLEAN]
  /\ absorbed \in [Keys -> Absorption]

NoRow(st) == [st |-> st, due |-> 0, token |-> None, lease |-> 0]
(* Mutant: due one tick late. *)
IntentLate(d) == [st |-> "pending", due |-> d + 1, token |-> None, lease |-> 0]
Intent(d) == [st |-> "pending", due |-> d, token |-> None, lease |-> 0]
Pass(t, S) == [token |-> t, todo |-> S, cur |-> None, phase |-> "next"]
NoPass == Pass(None, {})
NoJobs == [s \in Singletons |-> None]

Init ==
  /\ row = [k \in Keys |-> NoRow("absent")]
  /\ apiTx = [k \in Keys |-> "none"]
  /\ relay = [r \in Relays |-> NoPass]
  /\ created = NoJobs /\ retry = NoJobs /\ active = NoJobs
  /\ fresh = [k \in Keys |-> FALSE]
  /\ absorbed = [k \in Keys |-> "no"]

Undelivered(k) == row[k].st = "pending"
LiveLease(k) == row[k].lease > 0
Leased(t) == [st |-> "pending", due |-> 0, token |-> t, lease |-> Lease]
ExpiredLease(k) == Undelivered(k) /\ row[k].token # None /\ ~LiveLease(k)

(* A job of payload p does the work of key k: its own payload, or any      *)
(* payload of a singleton whose handler rereads the durable state.         *)
Covers(p, k) ==
  /\ p # None
  /\ p = k \/ SingletonOf[k] \in Rereading

(* hasPendingEquivalentJob: created or retry, same singleton, same payload *)
(* unless any payload will do.                                             *)
EquivalentPending(k) ==
  \/ Covers(created[SingletonOf[k]], k)
  \/ Covers(retry[SingletonOf[k]], k)

-----------------------------------------------------------------------------
(* Producers.  The request and the change it belongs to commit together.   *)

Request(k, how) ==
  /\ fresh' = [fresh EXCEPT ![k] = TRUE]
  /\ absorbed' = [absorbed EXCEPT ![k] = how]

(* insertIntent of an API transaction: ON CONFLICT DO NOTHING leaves an    *)
(* undelivered row as it is, without locking it.                           *)
ApiInsert(k) ==
  /\ apiTx[k] = "none"
  /\ apiTx' = [apiTx EXCEPT ![k] =
                 IF ~Undelivered(k) THEN "inserted"
                 ELSE IF row[k].token # None THEN "inflight" ELSE "coalesced"]
  /\ UNCHANGED <<row, relay, jobs, fresh, absorbed>>

ApiCommit(k) ==
  /\ apiTx[k] # "none"
  /\ apiTx' = [apiTx EXCEPT ![k] = "none"]
  /\ \/ /\ apiTx[k] = "inserted"
        /\ row' = [row EXCEPT ![k] = Intent(0)]
        /\ Request(k, "no")
     \/ /\ apiTx[k] # "inserted"
        /\ Request(k, IF Undelivered(k) /\ row[k].token = None
                      THEN "no" ELSE apiTx[k])
        /\ UNCHANGED row
  /\ UNCHANGED <<relay, jobs>>

ApiRollback(k) ==
  /\ apiTx[k] # "none"
  /\ apiTx' = [apiTx EXCEPT ![k] = "none"]
  /\ UNCHANGED <<row, relay, jobs, fresh, absorbed>>

(* Mutant: a live lease is treated like pending work. *)
RearmsUnleased(k, d, delayed) == ~Undelivered(k) \/ (delayed /\ d < row[k].due)

(* Whether insertWorkerIntent writes the row: no undelivered row, a live   *)
(* lease (the row is re-armed and its lease revoked), or an explicit time  *)
(* earlier than the row's.                                                 *)
Rearms(k, d, delayed) ==
  \/ ~Undelivered(k)
  \/ LiveLease(k)
  \/ delayed /\ d < row[k].due

(* insertWorkerIntent: ON CONFLICT DO UPDATE locks the row until commit; an *)
(* uncommitted API insert of the key makes it wait.                        *)
WorkerEnqueue(k, d, delayed) ==
  /\ apiTx[k] # "inserted"
  /\ row' = IF Rearms(k, d, delayed)
            THEN [row EXCEPT ![k] = Intent(d)]
            ELSE row
  /\ Request(k, IF ExpiredLease(k) /\ ~Rearms(k, d, delayed)
                THEN "expired" ELSE "no")
  /\ UNCHANGED <<apiTx, relay, jobs>>

(* purgeDeliveredOutbox *)
Purge(k) ==
  /\ row[k].st = "delivered"
  /\ row' = [row EXCEPT ![k] = NoRow("absent")]
  /\ UNCHANGED <<apiTx, relay, jobs, fresh, absorbed>>

-----------------------------------------------------------------------------
(* The relay: claim a batch, then for each row send, and settle the row    *)
(* with the token of the claim.                                            *)

FreshToken(t) ==
  /\ \A r \in Relays : relay[r].token # t
  /\ \A k \in Keys : row[k].token # t

(* Mutant: expired leases are not reclaimed. *)
ClaimableUnleased(k) == Undelivered(k) /\ row[k].due = 0 /\ row[k].token = None

(* claimOutboxIntents' WHERE clause *)
Claimable(k) == Undelivered(k) /\ row[k].due = 0 /\ ~LiveLease(k)

Claim(r, S, t) ==
  /\ relay[r] = NoPass
  /\ S # {} /\ Cardinality(S) <= BatchSize
  /\ \A k \in S : Claimable(k)
  /\ FreshToken(t)
  /\ row' = [k \in Keys |-> IF k \in S
                            THEN Leased(t)
                            ELSE row[k]]
  /\ relay' = [relay EXCEPT ![r] = Pass(t, S)]
  /\ UNCHANGED <<apiTx, jobs, fresh, absorbed>>

(* Relay r turns to row k of its batch. *)
At(r, k, phase) == [token |-> relay[r].token, todo |-> relay[r].todo,
                    cur |-> k, phase |-> phase]
Turn(r, k, phase) ==
  /\ relay[r].phase = "next" /\ k \in relay[r].todo
  /\ relay' = [relay EXCEPT ![r] = At(r, k, phase)]

(* Unknown queue, invalid payload, stage unavailable, missing queue, or a  *)
(* send that failed before the broker stored a job.                        *)
Reject(r, k) ==
  /\ Turn(r, k, "keep")
  /\ UNCHANGED <<row, apiTx, jobs, fresh, absorbed>>

(* pg-boss stores a job when its singleton has none in state created.      *)
Send(r, k) ==
  LET s == SingletonOf[k] IN
  \/ /\ created[s] = None
     /\ Turn(r, k, "sent")
     /\ created' = [created EXCEPT ![s] = k]
     /\ UNCHANGED <<row, apiTx, retry, active, fresh, absorbed>>
  \/ /\ created[s] # None
     /\ Turn(r, k, "conflict")
     /\ UNCHANGED <<row, apiTx, jobs, fresh, absorbed>>

(* The broker stores the job and the answer is lost. *)
SendUnanswered(r, k) ==
  /\ created[SingletonOf[k]] = None
  /\ Turn(r, k, "keep")
  /\ created' = [created EXCEPT ![SingletonOf[k]] = k]
  /\ UNCHANGED <<row, apiTx, retry, active, fresh, absorbed>>

(* A null send counts as delivery only with an equivalent pending job.     *)
CheckEquivalent(r) ==
  /\ relay[r].phase = "conflict"
  /\ relay' = [relay EXCEPT ![r] = At(r, relay[r].cur,
                 IF EquivalentPending(relay[r].cur) THEN "sent" ELSE "keep")]
  /\ UNCHANGED <<row, apiTx, jobs, fresh, absorbed>>

(* The check for an equivalent job, or the acknowledgement, fails. *)
DatabaseFails(r) ==
  /\ relay[r].phase \in {"sent", "conflict"}
  /\ relay' = [relay EXCEPT ![r] = At(r, relay[r].cur, "keep")]
  /\ UNCHANGED <<row, apiTx, jobs, fresh, absorbed>>

(* Mutant: the token is not compared. *)
OwnsAny(r, k) == Undelivered(k)

Owns(r, k) == Undelivered(k) /\ row[k].token = relay[r].token

EndTurn(r) ==
  LET left == relay[r].todo \ {relay[r].cur} IN
  relay' = [relay EXCEPT ![r] =
              IF left = {} THEN NoPass ELSE Pass(relay[r].token, left)]

(* completeOutboxIntent *)
Complete(r) ==
  LET k == relay[r].cur IN
  /\ relay[r].phase = "sent"
  /\ row' = IF Owns(r, k) THEN [row EXCEPT ![k] = NoRow("delivered")] ELSE row
  /\ EndTurn(r)
  /\ UNCHANGED <<apiTx, jobs, fresh, absorbed>>

(* failOutboxIntent *)
Keep(r, d) ==
  LET k == relay[r].cur IN
  /\ relay[r].phase = "keep"
  /\ row' = IF Owns(r, k) THEN [row EXCEPT ![k] = Intent(d)] ELSE row
  /\ EndTurn(r)
  /\ UNCHANGED <<apiTx, jobs, fresh, absorbed>>

(* The worker process dies and a new one starts: its pass is forgotten,    *)
(* its leases stay in the rows.                                            *)
Crash(r) ==
  /\ relay[r] # NoPass
  /\ relay' = [relay EXCEPT ![r] = NoPass]
  /\ UNCHANGED <<row, apiTx, jobs, fresh, absorbed>>

-----------------------------------------------------------------------------
(* pg-boss consumers.  A starting handler reads the durable state, so it   *)
(* serves every request its payload covers.                                *)

Served(s, p) == {k \in Keys : SingletonOf[k] = s /\ Covers(p, k)}

Run(s, p) ==
  /\ p # None /\ active[s] = None
  /\ active' = [active EXCEPT ![s] = p]
  /\ fresh' = [k \in Keys |-> k \notin Served(s, p) /\ fresh[k]]
  /\ absorbed' = [k \in Keys |->
                    IF k \in Served(s, p) THEN "no" ELSE absorbed[k]]
  /\ UNCHANGED <<row, apiTx, relay>>

StartCreated(s) ==
  /\ Run(s, created[s])
  /\ created' = [created EXCEPT ![s] = None]
  /\ UNCHANGED retry

StartRetry(s) ==
  /\ Run(s, retry[s])
  /\ retry' = [retry EXCEPT ![s] = None]
  /\ UNCHANGED created

(* The job completes, or fails for good. *)
Finish(s) ==
  /\ active[s] # None
  /\ active' = [active EXCEPT ![s] = None]
  /\ UNCHANGED <<row, apiTx, relay, created, retry, fresh, absorbed>>

(* A failed or expired job goes back to retry while retries remain.        *)
Retry(s) ==
  /\ active[s] # None /\ retry[s] = None
  /\ active' = [active EXCEPT ![s] = None]
  /\ retry' = [retry EXCEPT ![s] = active[s]]
  /\ UNCHANGED <<row, apiTx, relay, created, fresh, absorbed>>

-----------------------------------------------------------------------------
(* A punctual relay settles the rows of its batch before their lease ends. *)
LeaseHeldToEnd ==
  \E r \in Relays : \E k \in relay[r].todo : Owns(r, k) /\ row[k].lease = 1

Minus1(n) == IF n = 0 THEN 0 ELSE n - 1

Tick ==
  /\ Punctual => ~LeaseHeldToEnd
  /\ \E k \in Keys : row[k].due > 0 \/ LiveLease(k)
  /\ row' = [k \in Keys |->
               [st |-> row[k].st, due |-> Minus1(row[k].due),
                token |-> row[k].token, lease |-> Minus1(row[k].lease)]]
  /\ UNCHANGED <<apiTx, relay, jobs, fresh, absorbed>>

ApiStep(k) == ApiInsert(k) \/ ApiCommit(k) \/ ApiRollback(k)
WorkerStep(k) ==
  \/ WorkerEnqueue(k, 0, FALSE)
  \/ \E d \in 0..MaxDelay : WorkerEnqueue(k, d, TRUE)
RelayStep(r) ==
  \/ \E S \in SUBSET Keys, t \in Tokens : Claim(r, S, t)
  \/ \E k \in Keys : Reject(r, k) \/ Send(r, k) \/ SendUnanswered(r, k)
  \/ CheckEquivalent(r) \/ DatabaseFails(r) \/ Complete(r)
  \/ \E d \in 1..MaxDelay : Keep(r, d)
  \/ Crash(r)
JobStep(s) ==
  \/ StartCreated(s) \/ StartRetry(s) \/ Finish(s) \/ Retry(s)

Next ==
  \/ \E k \in Keys : ApiStep(k) \/ WorkerStep(k) \/ Purge(k)
  \/ \E r \in Relays : RelayStep(r)
  \/ \E s \in Singletons : JobStep(s)
  \/ Tick

Spec == Init /\ [][Next]_vars

(* Without the API role's INSERT-only writer. *)
WorkerNext ==
  \/ \E k \in Keys : WorkerStep(k) \/ Purge(k)
  \/ \E r \in Relays : RelayStep(r)
  \/ \E s \in Singletons : JobStep(s)
  \/ Tick

WorkerSpec == Init /\ [][WorkerNext]_vars

(* Fairness: the relay loop and the pg-boss consumers keep running (a      *)
(* crashed worker is restarted), the broker does not refuse a row forever, *)
(* and claims go oldest first, so that no due row is passed over forever.  *)
Fairness ==
  /\ WF_vars(Tick)
  /\ \A r \in Relays :
       /\ \A k \in Keys :
            /\ SF_vars(\E S \in SUBSET Keys, t \in Tokens :
                         k \in S /\ Claim(r, S, t))
            /\ SF_vars(Send(r, k))
       /\ SF_vars(CheckEquivalent(r))
       /\ SF_vars(Complete(r))
       /\ SF_vars(\E d \in 1..MaxDelay : Keep(r, d))
  /\ \A s \in Singletons :
       /\ SF_vars(StartCreated(s)) /\ SF_vars(StartRetry(s))
       /\ WF_vars(Finish(s))

FairWorkerSpec == WorkerSpec /\ Fairness

-----------------------------------------------------------------------------
(* Every request is still on its way - an undelivered row, or a created or *)
(* retry job that does its work - until a consumer starts on it, unless a  *)
(* row the relay may already have sent took it in: a leased row for the    *)
(* API, a row with an expired lease for the worker, or a row that was      *)
(* claimed between the API's insert and its commit.                        *)
(* (outbox.ts: insertIntent, insertWorkerIntent, completeOutboxIntent;     *)
(* relayIntent's rule for a null send.)                                    *)
RequestsCovered ==
  \A k \in Keys : fresh[k] /\ absorbed[k] = "no" =>
    Undelivered(k) \/ EquivalentPending(k)

(* While a relay that owns k's row is about to mark it delivered, the      *)
(* requests the row stands for have a job that has not started.            *)
SentCovered ==
  \A r \in Relays, k \in Keys :
    /\ relay[r].phase = "sent" /\ relay[r].cur = k /\ Owns(r, k)
    /\ fresh[k] /\ absorbed[k] = "no"
    => EquivalentPending(k)

(* Between them the outbox and the broker are a queue that merges requests *)
(* and never loses one: what spec 02 section 3.2 promises of worker        *)
(* requests.                                                               *)
Queue == INSTANCE CoalescingQueue WITH
  pending <- {k \in Keys : Undelivered(k) \/ EquivalentPending(k)},
  requested <- {k \in Keys : fresh[k]}
ImplementsQueue == Queue!Spec

(* Every worker request is served by a consumer that starts after it,      *)
(* through crashes, lost answers and singleton conflicts.                  *)
RequestsServed == Queue!Liveness
=============================================================================
