---------------------------- MODULE SpendLedger ----------------------------
(***************************************************************************)
(* The spend guard: engine_reservations, engine_calls and usage_daily      *)
(* (packages/db/src/engine/store.ts), the router's attempts against them   *)
(* (packages/engine/src/router.ts), and the housekeeping that settles what *)
(* the router left behind (packages/db/src/house/reconcile.ts and          *)
(* purge-engine-calls.ts).                                                 *)
(*                                                                         *)
(* An attempt is one paid wire attempt of one engine with its reservation  *)
(* and call row.  Amounts are multiples of the stored 1e-8 USD.  The       *)
(* usage_daily bucket of a day is the sum over the attempts of what each   *)
(* added to it: usageCalls and usageCost, by attempt and day.  What the same *)
(* transactions mark in settings is in BudgetAlerts.                       *)
(***************************************************************************)
EXTENDS Naturals, FiniteSets, FiniteSetsExt

CONSTANTS
  Attempts,    \* wire attempts
  None,        \* no attempt
  Kinds,       \* call kinds
  Exempt,      \* kinds outside the production budget
  Groups,      \* call-cap groups
  GroupOf,     \* the group of each kind: capKinds
  CallCap,     \* daily attempts a group may reserve
  Costs,       \* amounts an attempt is estimated at, or billed
  Budget,      \* daily production budget
  Allowance,   \* what interactive attempts may use beyond it
  MaxDay,      \* days 0..MaxDay are modelled
  SettleDays,  \* days an uncertain reservation waits
  SettleTries  \* tries of a settlement or release

ASSUME LedgerAssumption ==
  /\ IsFiniteSet(Attempts) /\ None \notin Attempts
  /\ Kinds # {} /\ Costs # {} /\ Exempt \subseteq Kinds
  /\ GroupOf \in [Kinds -> Groups] /\ CallCap \in [Groups -> Nat]
  /\ Costs \subseteq Nat /\ Budget \in Nat /\ Allowance \in Nat
  /\ MaxDay \in Nat /\ SettleDays \in Nat /\ SettleTries \in Nat \ {0}

Days == 0..MaxDay

VARIABLES
  today,       \* the UTC day
  lock,        \* the budget advisory lock of each day: its holder
  pc,          \* where the router is with each attempt
  req,         \* each attempt's day, kind, estimate and priority
  answer,      \* how its send ended: billing and cost
  tries,       \* tries of its settlement or release
  rst,         \* engine_reservations.status
  actual,      \* engine_reservations.actual_usd
  call,        \* engine_calls.billing of the attempt's row
  usageCalls,  \* usage_daily.calls, by attempt and day
  usageCost,   \* usage_daily.cost_usd, by attempt and day
  wire         \* history: whether the attempt was sent

ledger == <<rst, actual, call, usageCalls, usageCost>>
vars == <<today, lock, pc, req, answer, tries, ledger, wire>>

Steps == {"idle", "asked", "locked", "checked", "reserved", "sent",
          "answered", "releasing", "done"}
Requests == [day: Days, kind: Kinds, est: Costs,
             prio: {"interactive", "bulk"}]
NoRequest == CHOOSE q \in Requests : q.day = 0
Answers == [billing: {"known", "uncertain"}, cost: Costs \cup {0}]

TypeOK ==
  /\ today \in Days
  /\ lock \in [Days -> Attempts \cup {None}]
  /\ pc \in [Attempts -> Steps]
  /\ req \in [Attempts -> Requests]
  /\ answer \in [Attempts -> Answers]
  /\ tries \in [Attempts -> 0..SettleTries]
  /\ rst \in [Attempts -> {"none", "reserved", "settled", "uncertain"}]
  /\ actual \in [Attempts -> Nat]
  /\ call \in [Attempts -> {"none", "known", "uncertain"}]
  /\ usageCalls \in [Attempts \X Days -> Nat]
  /\ usageCost \in [Attempts \X Days -> Nat]
  /\ wire \in [Attempts -> BOOLEAN]

Init ==
  /\ today = 0
  /\ lock = [d \in Days |-> None]
  /\ pc = [a \in Attempts |-> "idle"]
  /\ req = [a \in Attempts |-> NoRequest]
  /\ answer = [a \in Attempts |-> [billing |-> "uncertain", cost |-> 0]]
  /\ tries = [a \in Attempts |-> 0]
  /\ rst = [a \in Attempts |-> "none"]
  /\ actual = [a \in Attempts |-> 0]
  /\ call = [a \in Attempts |-> "none"]
  /\ usageCalls = [x \in Attempts \X Days |-> 0]
  /\ usageCost = [x \in Attempts \X Days |-> 0]
  /\ wire = [a \in Attempts |-> FALSE]

Goto(a, step) == pc' = [pc EXCEPT ![a] = step]
Unlock(a) == lock' = [lock EXCEPT ![req[a].day] = None]

-----------------------------------------------------------------------------
(* Admission: reserveSpend's transaction.                                  *)

(* The router fixes the budget day before it asks for the reservation. *)
Ask(a, q) ==
  /\ pc[a] = "idle"
  /\ q.day = today
  /\ req' = [req EXCEPT ![a] = q]
  /\ Goto(a, "asked")
  /\ UNCHANGED <<today, lock, answer, tries, ledger, wire>>

(* Mutant: the day's lock is not waited for. *)
TakeLockAnyway(a) ==
  /\ pc[a] = "asked"
  /\ lock' = [lock EXCEPT ![req[a].day] = a]
  /\ Goto(a, "locked")
  /\ UNCHANGED <<today, req, answer, tries, ledger, wire>>

TakeLock(a) ==
  /\ pc[a] = "asked" /\ lock[req[a].day] = None
  /\ lock' = [lock EXCEPT ![req[a].day] = a]
  /\ Goto(a, "locked")
  /\ UNCHANGED <<today, req, answer, tries, ledger, wire>>

(* reserved_calls of a day and cap group *)
Counted(d, g) ==
  {a \in Attempts : /\ rst[a] # "none"
                    /\ req[a].day = d /\ GroupOf[req[a].kind] = g}

(* Mutant: an uncertain reservation is taken for free. *)
ChargeReserved(a) == IF rst[a] = "reserved" THEN req[a].est ELSE actual[a]

Charge(a) == IF rst[a] = "settled" THEN actual[a] ELSE req[a].est

Production(d) ==
  {a \in Attempts : /\ rst[a] # "none"
                    /\ req[a].day = d /\ req[a].kind \notin Exempt}

(* admin_committed_spend *)
Committed(d) == MapThenSumSet(Charge, Production(d))

Limit(prio) == IF prio = "interactive" THEN Budget + Allowance ELSE Budget

(* The authorization holds, the cap has room and the budget allows it. *)
Check(a) ==
  LET q == req[a] IN
  /\ pc[a] = "locked"
  /\ Cardinality(Counted(q.day, GroupOf[q.kind])) < CallCap[GroupOf[q.kind]]
  /\ q.kind \notin Exempt => Committed(q.day) + q.est <= Limit(q.prio)
  /\ Goto(a, "checked")
  /\ UNCHANGED <<today, lock, req, answer, tries, ledger, wire>>

(* The insert and the commit, which frees the lock; the answer may be lost *)
(* and the reservation with it.                                            *)
Insert(a) ==
  /\ pc[a] = "checked"
  /\ rst' = [rst EXCEPT ![a] = "reserved"]
  /\ Unlock(a)
  /\ Goto(a, "reserved") \/ Goto(a, "done")
  /\ UNCHANGED <<today, req, answer, tries, actual, call, usageCalls,
                 usageCost, wire>>

(* No authorization, no room, or the transaction fails. *)
Refuse(a) ==
  /\ pc[a] \in {"locked", "checked"}
  /\ Unlock(a)
  /\ Goto(a, "done")
  /\ UNCHANGED <<today, req, answer, tries, ledger, wire>>

-----------------------------------------------------------------------------
(* The attempt.                                                            *)

(* Cancelled while the reservation was admitted. *)
Cancel(a) ==
  /\ pc[a] = "reserved"
  /\ Goto(a, "releasing")
  /\ UNCHANGED <<today, lock, req, answer, tries, ledger, wire>>

Send(a) ==
  /\ pc[a] = "reserved"
  /\ Goto(a, "sent")
  /\ wire' = [wire EXCEPT ![a] = TRUE]
  /\ UNCHANGED <<today, lock, req, answer, tries, ledger>>

(* The adapter's answer; unknown billing costs nothing yet. *)
Answer(a, b, c) ==
  /\ pc[a] = "sent"
  /\ b = "uncertain" => c = 0
  /\ answer' = [answer EXCEPT ![a] = [billing |-> b, cost |-> c]]
  /\ Goto(a, "answered")
  /\ UNCHANGED <<today, lock, req, tries, ledger, wire>>

(* A try ends with an acknowledgement, or without one: then there is       *)
(* another, up to SettleTries (settleWithRetry, releaseUnsent).            *)
Acknowledged(a) ==
  /\ Goto(a, "done")
  /\ UNCHANGED tries

Unacknowledged(a) ==
  /\ tries' = [tries EXCEPT ![a] = @ + 1]
  /\ pc' = IF tries[a] + 1 = SettleTries
           THEN [pc EXCEPT ![a] = "done"] ELSE pc

(* Mutant: the release looks at neither the status nor the call rows. *)
DeleteAlways(a) ==
  /\ rst' = [rst EXCEPT ![a] = "none"]
  /\ UNCHANGED <<actual, call, usageCalls, usageCost>>

(* releaseReservation *)
DeleteReserved(a) ==
  /\ rst' = IF rst[a] = "reserved" /\ call[a] = "none"
            THEN [rst EXCEPT ![a] = "none"] ELSE rst
  /\ UNCHANGED <<actual, call, usageCalls, usageCost>>

Release(a) ==
  /\ pc[a] = "releasing"
  /\ DeleteReserved(a)
  /\ Acknowledged(a) \/ Unacknowledged(a)
  /\ UNCHANGED <<today, lock, req, answer, wire>>

-----------------------------------------------------------------------------
(* Settlement.                                                             *)

(* upsertUsageRow on the reservation's day *)
AddUsage(a, calls, cost) ==
  /\ usageCalls' = [usageCalls EXCEPT ![<<a, req[a].day>>] = @ + calls]
  /\ usageCost' = [usageCost EXCEPT ![<<a, req[a].day>>] = @ + cost]

(* The attempt's call row exists: a replay changes nothing, except a known *)
(* settlement of an uncertain row.                                         *)
Reconciles(a, b) == call[a] = "uncertain" /\ rst[a] = "uncertain" /\ b = "known"

Reconciled(a, c) ==
  /\ call' = [call EXCEPT ![a] = "known"]
  /\ rst' = [rst EXCEPT ![a] = "settled"]
  /\ actual' = [actual EXCEPT ![a] = c]
  /\ AddUsage(a, 0, c)

(* Mutant: housekeeping's settlement is not noticed. *)
FirstOfAny(a) == call[a] = "none"

(* No call row, and housekeeping has not settled the reservation. *)
First(a) == call[a] = "none" /\ rst[a] # "settled"

Recorded(a, b, c) ==
  /\ call' = [call EXCEPT ![a] = b]
  /\ rst' = [rst EXCEPT ![a] = IF b = "known" THEN "settled" ELSE "uncertain"]
  /\ actual' = [actual EXCEPT ![a] = IF b = "known" THEN c ELSE @]
  /\ AddUsage(a, 1, c)

(* settleReservation's transaction commits. *)
Settlement(a, b, c) ==
  \/ First(a) /\ Recorded(a, b, c)
  \/ Reconciles(a, b) /\ Reconciled(a, c)
  \/ ~First(a) /\ ~Reconciles(a, b) /\ UNCHANGED ledger

Settle(a) ==
  /\ pc[a] = "answered"
  /\ Settlement(a, answer[a].billing, answer[a].cost)
  /\ Acknowledged(a) \/ Unacknowledged(a)
  /\ UNCHANGED <<today, lock, req, answer, wire>>

(* A settlement or release that never reached the database. *)
TryFails(a) ==
  /\ pc[a] \in {"answered", "releasing"}
  /\ Unacknowledged(a)
  /\ UNCHANGED <<today, lock, req, answer, ledger, wire>>

(* What the provider billed becomes known after an uncertain settlement.   *)
(* No caller in the repository does this yet; the store's contract and     *)
(* tests provide for it.                                                   *)
Reconcile(a, c) ==
  /\ Reconciles(a, "known")
  /\ Settlement(a, "known", c)
  /\ UNCHANGED <<today, lock, pc, req, answer, tries, wire>>

(* The process dies; its open transaction rolls back. *)
Crash(a) ==
  /\ pc[a] \notin {"idle", "done"}
  /\ lock' = IF pc[a] \in {"locked", "checked"}
             THEN [lock EXCEPT ![req[a].day] = None] ELSE lock
  /\ Goto(a, "done")
  /\ UNCHANGED <<today, req, answer, tries, ledger, wire>>

-----------------------------------------------------------------------------
(* Housekeeping.                                                           *)

(* Mutant: the expiry refunds the reservation. *)
ExpireRefunds(a) ==
  /\ rst[a] = "reserved"
  /\ rst' = [rst EXCEPT ![a] = "none"]
  /\ UNCHANGED <<today, lock, pc, req, answer, tries, actual, call,
                 usageCalls, usageCost, wire>>

(* expireReservations *)
Expire(a) ==
  /\ rst[a] = "reserved"
  /\ rst' = [rst EXCEPT ![a] = "uncertain"]
  /\ UNCHANGED <<today, lock, pc, req, answer, tries, actual, call,
                 usageCalls, usageCost, wire>>

FoldedCalls(a) == IF call[a] = "none" THEN 1 ELSE 0

(* Mutant: the join with the call rows drops reservations without one. *)
DueJoined(a) ==
  /\ rst[a] = "uncertain" /\ req[a].day + SettleDays <= today
  /\ call[a] # "none"

Due(a) == rst[a] = "uncertain" /\ req[a].day + SettleDays <= today

(* settleUncertainReservations *)
Fold(a) ==
  /\ Due(a)
  /\ rst' = [rst EXCEPT ![a] = "settled"]
  /\ actual' = [actual EXCEPT ![a] = req[a].est]
  /\ AddUsage(a, FoldedCalls(a), req[a].est)
  /\ UNCHANGED <<today, lock, pc, req, answer, tries, call, wire>>

NextDay ==
  /\ today < MaxDay
  /\ today' = today + 1
  /\ UNCHANGED <<lock, pc, req, answer, tries, ledger, wire>>

AttemptStep(a) ==
  \/ \E q \in Requests : Ask(a, q)
  \/ TakeLock(a) \/ Check(a) \/ Insert(a) \/ Refuse(a)
  \/ Cancel(a) \/ Send(a)
  \/ \E b \in {"known", "uncertain"}, c \in Costs \cup {0} : Answer(a, b, c)
  \/ Release(a) \/ Settle(a) \/ TryFails(a) \/ Crash(a)
HouseStep(a) ==
  \/ Expire(a) \/ Fold(a)
  \/ \E c \in Costs : Reconcile(a, c)

Next == (\E a \in Attempts : AttemptStep(a) \/ HouseStep(a)) \/ NextDay

Spec == Init /\ [][Next]_vars

(* Days pass and the daily housekeeping runs. *)
Fairness ==
  /\ WF_vars(NextDay)
  /\ \A a \in Attempts : WF_vars(Expire(a)) /\ WF_vars(Fold(a))

FairSpec == Spec /\ Fairness
-----------------------------------------------------------------------------
(* A recorded or settled attempt counts as one call, on its reservation's  *)
(* day and on no other, whatever raced to settle it: the router's tries,   *)
(* one whose answer was lost, a settlement past midnight, housekeeping.    *)
(* And a reservation that was counted stays: a late release of an attempt  *)
(* never sent does not delete what housekeeping has settled.  (store.ts    *)
(* settle and releaseReservation, settleUncertainReservations.)            *)
CountedOnce ==
  \A a \in Attempts, d \in Days :
    usageCalls[<<a, d>>] =
      IF d = req[a].day /\ (call[a] # "none" \/ rst[a] = "settled")
      THEN 1 ELSE 0

(* The day's usage costs what its settled reservations cost; an unsettled  *)
(* one has cost nothing there yet.  (store.ts settle,                      *)
(* settleUncertainReservations.)                                           *)
CostBooked ==
  \A a \in Attempts, d \in Days :
    usageCost[<<a, d>>] =
      IF d = req[a].day /\ rst[a] = "settled" THEN actual[a] ELSE 0

(* No day and cap group holds more reservations than its cap, however many *)
(* processes reserve at once.  (reserveSpend under the day's lock.)        *)
CapRespected ==
  \A d \in Days, g \in Groups : Cardinality(Counted(d, g)) <= CallCap[g]

(* When a production reservation is admitted, the day's reservations with  *)
(* it stay within the limit of its priority, counting none at more than it *)
(* reserved: only a bill above its reserve can take a day past its budget. *)
(* (reserveSpend; settlements do not take the lock.)                       *)
Owed(a) == IF rst[a] = "settled" /\ actual[a] < req[a].est
           THEN actual[a] ELSE req[a].est
AdmissionWithinLimit ==
  [][\A a \in Attempts :
       rst[a] = "none" /\ rst'[a] = "reserved" /\ req[a].kind \notin Exempt
       => MapThenSumSet(Owed, Production(req[a].day)) + req[a].est
            <= Limit(req[a].prio)]_vars

(* An attempt that may have reached the provider keeps its reservation:    *)
(* neither a cancellation, a crash nor an expiry refunds it.  (router.ts   *)
(* reserveAndSend and releaseUnsent; expireReservations.)                  *)
SentStaysCharged == \A a \in Attempts : wire[a] => rst[a] # "none"

(* Every reservation is released or settled in the end, whatever became of *)
(* its process.  Attempts of the last SettleDays days are still waiting.   *)
EveryReservationSettles ==
  \A a \in Attempts :
    rst[a] # "none" /\ req[a].day + SettleDays <= MaxDay
    ~> rst[a] \in {"none", "settled"}
=============================================================================
