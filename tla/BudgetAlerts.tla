---------------------------- MODULE BudgetAlerts ----------------------------
(***************************************************************************)
(* The crossings of the production budget that the spending transactions   *)
(* mark in settings['engine.budget_alerts'] (markBudgetCrossings in        *)
(* packages/db/src/engine/store.ts), beside SpendLedger.                   *)
(*                                                                         *)
(* A transaction counts what its day has committed, with its own change,   *)
(* and marks what that reaches as it commits.  Until then nobody sees its  *)
(* change.  Admissions of a day exclude each other by the day's lock;      *)
(* settlements take no lock but their reservation's, so two of them, or    *)
(* one and an admission, may count without each other.                     *)
(***************************************************************************)
EXTENDS SpendLedger

CONSTANTS
  Marks,  \* keys of ALERT_THRESHOLDS
  Ratio   \* the share of the budget each stands for, in percent

ASSUME MarksAssumption == Ratio \in [Marks -> Nat \ {0}]

VARIABLES
  alerts,  \* the setting: a day and its marks; without one, day 0 without marks
  tx,      \* the open transaction that holds an attempt's reservation
  blind    \* history: days a bill above its reserve met an open transaction

alertVars == <<alerts, tx, blind>>
allVars == <<vars, alertVars>>

NoTx == [by |-> "nobody", charge |-> 0, due |-> {}]

AlertsTypeOK ==
  /\ TypeOK
  /\ alerts \in [day: Days, marks: SUBSET Marks]
  /\ tx \in [Attempts -> [by: {"nobody", "router", "house"}, charge: Nat,
                          due: SUBSET Marks]]
  /\ blind \in SUBSET Days

AlertsInit ==
  /\ Init
  /\ alerts = [day |-> 0, marks |-> {}]
  /\ tx = [a \in Attempts |-> NoTx]
  /\ blind = {}

-----------------------------------------------------------------------------
(* A transaction.                                                          *)

Reached(total) == {m \in Marks : Budget > 0 /\ 100 * total >= Ratio[m] * Budget}

(* Mutant: the crossings are counted before the reservation is written. *)
CommittedBefore(a, charge) == Committed(req[a].day)

(* admin_committed_spend as the transaction on a's reservation sees it. *)
CommittedWith(a, charge) ==
  charge + MapThenSumSet(Charge, Production(req[a].day) \ {a})

Count(a, by, charge) ==
  /\ tx[a] = NoTx
  /\ tx' = [tx EXCEPT ![a] =
              [by |-> by, charge |-> charge,
               due |-> IF req[a].kind \in Exempt THEN {}
                       ELSE Reached(CommittedWith(a, charge))]]
  /\ UNCHANGED <<vars, alerts, blind>>

(* Each crossing is marked once; a record of a later day stays. *)
Marked(d, due) ==
  IF due = {} \/ alerts.day > d THEN alerts
  ELSE [day |-> d,
        marks |-> due \cup IF alerts.day = d THEN alerts.marks ELSE {}]

OverBills(a) == tx[a].charge > req[a].est

(* Open transactions on the day that have counted without a's change. *)
Beside(a) ==
  {b \in Attempts \ {a} : /\ tx[b] # NoTx /\ req[b].day = req[a].day
                          /\ req[b].kind \notin Exempt}

Commit(a, by) ==
  /\ tx[a].by = by
  /\ alerts' = Marked(req[a].day, tx[a].due)
  /\ blind' = IF req[a].kind \notin Exempt
                 /\ \E b \in Beside(a) : OverBills(a) \/ OverBills(b)
              THEN blind \cup {req[a].day} ELSE blind
  /\ tx' = [tx EXCEPT ![a] = NoTx]

RollBack(a) ==
  /\ tx' = IF tx[a].by = "router" THEN [tx EXCEPT ![a] = NoTx] ELSE tx
  /\ UNCHANGED <<alerts, blind>>

-----------------------------------------------------------------------------
(* The ledger's steps, with their crossings.                               *)

CountAdmission(a) == pc[a] = "checked" /\ Count(a, "router", req[a].est)

CommitAdmission(a) == Insert(a) /\ Commit(a, "router")

CountSettlement(a) ==
  /\ pc[a] = "answered"
  /\ First(a) \/ Reconciles(a, answer[a].billing)
  /\ Count(a, "router",
           IF answer[a].billing = "known" THEN answer[a].cost ELSE req[a].est)

CommitSettlement(a) == Settle(a) /\ Commit(a, "router")

(* A replay that changes nothing marks nothing. *)
Replay(a) ==
  /\ tx[a] = NoTx
  /\ ~ First(a) /\ ~ Reconciles(a, answer[a].billing)
  /\ Settle(a)
  /\ UNCHANGED alertVars

CountReconcile(a, c) == Reconciles(a, "known") /\ Count(a, "house", c)

CommitReconcile(a) == Reconcile(a, tx[a].charge) /\ Commit(a, "house")

(* What holds no reservation row, and what waits for the row's lock. *)
Free(a) ==
  \/ \E q \in Requests : Ask(a, q)
  \/ TakeLock(a) \/ Check(a) \/ Cancel(a) \/ Send(a)
  \/ \E b \in {"known", "uncertain"}, c \in Costs \cup {0} : Answer(a, b, c)
  \/ tx[a] = NoTx /\ (Release(a) \/ Expire(a) \/ Fold(a))

AlertsNext ==
  \/ \E a \in Attempts :
       \/ CountAdmission(a) \/ CommitAdmission(a)
       \/ CountSettlement(a) \/ CommitSettlement(a) \/ Replay(a)
       \/ (\E c \in Costs : CountReconcile(a, c)) \/ CommitReconcile(a)
       \/ (Refuse(a) \/ TryFails(a) \/ Crash(a)) /\ RollBack(a)
       \/ Free(a) /\ UNCHANGED alertVars
  \/ NextDay /\ UNCHANGED alertVars

AlertsSpec == AlertsInit /\ [][AlertsNext]_allVars

-----------------------------------------------------------------------------
(* What the day has committed is marked, whichever transactions overlapped *)
(* and whichever day's came last: an admission's crossing always, and that *)
(* of a bill above its reserve unless its settlement overlapped another    *)
(* transaction that had counted.  (markBudgetCrossings.)                   *)
CrossingsMarked ==
  \A d \in Days \ blind :
    alerts.day <= d =>
      Reached(Committed(d)) \subseteq IF alerts.day = d THEN alerts.marks ELSE {}
=============================================================================
