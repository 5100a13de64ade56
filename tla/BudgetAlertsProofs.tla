------------------------- MODULE BudgetAlertsProofs -------------------------
(***************************************************************************)
(* Proofs about BudgetAlerts: its transactions are the ledger's, split     *)
(* where they count and commit, so that what SpendLedgerProofs proves of   *)
(* the ledger holds beside the crossings too.                              *)
(***************************************************************************)
EXTENDS BudgetAlerts, SpendLedgerProofs

Transactions == [by: {"nobody", "router", "house"}, charge: Nat,
                 due: SUBSET Marks]

AlertsTyped ==
  /\ alerts \in [day: Days, marks: SUBSET Marks]
  /\ tx \in [Attempts -> Transactions]
  /\ blind \in SUBSET Days

(* A reconciliation books an amount of Costs. *)
HouseCharges == \A a \in Attempts : tx[a].by = "house" => tx[a].charge \in Costs

AlertsInv == TypeOK /\ AlertsTyped /\ HouseCharges

LEMMA NoTxType == NoTx \in Transactions /\ NoTx.by = "nobody"
  BY DEF NoTx, Transactions

(* What an attempt asked for, and what its answer cost. *)
LEMMA RequestFields ==
  ASSUME TypeOK, NEW a \in Attempts
  PROVE  /\ req[a].day \in Days /\ req[a].est \in Nat
         /\ answer[a].cost \in Nat
<1>1. req[a] \in Requests /\ answer[a] \in Answers
  BY DEF TypeOK
<1>2. req[a].day \in Days /\ req[a].est \in Costs
  BY <1>1, Zenon DEF Requests
<1>3. answer[a].cost \in Costs \cup {0}
  BY <1>1, Zenon DEF Answers
<1>4. Costs \subseteq Nat
  BY LedgerAssumption
<1>5. req[a].est \in Nat
  BY <1>2, <1>4, Zenon
<1>6. answer[a].cost \in Nat
  <2> DEFINE c == answer[a].cost
  <2>1. c \in Costs \cup {0}
    BY <1>3
  <2> HIDE DEF c
  <2>2. c \in Nat
    BY <1>4, <2>1
  <2> QED
    BY <2>2 DEF c
<1> QED
  BY <1>2, <1>5, <1>6, Zenon

(* A count opens a transaction with its charge. *)
LEMMA CountKeeps ==
  ASSUME AlertsInv, NEW a \in Attempts, NEW by \in {"router", "house"},
         NEW charge \in Nat, Count(a, by, charge),
         by = "house" => charge \in Costs
  PROVE  AlertsTyped' /\ HouseCharges'
<1> DEFINE due == IF req[a].kind \in Exempt THEN {}
                  ELSE Reached(CommittedWith(a, charge))
           t == [by |-> by, charge |-> charge, due |-> due]
<1>1. due \in SUBSET Marks
  BY DEF Reached
<1>2. tx' = [tx EXCEPT ![a] = t] /\ alerts' = alerts /\ blind' = blind
  BY DEF Count
<1> HIDE DEF due
<1>3. t \in Transactions /\ t.by = by /\ t.charge = charge
  BY <1>1 DEF Transactions
<1> HIDE DEF t
<1>4. AlertsTyped'
  BY <1>2, <1>3 DEF AlertsInv, AlertsTyped
<1>5. HouseCharges'
  BY <1>2, <1>3 DEF AlertsInv, AlertsTyped, HouseCharges
<1> QED
  BY <1>4, <1>5

(* A transaction that ends leaves its marks, or none. *)
LEMMA CommitKeeps ==
  ASSUME AlertsInv, NEW a \in Attempts, NEW by, Commit(a, by)
  PROVE  AlertsTyped' /\ HouseCharges'
<1> DEFINE d == req[a].day
<1>1. d \in Days
  BY RequestFields DEF AlertsInv
<1>2. tx[a].due \in SUBSET Marks
  BY DEF AlertsInv, AlertsTyped, Transactions
<1>3. alerts.marks \in SUBSET Marks
  BY DEF AlertsInv, AlertsTyped
<1> DEFINE m == tx[a].due \cup IF alerts.day = d THEN alerts.marks ELSE {}
<1>4. alerts' = alerts \/ alerts' = [day |-> d, marks |-> m]
  BY DEF Commit, Marked
<1>5. m \in SUBSET Marks
  BY <1>2, <1>3
<1>6. blind' \in SUBSET Days
  BY <1>1 DEF Commit, AlertsInv, AlertsTyped
<1>7. tx' = [tx EXCEPT ![a] = NoTx]
  BY DEF Commit
<1> HIDE DEF d, m
<1>8. AlertsTyped'
  BY <1>1, <1>4, <1>5, <1>6, <1>7, NoTxType DEF AlertsInv, AlertsTyped
<1>9. HouseCharges'
  BY <1>7, NoTxType DEF AlertsInv, AlertsTyped, HouseCharges
<1> QED
  BY <1>8, <1>9

LEMMA RollBackKeeps ==
  ASSUME AlertsInv, NEW a \in Attempts, RollBack(a)
  PROVE  AlertsTyped' /\ HouseCharges'
<1>1. /\ tx' = tx \/ tx' = [tx EXCEPT ![a] = NoTx]
      /\ alerts' = alerts /\ blind' = blind
  BY DEF RollBack
<1> QED
  BY <1>1, NoTxType DEF AlertsInv, AlertsTyped, HouseCharges

(* A step of BudgetAlerts is a step of the ledger or leaves it alone. *)
LEMMA LedgerStep ==
  ASSUME AlertsInv, [AlertsNext]_allVars
  PROVE  [Next]_vars
<1>1. CASE UNCHANGED allVars
  BY <1>1 DEF allVars
<1>2. ASSUME NEW a \in Attempts,
             \/ CountAdmission(a) \/ CountSettlement(a)
             \/ \E c \in Costs : CountReconcile(a, c)
      PROVE  UNCHANGED vars
  BY <1>2, Zenon DEF CountAdmission, CountSettlement, CountReconcile, Count
<1>3. ASSUME NEW a \in Attempts, AttemptStep(a) \/ HouseStep(a) PROVE Next
  BY <1>3 DEF Next
<1>4. ASSUME NEW a \in Attempts,
             \/ CommitAdmission(a) \/ CommitSettlement(a) \/ Replay(a)
             \/ Refuse(a) \/ TryFails(a) \/ Crash(a)
      PROVE  AttemptStep(a)
  BY <1>4, Zenon DEF CommitAdmission, CommitSettlement, Replay, AttemptStep
<1>5. ASSUME NEW a \in Attempts, CommitReconcile(a) PROVE HouseStep(a)
  <2>1. tx[a].by = "house" /\ Reconcile(a, tx[a].charge)
    BY <1>5, Zenon DEF CommitReconcile, Commit
  <2>2. tx[a].charge \in Costs
    BY <2>1 DEF AlertsInv, HouseCharges
  <2> QED
    BY <2>1, <2>2, Zenon DEF HouseStep
<1>6. ASSUME NEW a \in Attempts, Free(a) PROVE AttemptStep(a) \/ HouseStep(a)
  BY <1>6, Zenon DEF Free, AttemptStep, HouseStep
<1>7. ASSUME NextDay PROVE Next
  BY <1>7 DEF Next
<1>8. CASE AlertsNext
  <2>1. CASE NextDay
    BY <1>7, <2>1
  <2>2. ASSUME NEW a \in Attempts,
               \/ CountAdmission(a) \/ CommitAdmission(a)
               \/ CountSettlement(a) \/ CommitSettlement(a) \/ Replay(a)
               \/ (\E c \in Costs : CountReconcile(a, c)) \/ CommitReconcile(a)
               \/ (Refuse(a) \/ TryFails(a) \/ Crash(a)) /\ RollBack(a)
               \/ Free(a) /\ UNCHANGED alertVars
        PROVE  Next \/ UNCHANGED vars
    BY <1>2, <1>3, <1>4, <1>5, <1>6, <2>2, Zenon
  <2> QED
    BY <1>8, <2>1, <2>2, Zenon DEF AlertsNext
<1> QED
  BY <1>1, <1>8

LEMMA AlertsStep ==
  ASSUME AlertsInv, TypeOK', [AlertsNext]_allVars
  PROVE  AlertsInv'
<1>1. ASSUME UNCHANGED alertVars PROVE AlertsTyped' /\ HouseCharges'
  BY <1>1 DEF AlertsInv, AlertsTyped, HouseCharges, alertVars
<1>2. ASSUME NEW a \in Attempts, CountAdmission(a)
      PROVE  AlertsTyped' /\ HouseCharges'
  BY <1>2, CountKeeps, RequestFields DEF CountAdmission, AlertsInv
<1>3. ASSUME NEW a \in Attempts, CountSettlement(a)
      PROVE  AlertsTyped' /\ HouseCharges'
  <2> DEFINE c == IF answer[a].billing = "known" THEN answer[a].cost
                  ELSE req[a].est
  <2>1. c \in Nat
    BY RequestFields DEF AlertsInv
  <2>2. Count(a, "router", c)
    BY <1>3 DEF CountSettlement
  <2> HIDE DEF c
  <2> QED
    BY <2>1, <2>2, CountKeeps
<1>4. ASSUME NEW a \in Attempts, NEW c \in Costs, CountReconcile(a, c)
      PROVE  AlertsTyped' /\ HouseCharges'
  <2>1. c \in Nat /\ Count(a, "house", c)
    BY <1>4, LedgerAssumption DEF CountReconcile
  <2> QED
    BY <2>1, CountKeeps
<1>5. ASSUME NEW a \in Attempts,
             CommitAdmission(a) \/ CommitSettlement(a) \/ CommitReconcile(a)
      PROVE  AlertsTyped' /\ HouseCharges'
  <2>1. PICK by : Commit(a, by)
    BY <1>5, Zenon DEF CommitAdmission, CommitSettlement, CommitReconcile
  <2> QED
    BY <2>1, CommitKeeps
<1>6. ASSUME NEW a \in Attempts, RollBack(a) PROVE AlertsTyped' /\ HouseCharges'
  BY <1>6, RollBackKeeps
<1>7. ASSUME NEW a \in Attempts, Replay(a) PROVE UNCHANGED alertVars
  BY <1>7, Zenon DEF Replay
<1>8. AlertsTyped' /\ HouseCharges'
  <2>1. CASE UNCHANGED allVars
    BY <1>1, <2>1 DEF allVars
  <2>2. CASE AlertsNext
    BY <1>1, <1>2, <1>3, <1>4, <1>5, <1>6, <1>7, <2>2, Zenon DEF AlertsNext
  <2> QED
    BY <2>1, <2>2
<1> QED
  BY <1>8 DEF AlertsInv

LEMMA AlertsInductive ==
  TypedTries /\ AlertsInv /\ [AlertsNext]_allVars
    => (TypedTries /\ AlertsInv)' /\ [Next]_vars
<1> SUFFICES ASSUME TypedTries, AlertsInv, [AlertsNext]_allVars
             PROVE  (TypedTries /\ AlertsInv)' /\ [Next]_vars
  OBVIOUS
<1>1. [Next]_vars
  BY LedgerStep
<1>2. TypedTries'
  BY <1>1, TypeInductive
<1>3. AlertsInv'
  BY <1>2, AlertsStep DEF TypedTries
<1> QED
  BY <1>1, <1>2, <1>3

LEMMA AlertsInitial == AlertsInit => Init /\ TypedTries /\ AlertsInv
<1> SUFFICES ASSUME AlertsInit PROVE Init /\ TypedTries /\ AlertsInv
  OBVIOUS
<1>1. Init /\ TypeOK
  BY TypeInitial DEF AlertsInit
<1>2. TypedTries
  BY <1>1, LedgerAssumption DEF TypedTries, TriesLeft, Init
<1>3. 0 \in Days
  BY LedgerAssumption DEF Days
<1>4. AlertsTyped /\ HouseCharges
  BY <1>3, NoTxType DEF AlertsInit, AlertsTyped, HouseCharges
<1> QED
  BY <1>1, <1>2, <1>4 DEF AlertsInv

(* Splitting the transactions and marking crossings leaves the ledger what *)
(* it is: every behaviour with the marks is one of SpendLedger, and what is *)
(* proved of that holds here.  (reserveSpend and settle around              *)
(* markBudgetCrossings.)                                                   *)
THEOREM LedgerImplemented == AlertsSpec => Spec
  BY AlertsInitial, AlertsInductive, PTL DEF AlertsSpec, Spec

(* Call caps hold beside the marks: no day and cap group ever holds more   *)
(* reservations than its cap.  (reserveSpend under the day's lock.)        *)
THEOREM CapsHoldBesideAlerts == AlertsSpec => []CapRespected
  BY LedgerImplemented, CapIsRespected, PTL

(* The record names a day and marks of the code's thresholds, and an open  *)
(* transaction its charge and the marks it will leave.                     *)
THEOREM AlertsTypeCorrect == AlertsSpec => []AlertsTypeOK
<1>1. AlertsInv => AlertsTypeOK
  BY DEF AlertsInv, AlertsTyped, AlertsTypeOK, Transactions
<1> QED
  BY <1>1, AlertsInitial, AlertsInductive, PTL DEF AlertsSpec

(* What splitting admissions and settlements leaves within their limits.   *)
(* (reserveSpend.)                                                         *)
THEOREM AdmissionsWithinLimitBesideAlerts == AlertsSpec => AdmissionWithinLimit
  BY LedgerImplemented, AdmissionsAreWithinLimit, PTL

-----------------------------------------------------------------------------
(* An open transaction is an admission that was checked, a settlement that *)
(* will change the ledger, or a reconciliation; each will charge what it   *)
(* counted, as nothing else changes the row it holds.                      *)
Settling(a) ==
  /\ pc[a] = "answered"
  /\ First(a) \/ Reconciles(a, answer[a].billing)
  /\ tx[a].charge = IF answer[a].billing = "known" THEN answer[a].cost
                    ELSE req[a].est
Admitting(a) == pc[a] = "checked" /\ tx[a].charge = req[a].est

TxInv ==
  \A a \in Attempts :
    /\ tx[a].by = "nobody" => tx[a] = NoTx
    /\ tx[a].by = "router" => Admitting(a) \/ Settling(a)
    /\ tx[a].by = "house" => Reconciles(a, "known")

(* The transactions that can raise what their day has committed.           *)
Raises(a) ==
  /\ tx[a] # NoTx /\ req[a].kind \notin Exempt
  /\ pc[a] = "checked" \/ OverBills(a)

MarksOf(d) == IF alerts.day = d THEN alerts.marks ELSE {}
SpentOn(d) == SumOn(ChargedBy, Production(d))
SpentBeside(a) == SumOn(ChargedBy, Production(req[a].day) \ {a})

(* What is committed is marked, and what will be is marked or due.         *)
Marking ==
  \A d \in Days \ blind :
    alerts.day <= d =>
      /\ Reached(SpentOn(d)) \subseteq MarksOf(d)
      /\ \A a \in Attempts :
           Raises(a) /\ req[a].day = d
           => Reached(tx[a].charge + SpentBeside(a))
                \subseteq MarksOf(d) \cup tx[a].due

CrossingInv ==
  /\ AlertsInv /\ LedgerInv /\ WireInv /\ LockHeld
  /\ TxInv /\ Marking

LEMMA ReachedMonotonic ==
  ASSUME NEW s \in Nat, NEW t \in Nat, s <= t
  PROVE  Reached(s) \subseteq Reached(t)
<1>1. ASSUME NEW m \in Marks, NEW r, r = Ratio[m] * Budget, 100 * s >= r
      PROVE  100 * t >= r
  <2>1. r \in Nat
    BY <1>1, MarksAssumption, LedgerAssumption
  <2> QED
    BY <1>1, <2>1
<1> QED
  BY <1>1 DEF Reached

LEMMA ChargesType ==
  ASSUME TypeOK, NEW S \in SUBSET Attempts
  PROVE  /\ IsFiniteSet(S) /\ SumOn(ChargedBy, S) \in Nat
         /\ \A x \in S : ChargedBy[x] \in Nat
<1>1. IsFiniteSet(S) /\ \A x \in S : ChargedBy[x] \in Nat
  BY FS_Subset, LedgerAssumption, OwedAtMostCharged
<1> QED
  BY <1>1, SumNat

LEMMA ChargesTypeNext ==
  ASSUME TypeOK', NEW S \in SUBSET Attempts
  PROVE  /\ IsFiniteSet(S) /\ SumOn(ChargedBy', S) \in Nat
         /\ \A x \in S : ChargedBy'[x] \in Nat
<1>1. IsFiniteSet(S)
  BY FS_Subset, LedgerAssumption
<1>2. ASSUME NEW x \in S
      PROVE  ChargedBy'[x] \in Nat
  <2>1. req'[x].est \in Nat /\ actual'[x] \in Nat
    BY LedgerAssumption DEF TypeOK, Requests
  <2> QED
    BY <2>1 DEF ChargedBy, Charge
<1> QED
  BY <1>1, <1>2, SumNat

(* A transaction that counts leaves the ledger alone; any other step that  *)
(* commits none leaves each transaction open or ends it, takes no row of   *)
(* one, and charges no reservation more than before.                       *)
Quiet(a) ==
  \/ Replay(a)
  \/ (Refuse(a) \/ TryFails(a) \/ Crash(a)) /\ RollBack(a)
  \/ Free(a) /\ UNCHANGED alertVars

LEMMA OwnTx ==
  ASSUME CrossingInv, NEW a \in Attempts, tx[a] # NoTx
  PROVE  \/ tx[a].by = "router" /\ pc[a] = "checked" /\ rst[a] = "none"
         \/ tx[a].by = "router" /\ pc[a] = "answered" /\ rst[a] # "none"
         \/ tx[a].by = "house" /\ pc[a] \notin Early /\ rst[a] = "uncertain"
<1>1. tx[a].by \in {"nobody", "router", "house"}
  BY DEF CrossingInv, AlertsInv, AlertsTyped, Transactions
<1>2. \/ tx[a].by = "router" /\ pc[a] = "checked"
      \/ tx[a].by = "router" /\ pc[a] = "answered"
      \/ tx[a].by = "house" /\ rst[a] = "uncertain"
  BY <1>1 DEF CrossingInv, TxInv, Admitting, Settling, Reconciles
<1>3. /\ pc[a] \in Early => rst[a] = "none"
      /\ pc[a] = "answered" => rst[a] # "none"
  BY DEF CrossingInv, LedgerInv, Unstarted, WireInv, Admitted
<1>4. pc[a] = "checked" => pc[a] \in Early
  BY DEF Early
<1> QED
  BY <1>2, <1>3, <1>4

(* A quiet step ends a transaction or leaves it, with its attempt's place. *)
LEMMA QuietTx ==
  ASSUME CrossingInv, NEW a \in Attempts, Quiet(a)
  PROVE  /\ alerts' = alerts /\ blind' = blind
         /\ \A b \in Attempts :
              tx'[b] # NoTx => /\ tx'[b] = tx[b] /\ req'[b] = req[b]
                               /\ call'[b] = call[b] /\ rst'[b] = rst[b]
                               /\ tx[b].by = "router" =>
                                    pc'[b] = pc[b] /\ answer'[b] = answer[b]
                               /\ pc'[b] = "checked" => pc[b] = "checked"
<1>1. TypeOK /\ tx \in [Attempts -> Transactions]
  BY DEF CrossingInv, AlertsInv, AlertsTyped
<1> USE DEF TypeOK, Goto
<1>2. CASE Replay(a)
  <2>1. ledger' = ledger
    BY <1>2 DEF Replay, Settle, Settlement, Reconciles
  <2>2. /\ tx[a] = NoTx /\ UNCHANGED <<alerts, tx, blind, req, answer, rst, call>>
    BY <1>2, <2>1 DEF Replay, Settle, alertVars, ledger
  <2>3. \A b \in Attempts \ {a} : pc'[b] = pc[b]
    BY <1>1, <1>2 DEF Replay, Settle, Acknowledged, Unacknowledged
  <2> QED
    BY <2>2, <2>3
<1>3. CASE (Refuse(a) \/ TryFails(a) \/ Crash(a)) /\ RollBack(a)
  <2>1. /\ UNCHANGED <<alerts, blind, req, answer, rst, call>>
        /\ \A b \in Attempts \ {a} : pc'[b] = pc[b]
        /\ pc'[a] \in {pc[a], "done"}
    BY <1>1, <1>3 DEF RollBack, Refuse, TryFails, Crash, Unacknowledged, ledger
  <2>2. tx' = tx \/ tx' = [tx EXCEPT ![a] = NoTx]
    BY <1>3 DEF RollBack
  <2>3. tx[a].by = "router" => tx'[a] = NoTx
    BY <1>1, <1>3 DEF RollBack
  <2>4. ASSUME NEW b \in Attempts, tx'[b] # NoTx
        PROVE  tx'[b] = tx[b] /\ (b = a => tx[b].by = "house")
    BY <1>1, <2>2, <2>3, <2>4, OwnTx
  <2> QED
    BY <2>1, <2>4
<1>4. CASE Free(a) /\ UNCHANGED alertVars
  <2>0. UNCHANGED <<alerts, blind, tx>>
    BY <1>4 DEF alertVars
  <2>1. \A b \in Attempts \ {a} :
          /\ req'[b] = req[b] /\ call'[b] = call[b] /\ rst'[b] = rst[b]
          /\ answer'[b] = answer[b] /\ pc'[b] = pc[b]
    BY <1>1, <1>4 DEF Free, Ask, TakeLock, Check, Cancel, Send, Answer, Release,
       DeleteReserved, Expire, Fold, Acknowledged, Unacknowledged, ledger
  <2>2. ASSUME tx[a] # NoTx
        PROVE  /\ UNCHANGED <<req, call, rst>>
               /\ pc'[a] # "checked"
               /\ tx[a].by = "house"
    <3>1. \/ TakeLock(a) \/ Check(a) \/ Cancel(a) \/ Send(a)
          \/ \E q \in Requests : Ask(a, q)
          \/ \E b \in {"known", "uncertain"}, c \in Costs \cup {0} : Answer(a, b, c)
      BY <1>4, <2>2 DEF Free
    <3>2. pc[a] \notin {"checked", "answered"}
      BY <3>1 DEF TakeLock, Check, Cancel, Send, Ask, Answer
    <3>3. tx[a].by = "house" /\ pc[a] \notin Early /\ rst[a] = "uncertain"
      BY <2>2, <3>2, OwnTx
    <3>4. Cancel(a) \/ Send(a)
          \/ \E b \in {"known", "uncertain"}, c \in Costs \cup {0} : Answer(a, b, c)
      BY <3>1, <3>3 DEF TakeLock, Check, Ask, Early
    <3> QED
      BY <1>1, <3>3, <3>4 DEF Cancel, Send, Answer, ledger
  <2> QED
    BY <2>0, <2>1, <2>2
<1> QED
  BY <1>2, <1>3, <1>4 DEF Quiet

(* A quiet step adds no reservation and charges none more.                 *)
LEMMA QuietCharges ==
  ASSUME CrossingInv, TypeOK', NEW a \in Attempts, Quiet(a), NEW d
  PROVE  /\ Production(d)' \subseteq Production(d)
         /\ \A x \in Production(d)' : ChargedBy'[x] <= ChargedBy[x]
<1>1. TypeOK /\ Unstarted /\ WireInv
  BY DEF CrossingInv, AlertsInv, LedgerInv
<1>2. \A x \in Attempts : req[x].est \in Nat /\ actual[x] \in Nat
  BY <1>1, LedgerAssumption DEF TypeOK, Requests
<1>3. ASSUME UNCHANGED <<req, rst, actual>>
      PROVE  /\ Production(d)' \subseteq Production(d)
             /\ \A x \in Production(d)' : ChargedBy'[x] <= ChargedBy[x]
  BY <1>2, <1>3 DEF Production, ChargedBy, Charge
<1> USE DEF TypeOK
<1>4. CASE Replay(a)
  BY <1>3, <1>4 DEF Replay, Settle, Settlement, ledger
<1>5. CASE (Refuse(a) \/ TryFails(a) \/ Crash(a)) /\ RollBack(a)
  BY <1>3, <1>5 DEF Refuse, TryFails, Crash, ledger
<1>6. CASE Free(a)
  <2>1. ASSUME NEW q \in Requests, Ask(a, q)
        PROVE  /\ Production(d)' \subseteq Production(d)
               /\ \A x \in Production(d)' : ChargedBy'[x] <= ChargedBy[x]
    <3>1. rst[a] = "none" /\ rst' = rst /\ actual' = actual
      BY <1>1, <2>1 DEF Ask, Unstarted, Early, ledger
    <3>2. \A x \in Attempts : x # a => req'[x] = req[x]
      BY <1>1, <2>1 DEF Ask
    <3> QED
      BY <1>2, <3>1, <3>2 DEF Production, ChargedBy, Charge
  <2>2. CASE Release(a)
    BY <1>1, <1>2, <2>2 DEF Release, DeleteReserved, Production, ChargedBy, Charge
  <2>3. CASE Expire(a)
    BY <1>1, <1>2, <2>3 DEF Expire, Production, ChargedBy, Charge
  <2>4. CASE Fold(a)
    <3>1. /\ req' = req /\ rst[a] = "uncertain" /\ rst'[a] = "settled"
          /\ actual'[a] = req[a].est
          /\ \A x \in Attempts \ {a} : rst'[x] = rst[x] /\ actual'[x] = actual[x]
      BY <1>1, <2>4 DEF Fold, Due
    <3> QED
      BY <1>2, <3>1 DEF Production, ChargedBy, Charge
  <2> QED
    BY <1>3, <1>6, <2>1, <2>2, <2>3, <2>4
    DEF Free, TakeLock, Check, Cancel, Send, Answer, ledger
<1> QED
  BY <1>4, <1>5, <1>6 DEF Quiet

(* A commit changes the row its transaction holds and no other, and        *)
(* charges what it counted.                                                *)
Commits(a) ==
  \/ CommitAdmission(a) \/ CommitSettlement(a) \/ CommitReconcile(a)

LEMMA CommitCharges ==
  ASSUME CrossingInv, NEW a \in Attempts, Commits(a)
  PROVE  /\ Commit(a, tx[a].by) /\ tx[a] # NoTx
         /\ req' = req /\ rst'[a] # "none"
         /\ ChargedBy'[a] = tx[a].charge
         /\ \A x \in Attempts \ {a} :
              /\ rst'[x] = rst[x] /\ ChargedBy'[x] = ChargedBy[x]
              /\ pc'[x] = pc[x] /\ call'[x] = call[x]
         /\ answer' = answer
         /\ \/ pc[a] = "checked" /\ rst[a] = "none"
            \/ /\ pc[a] # "checked" /\ rst[a] # "none"
               /\ ChargedBy[a] = req[a].est
<1>1. TypeOK /\ Unstarted /\ WireInv /\ TxInv
  BY DEF CrossingInv, AlertsInv, LedgerInv
<1> USE DEF TypeOK
<1>2. CASE CommitAdmission(a)
  <2>1. /\ tx[a].by = "router" /\ Commit(a, "router") /\ pc[a] = "checked"
        /\ Insert(a)
    BY <1>2, Zenon DEF CommitAdmission, Commit, Insert
  <2>2. tx[a].charge = req[a].est /\ tx[a] # NoTx
    BY <1>1, <2>1 DEF TxInv, Admitting, Settling, NoTx
  <2>3. rst[a] = "none"
    BY <1>1, <2>1 DEF Unstarted, Early
  <2>4. /\ req' = req /\ actual' = actual /\ call' = call /\ answer' = answer
        /\ rst'[a] = "reserved"
        /\ \A x \in Attempts \ {a} : rst'[x] = rst[x] /\ pc'[x] = pc[x]
    BY <1>1, <2>1 DEF Insert, Goto
  <2>5. /\ ChargedBy'[a] = req[a].est
        /\ \A x \in Attempts \ {a} : ChargedBy'[x] = ChargedBy[x]
    BY <2>4 DEF ChargedBy, Charge
  <2> QED
    BY <2>1, <2>2, <2>3, <2>4, <2>5
<1>3. ASSUME NEW b \in {"known", "uncertain"}, NEW c, Settlement(a, b, c),
             First(a) \/ Reconciles(a, b),
             rst[a] # "none", pc[a] # "checked",
             tx[a].charge = IF b = "known" THEN c ELSE req[a].est, req' = req
      PROVE  /\ rst'[a] # "none" /\ ChargedBy'[a] = tx[a].charge
             /\ \A x \in Attempts \ {a} :
                  /\ rst'[x] = rst[x] /\ ChargedBy'[x] = ChargedBy[x]
                  /\ call'[x] = call[x]
             /\ ChargedBy[a] = req[a].est
  <2>1. CASE First(a) /\ Recorded(a, b, c)
    BY <1>1, <1>3, <2>1 DEF First, Recorded, ChargedBy, Charge
  <2>2. CASE Reconciles(a, b) /\ Reconciled(a, c)
    BY <1>1, <1>3, <2>2 DEF Reconciles, Reconciled, ChargedBy, Charge
  <2> QED
    BY <1>3, <2>1, <2>2 DEF Settlement
<1>4. CASE CommitSettlement(a)
  <2>1. /\ tx[a].by = "router" /\ Commit(a, "router") /\ pc[a] = "answered"
        /\ Settle(a)
    BY <1>4, Zenon DEF CommitSettlement, Commit, Settle
  <2>2. Settling(a) /\ tx[a] # NoTx /\ rst[a] # "none"
    BY <1>1, <2>1 DEF TxInv, Admitting, Settling, NoTx, WireInv, Admitted
  <2>3. answer[a].billing \in {"known", "uncertain"}
    <3>1. answer[a] \in Answers
      BY <1>1
    <3> QED
      BY <3>1, Zenon DEF Answers
  <2>4. /\ Settlement(a, answer[a].billing, answer[a].cost)
        /\ req' = req /\ answer' = answer
        /\ \A x \in Attempts \ {a} : pc'[x] = pc[x]
    BY <1>1, <2>1 DEF Settle, Acknowledged, Unacknowledged, Goto
  <2> QED
    BY <1>3, <2>1, <2>2, <2>3, <2>4 DEF Settling
<1>5. CASE CommitReconcile(a)
  <2>1. /\ tx[a].by = "house" /\ Commit(a, "house")
        /\ Reconciles(a, "known") /\ Settlement(a, "known", tx[a].charge)
        /\ req' = req /\ pc' = pc /\ answer' = answer
    BY <1>5, Zenon DEF CommitReconcile, Commit, Reconcile
  <2>2. tx[a] # NoTx /\ rst[a] # "none" /\ pc[a] # "checked"
    BY <1>1, <2>1 DEF NoTx, Reconciles, Unstarted, Early
  <2> QED
    BY <1>3, <2>1, <2>2
<1> QED
  BY <1>2, <1>4, <1>5 DEF Commits

Counts(a) ==
  \/ CountAdmission(a) \/ CountSettlement(a)
  \/ \E c \in Costs : CountReconcile(a, c)

(* Each step counts, commits, is quiet, or leaves the ledger to the next   *)
(* day.                                                                    *)
LEMMA StepKinds ==
  ASSUME [AlertsNext]_allVars
  PROVE  \/ \E a \in Attempts : Counts(a) \/ Commits(a) \/ Quiet(a)
         \/ UNCHANGED <<lock, pc, req, answer, tries, ledger, alertVars>>
<1>1. CASE UNCHANGED allVars
  BY <1>1, Zenon DEF allVars, vars
<1>2. CASE AlertsNext
  BY <1>2, Zenon DEF AlertsNext, Counts, Commits, Quiet, NextDay
<1> QED
  BY <1>1, <1>2

(* A count opens a transaction with what it will charge and what is due.   *)
LEMMA CountOpens ==
  ASSUME CrossingInv, NEW a \in Attempts, Counts(a)
  PROVE  /\ UNCHANGED <<vars, alerts, blind>>
         /\ \A b \in Attempts \ {a} : tx'[b] = tx[b]
         /\ tx'[a].by \in {"router", "house"}
         /\ tx'[a].by = "router" => Admitting(a)' \/ Settling(a)'
         /\ tx'[a].by = "house" => Reconciles(a, "known")
         /\ req[a].kind \notin Exempt =>
              tx'[a].due = Reached(tx'[a].charge + SpentBeside(a))
<1>1. /\ TypeOK /\ tx \in [Attempts -> Transactions]
      /\ Production(req[a].day) \ {a} \in SUBSET Attempts
  BY DEF CrossingInv, AlertsInv, AlertsTyped, Production
<1>2. ASSUME NEW by, NEW c, Count(a, by, c)
      PROVE  /\ UNCHANGED <<vars, alerts, blind>>
             /\ \A b \in Attempts \ {a} : tx'[b] = tx[b]
             /\ tx'[a].by = by /\ tx'[a].charge = c
             /\ req[a].kind \notin Exempt =>
                  tx'[a].due = Reached(c + SpentBeside(a))
  <2>1. CommittedWith(a, c) = c + SpentBeside(a)
    BY <1>1, ChargeSum DEF CommittedWith, SpentBeside
  <2> DEFINE due == IF req[a].kind \in Exempt THEN {}
                    ELSE Reached(CommittedWith(a, c))
             t == [by |-> by, charge |-> c, due |-> due]
  <2>2. tx' = [tx EXCEPT ![a] = t] /\ UNCHANGED <<vars, alerts, blind>>
    BY <1>2 DEF Count
  <2>3. req[a].kind \notin Exempt => due = Reached(c + SpentBeside(a))
    BY <2>1
  <2> HIDE DEF due
  <2>4. t.by = by /\ t.charge = c /\ t.due = due
    OBVIOUS
  <2> HIDE DEF t
  <2>5. tx'[a] = t /\ \A b \in Attempts \ {a} : tx'[b] = tx[b]
    BY <1>1, <2>2
  <2> QED
    BY <2>2, <2>3, <2>4, <2>5
<1>3. CASE CountAdmission(a)
  <2>1. Count(a, "router", req[a].est) /\ pc[a] = "checked"
    BY <1>3 DEF CountAdmission
  <2>2. req' = req /\ pc' = pc
    BY <1>2, <2>1 DEF vars
  <2>3. Admitting(a)'
    BY <1>2, <2>1, <2>2 DEF Admitting
  <2> QED
    BY <1>2, <2>1, <2>3
<1>4. CASE CountSettlement(a)
  <2> DEFINE c == IF answer[a].billing = "known" THEN answer[a].cost
                  ELSE req[a].est
  <2>1. /\ Count(a, "router", c) /\ pc[a] = "answered"
        /\ First(a) \/ Reconciles(a, answer[a].billing)
    BY <1>4 DEF CountSettlement
  <2>2. /\ tx'[a].charge = c /\ tx'[a].by = "router"
        /\ UNCHANGED <<vars, alerts, blind>>
        /\ \A b \in Attempts \ {a} : tx'[b] = tx[b]
        /\ req[a].kind \notin Exempt =>
             tx'[a].due = Reached(tx'[a].charge + SpentBeside(a))
    <3> HIDE DEF c
    <3> QED
      BY <1>2, <2>1
  <2>3. UNCHANGED <<req, pc, answer, call, rst>>
    BY <2>2 DEF vars, ledger
  <2>4. Settling(a)'
    BY <2>1, <2>2, <2>3 DEF Settling, First, Reconciles
  <2> QED
    BY <2>2, <2>4
<1>5. ASSUME NEW c \in Costs, CountReconcile(a, c)
      PROVE  /\ UNCHANGED <<vars, alerts, blind>>
             /\ \A b \in Attempts \ {a} : tx'[b] = tx[b]
             /\ tx'[a].by = "house" /\ Reconciles(a, "known")
             /\ req[a].kind \notin Exempt =>
                  tx'[a].due = Reached(tx'[a].charge + SpentBeside(a))
  BY <1>2, <1>5 DEF CountReconcile
<1> QED
  BY <1>3, <1>4, <1>5 DEF Counts

LEMMA TxInductive ==
  ASSUME CrossingInv, [AlertsNext]_allVars
  PROVE  TxInv'
<1>1. /\ TxInv /\ TypeOK /\ tx \in [Attempts -> Transactions]
  BY DEF CrossingInv, AlertsInv, AlertsTyped
<1>2. ASSUME NEW b \in Attempts, tx'[b] = NoTx
      PROVE  /\ tx'[b].by = "nobody" => tx'[b] = NoTx
             /\ tx'[b].by = "router" => (Admitting(b) \/ Settling(b))'
             /\ tx'[b].by = "house" => Reconciles(b, "known")'
  BY <1>2 DEF NoTx
<1>3. ASSUME NEW b \in Attempts, tx'[b] = tx[b], req'[b] = req[b],
             call'[b] = call[b], rst'[b] = rst[b],
             tx[b].by = "router" => pc'[b] = pc[b] /\ answer'[b] = answer[b]
      PROVE  /\ tx'[b].by = "nobody" => tx'[b] = NoTx
             /\ tx'[b].by = "router" => (Admitting(b) \/ Settling(b))'
             /\ tx'[b].by = "house" => Reconciles(b, "known")'
  BY <1>1, <1>3 DEF TxInv, Admitting, Settling, First, Reconciles
<1>4. ASSUME NEW a \in Attempts, Counts(a)
      PROVE  TxInv'
  <2>1. UNCHANGED <<req, call, rst, pc, answer>>
    BY <1>4, CountOpens DEF vars, ledger
  <2>2. \A b \in Attempts \ {a} : tx'[b] = tx[b]
    BY <1>4, CountOpens
  <2>3. /\ tx'[a].by \in {"router", "house"}
        /\ tx'[a].by = "router" => (Admitting(a) \/ Settling(a))'
        /\ tx'[a].by = "house" => Reconciles(a, "known")'
    BY <1>4, <2>1, CountOpens DEF Reconciles
  <2> QED
    BY <1>3, <2>1, <2>2, <2>3 DEF TxInv
<1>5. ASSUME NEW a \in Attempts, Commits(a)
      PROVE  TxInv'
  <2>1. /\ Commit(a, tx[a].by) /\ req' = req /\ answer' = answer
        /\ \A x \in Attempts \ {a} : /\ rst'[x] = rst[x] /\ pc'[x] = pc[x]
                                      /\ call'[x] = call[x]
    BY <1>5, CommitCharges
  <2>2. tx'[a] = NoTx /\ \A x \in Attempts \ {a} : tx'[x] = tx[x]
    BY <1>1, <2>1 DEF Commit
  <2> QED
    BY <1>2, <1>3, <2>1, <2>2 DEF TxInv
<1>6. ASSUME NEW a \in Attempts, Quiet(a)
      PROVE  TxInv'
  BY <1>2, <1>3, <1>6, QuietTx DEF TxInv
<1>7. CASE UNCHANGED <<lock, pc, req, answer, tries, ledger, alertVars>>
  BY <1>1, <1>7 DEF TxInv, Admitting, Settling, First, Reconciles, ledger,
                    alertVars
<1> QED
  BY <1>4, <1>5, <1>6, <1>7, StepKinds

(* What is marked stays marked until a later day's record.                 *)
LEMMA MarksStay ==
  ASSUME CrossingInv, NEW a \in Attempts, Commit(a, tx[a].by),
         NEW d \in Days, alerts'.day <= d
  PROVE  /\ alerts.day <= d /\ MarksOf(d) \subseteq MarksOf(d)'
         /\ d = req[a].day => tx[a].due \subseteq MarksOf(d)'
<1>1. /\ alerts.day \in Nat /\ d \in Nat /\ req[a].day \in Nat
  BY RequestFields, LedgerAssumption DEF CrossingInv, AlertsInv, AlertsTyped, Days
<1> DEFINE e == req[a].day
           due == tx[a].due
           marks == due \cup IF alerts.day = e THEN alerts.marks ELSE {}
           r == [day |-> e, marks |-> marks]
<1>2. alerts' = IF due = {} \/ alerts.day > e THEN alerts ELSE r
  BY DEF Commit, Marked
<1>3. CASE due = {} \/ alerts.day > e
  BY <1>1, <1>2, <1>3 DEF MarksOf
<1>4. CASE ~(due = {} \/ alerts.day > e)
  <2>1. alerts' = r
    BY <1>2, <1>4
  <2>2. r.day = e /\ r.marks = marks
    OBVIOUS
  <2>3. alerts'.day = e /\ alerts'.marks = marks
    <3> HIDE DEF r
    <3> QED
      BY <2>1, <2>2
  <2> HIDE DEF r
  <2>4. alerts.day <= e /\ e <= d
    BY <1>1, <1>4, <2>3
  <2>5. MarksOf(d)' = IF e = d THEN marks ELSE {}
    BY <2>3 DEF MarksOf
  <2>6. e # d => MarksOf(d) = {}
    BY <1>1, <2>4 DEF MarksOf
  <2>7. e = d => MarksOf(d) \subseteq marks
    BY DEF MarksOf
  <2> QED
    BY <1>1, <2>4, <2>5, <2>6, <2>7
<1> QED
  BY <1>3, <1>4

(* A commit reaches what its transaction had due, or raises nothing; what  *)
(* is due in another open one still covers what that will reach, unless a  *)
(* bill above its reserve made the day blind.                              *)
LEMMA CommitMarks ==
  ASSUME CrossingInv, TypeOK', NEW a \in Attempts, Commits(a)
  PROVE  Marking'
<1>1. /\ TypeOK /\ LockHeld /\ Marking
      /\ tx \in [Attempts -> Transactions] /\ blind \subseteq Days
  BY DEF CrossingInv, AlertsInv, AlertsTyped
<1>2. /\ Commit(a, tx[a].by) /\ tx[a] # NoTx
      /\ req' = req /\ rst'[a] # "none"
      /\ ChargedBy'[a] = tx[a].charge
      /\ \A x \in Attempts \ {a} :
           /\ rst'[x] = rst[x] /\ ChargedBy'[x] = ChargedBy[x]
           /\ pc'[x] = pc[x]
      /\ \/ pc[a] = "checked" /\ rst[a] = "none"
         \/ /\ pc[a] # "checked" /\ rst[a] # "none"
            /\ ChargedBy[a] = req[a].est
  BY CommitCharges
<1>3. /\ tx' = [tx EXCEPT ![a] = NoTx]
      /\ blind' = IF req[a].kind \notin Exempt
                     /\ \E b \in Beside(a) : OverBills(a) \/ OverBills(b)
                  THEN blind \cup {req[a].day} ELSE blind
  BY <1>2 DEF Commit
<1> SUFFICES ASSUME NEW d \in Days, d \notin blind', alerts'.day <= d
             PROVE  /\ Reached(SpentOn(d))' \subseteq MarksOf(d)'
                    /\ \A b \in Attempts :
                         Raises(b)' /\ req'[b].day = d
                         => Reached(tx[b].charge + SpentBeside(b))'
                              \subseteq MarksOf(d)' \cup tx'[b].due
  BY DEF Marking
<1>4. /\ d \notin blind /\ alerts.day <= d
      /\ MarksOf(d) \subseteq MarksOf(d)'
      /\ d = req[a].day => tx[a].due \subseteq MarksOf(d)'
  BY <1>2, <1>3, MarksStay
<1>5. /\ Reached(SpentOn(d)) \subseteq MarksOf(d)
      /\ \A b \in Attempts :
           Raises(b) /\ req[b].day = d
           => Reached(tx[b].charge + SpentBeside(b))
                \subseteq MarksOf(d) \cup tx[b].due
  BY <1>1, <1>4 DEF Marking
<1>6. \A b \in Attempts :
        Raises(b)' => /\ b # a /\ Raises(b) /\ tx'[b] = tx[b]
                      /\ tx[b].charge \in Nat
  BY <1>1, <1>2, <1>3 DEF Raises, OverBills, Transactions
<1> DEFINE P == Production(d)
<1>7. P \in SUBSET Attempts /\ P \ {a} \in SUBSET Attempts
  BY DEF Production
<1>8. /\ d = req[a].day /\ req[a].kind \notin Exempt => P' = P \cup {a}
      /\ ~(d = req[a].day /\ req[a].kind \notin Exempt) => P' = P /\ a \notin P
      /\ rst[a] = "none" => a \notin P
      /\ d = req[a].day /\ req[a].kind \notin Exempt /\ rst[a] # "none" => a \in P
  BY <1>2 DEF Production
<1>9. ASSUME NEW S \in SUBSET Attempts, a \notin S
      PROVE  SumOn(ChargedBy', S) = SumOn(ChargedBy, S)
  BY <1>1, <1>2, <1>9, ChargesType, SumEqual
<1>10. CASE ~(d = req[a].day /\ req[a].kind \notin Exempt)
  <2>1. SpentOn(d)' = SpentOn(d)
    BY <1>7, <1>8, <1>9, <1>10 DEF SpentOn
  <2>2. ASSUME NEW b \in Attempts, req'[b].day = d
        PROVE  SpentBeside(b)' = SpentBeside(b)
    <3>1. SpentBeside(b)' = SumOn(ChargedBy', P' \ {b})
      BY <1>2, <2>2 DEF SpentBeside
    <3>2. SpentBeside(b) = SumOn(ChargedBy, P \ {b})
      BY <1>2, <2>2 DEF SpentBeside
    <3>3. P \ {b} \in SUBSET Attempts /\ a \notin P \ {b} /\ P' = P
      BY <1>7, <1>8, <1>10
    <3> QED
      BY <3>1, <3>2, <3>3, <1>9
  <2>3. Reached(SpentOn(d))' = Reached(SpentOn(d))
    BY <2>1 DEF Reached
  <2>4. \A b \in Attempts : Raises(b)' /\ req'[b].day = d
          => Reached(tx[b].charge + SpentBeside(b))'
             = Reached(tx[b].charge + SpentBeside(b))
    BY <1>6, <2>2 DEF Reached
  <2> QED
    BY <1>2, <1>4, <1>5, <1>6, <2>3, <2>4
<1>11. CASE d = req[a].day /\ req[a].kind \notin Exempt
  <2> DEFINE rest == SumOn(ChargedBy, P \ {a})
             charge == tx[a].charge
             est == req[a].est
  <2>1. rest \in Nat /\ charge \in Nat /\ est \in Nat
    BY <1>1, <1>7, ChargesType, RequestFields DEF Transactions
  <2>2. SpentOn(d)' = charge + rest
    <3>1. P' = P \cup {a} /\ P' \ {a} = P \ {a} /\ P' \in SUBSET Attempts
      BY <1>7, <1>8, <1>11
    <3>2. SumOn(ChargedBy', P') = ChargedBy'[a] + SumOn(ChargedBy', P' \ {a})
      BY <3>1, ChargesTypeNext, SumRemove
    <3>3. SumOn(ChargedBy', P' \ {a}) = rest
      BY <1>7, <1>9, <3>1
    <3> QED
      BY <1>2, <3>2, <3>3 DEF SpentOn
  <2>3. pc[a] # "checked" => a \in P /\ SpentOn(d) = est + rest
    <3> SUFFICES ASSUME pc[a] # "checked"
                 PROVE  a \in P /\ SpentOn(d) = est + rest
      OBVIOUS
    <3>1. a \in P /\ ChargedBy[a] = est
      BY <1>2, <1>8, <1>11
    <3> QED
      BY <1>1, <1>7, <3>1, ChargesType, SumRemove DEF SpentOn
  <2>4. Reached(charge + rest) \subseteq MarksOf(d)'
    <3>1. CASE Raises(a)
      BY <1>4, <1>5, <1>11, <3>1 DEF SpentBeside
    <3>2. CASE ~Raises(a)
      <4>1. pc[a] # "checked" /\ charge <= est
        <5>1. pc[a] # "checked" /\ ~(charge > est)
          BY <1>2, <1>11, <3>2 DEF Raises, OverBills
        <5> HIDE DEF charge, est
        <5> QED
          BY <2>1, <5>1
      <4>2. charge + rest <= est + rest
        <5> HIDE DEF charge, est, rest
        <5> QED
          BY <2>1, <4>1
      <4>3. Reached(charge + rest) \subseteq Reached(est + rest)
        <5>1. charge + rest \in Nat /\ est + rest \in Nat
          <6> HIDE DEF charge, est, rest
          <6> QED
            BY <2>1
        <5> HIDE DEF charge, est, rest
        <5> QED
          BY <4>2, <5>1, ReachedMonotonic
      <4> QED
        BY <1>4, <1>5, <2>3, <4>1, <4>3
    <3> QED
      BY <3>1, <3>2
  <2>5. ASSUME NEW b \in Attempts, Raises(b)', req'[b].day = d
        PROVE  Reached(tx[b].charge + SpentBeside(b))'
                 \subseteq MarksOf(d)' \cup tx'[b].due
    <3>1. b # a /\ Raises(b) /\ tx'[b] = tx[b] /\ tx[b].charge \in Nat
      BY <1>6, <2>5
    <3>2. b \in Beside(a)
      BY <1>2, <1>11, <2>5, <3>1 DEF Beside, Raises
    <3>3. ~OverBills(a) /\ ~OverBills(b)
      BY <1>3, <1>11, <3>2
    <3>4. pc[b] = "checked"
      BY <3>1, <3>3 DEF Raises
    <3>5. pc[a] # "checked"
      BY <1>1, <1>2, <1>11, <2>5, <3>1, <3>4 DEF LockHeld
    <3>6. a \in P /\ ChargedBy[a] = est
      BY <1>2, <2>3, <3>5
    <3>7. charge <= est
      <4>1. ~(charge > est)
        BY <3>3 DEF OverBills
      <4> HIDE DEF charge, est
      <4> QED
        BY <2>1, <4>1
    <3> DEFINE S == P \ {b}
    <3>8. P' = P /\ S \in SUBSET Attempts
      BY <1>7, <1>8, <1>11, <3>6
    <3>9. SpentBeside(b)' = SumOn(ChargedBy', S)
      BY <1>2, <2>5, <3>8 DEF SpentBeside
    <3>10. SpentBeside(b) = SumOn(ChargedBy, S)
      BY <1>2, <2>5 DEF SpentBeside
    <3>11. \A x \in S : ChargedBy'[x] <= ChargedBy[x]
      <4>1. ASSUME NEW x \in S
            PROVE  ChargedBy'[x] <= ChargedBy[x]
        <5>1. ChargedBy[x] \in Nat
          BY <1>1, <3>8, ChargesType
        <5>2. CASE x = a
          BY <1>2, <3>6, <3>7, <5>2
        <5>3. CASE x # a
          BY <1>2, <3>8, <5>1, <5>3
        <5> QED
          BY <5>2, <5>3
      <4> QED
        BY <4>1
    <3>12. /\ SumOn(ChargedBy', S) \in Nat /\ SumOn(ChargedBy, S) \in Nat
           /\ SumOn(ChargedBy', S) <= SumOn(ChargedBy, S)
      <4> HIDE DEF S
      <4>1. /\ IsFiniteSet(S) /\ SumOn(ChargedBy, S) \in Nat
            /\ \A x \in S : ChargedBy[x] \in Nat
        BY <1>1, <3>8, ChargesType
      <4>2. /\ SumOn(ChargedBy', S) \in Nat
            /\ \A x \in S : ChargedBy'[x] \in Nat
        BY <3>8, ChargesTypeNext
      <4> QED
        BY <3>11, <4>1, <4>2, SumMonotonic
    <3>13. Reached(tx[b].charge + SpentBeside(b))'
             \subseteq Reached(tx[b].charge + SpentBeside(b))
      <4> DEFINE before == SpentBeside(b)
                 after == SpentBeside(b)'
                 own == tx[b].charge
      <4>1. before \in Nat /\ after \in Nat /\ own \in Nat /\ after <= before
        BY <3>1, <3>9, <3>10, <3>12
      <4>2. Reached(tx[b].charge + SpentBeside(b))' = Reached(own + after)
        BY <3>1 DEF Reached
      <4>3. own + after \in Nat /\ own + before \in Nat
            /\ own + after <= own + before
        <5> HIDE DEF before, after, own
        <5> QED
          BY <4>1
      <4>4. Reached(own + after) \subseteq Reached(own + before)
        <5> HIDE DEF before, after, own
        <5> QED
          BY <4>3, ReachedMonotonic
      <4> QED
        BY <4>2, <4>4
    <3>14. Reached(tx[b].charge + SpentBeside(b))
             \subseteq MarksOf(d) \cup tx[b].due
      BY <1>2, <1>5, <2>5, <3>1
    <3> QED
      BY <1>4, <3>1, <3>13, <3>14
  <2>6. Reached(SpentOn(d))' = Reached(charge + rest)
    BY <2>2 DEF Reached
  <2> QED
    BY <2>4, <2>5, <2>6
<1> QED
  BY <1>10, <1>11

(* A quiet step commits no more than before, and raises no transaction.    *)
LEMMA QuietMarks ==
  ASSUME CrossingInv, TypeOK', NEW a \in Attempts, Quiet(a)
  PROVE  Marking'
<1>1. TypeOK /\ Marking /\ tx \in [Attempts -> Transactions]
  BY DEF CrossingInv, AlertsInv, AlertsTyped
<1>2. /\ alerts' = alerts /\ blind' = blind
      /\ \A b \in Attempts :
           tx'[b] # NoTx => /\ tx'[b] = tx[b] /\ req'[b] = req[b]
                            /\ pc'[b] = "checked" => pc[b] = "checked"
  BY QuietTx
<1> SUFFICES ASSUME NEW d \in Days, d \notin blind, alerts.day <= d
             PROVE  /\ Reached(SpentOn(d))' \subseteq MarksOf(d)
                    /\ \A b \in Attempts :
                         Raises(b)' /\ req'[b].day = d
                         => Reached(tx[b].charge + SpentBeside(b))'
                              \subseteq MarksOf(d) \cup tx'[b].due
  BY <1>2 DEF Marking, MarksOf
<1>3. /\ Reached(SpentOn(d)) \subseteq MarksOf(d)
      /\ \A b \in Attempts :
           Raises(b) /\ req[b].day = d
           => Reached(tx[b].charge + SpentBeside(b))
                \subseteq MarksOf(d) \cup tx[b].due
  BY <1>1 DEF Marking
<1> DEFINE P == Production(d)
<1>4. P \in SUBSET Attempts
  BY DEF Production
<1>5. P' \subseteq P /\ \A x \in P' : ChargedBy'[x] <= ChargedBy[x]
  BY QuietCharges
<1>6. ASSUME NEW S \in SUBSET P
      PROVE  LET T == S \cap P' IN
             /\ SumOn(ChargedBy', T) \in Nat /\ SumOn(ChargedBy, S) \in Nat
             /\ SumOn(ChargedBy', T) <= SumOn(ChargedBy, S)
  <2> DEFINE T == S \cap P'
  <2>1. S \in SUBSET Attempts /\ T \in SUBSET Attempts /\ T \subseteq S
    BY <1>4, <1>5
  <2>2. \A x \in T : ChargedBy'[x] <= ChargedBy[x]
    BY <1>5
  <2>3. SumOn(ChargedBy', T) \in Nat /\ \A x \in T : ChargedBy'[x] \in Nat
    BY <2>1, ChargesTypeNext
  <2>4. /\ IsFiniteSet(S) /\ SumOn(ChargedBy, S) \in Nat
        /\ \A x \in S : ChargedBy[x] \in Nat
    BY <1>1, <2>1, ChargesType
  <2> HIDE DEF T
  <2>5. SumOn(ChargedBy', T) <= SumOn(ChargedBy, S)
    BY <2>1, <2>2, <2>3, <2>4, SumMonotonic
  <2> QED
    BY <2>3, <2>4, <2>5 DEF T
<1>7. Reached(SpentOn(d))' \subseteq MarksOf(d)
  <2>1. P \cap P' = P'
    BY <1>5
  <2>2. /\ SumOn(ChargedBy', P') \in Nat /\ SumOn(ChargedBy, P) \in Nat
        /\ SumOn(ChargedBy', P') <= SumOn(ChargedBy, P)
    BY <1>6, <2>1
  <2>3. Reached(SumOn(ChargedBy', P')) \subseteq Reached(SumOn(ChargedBy, P))
    BY <2>2, ReachedMonotonic
  <2>4. Reached(SpentOn(d))' = Reached(SumOn(ChargedBy', P'))
    BY DEF Reached, SpentOn
  <2> QED
    BY <1>3, <2>3, <2>4 DEF SpentOn
<1>8. ASSUME NEW b \in Attempts, Raises(b)', req'[b].day = d
      PROVE  Reached(tx[b].charge + SpentBeside(b))'
               \subseteq MarksOf(d) \cup tx'[b].due
  <2>1. tx'[b] = tx[b] /\ req'[b] = req[b] /\ Raises(b)
    BY <1>2, <1>8 DEF Raises, OverBills
  <2> DEFINE before == SumOn(ChargedBy, P \ {b})
             after == SumOn(ChargedBy', P' \ {b})
             own == tx[b].charge
  <2>2. own \in Nat
    BY <1>1 DEF Transactions
  <2>3. (P \ {b}) \cap P' = P' \ {b}
    BY <1>5
  <2>4. before \in Nat /\ after \in Nat /\ after <= before
    BY <1>6, <2>3
  <2>5. SpentBeside(b) = before /\ SpentBeside(b)' = after
    BY <1>8, <2>1 DEF SpentBeside
  <2>6. Reached(tx[b].charge + SpentBeside(b))' = Reached(own + after)
    BY <2>1, <2>5 DEF Reached
  <2>7. /\ own + after \in Nat /\ own + before \in Nat
        /\ own + after <= own + before
    <3> HIDE DEF before, after, own
    <3> QED
      BY <2>2, <2>4
  <2>8. Reached(own + after) \subseteq Reached(own + before)
    <3> HIDE DEF before, after, own
    <3> QED
      BY <2>7, ReachedMonotonic
  <2>9. Reached(own + before) \subseteq MarksOf(d) \cup tx[b].due
    BY <1>3, <1>8, <2>1, <2>5
  <2> QED
    BY <2>1, <2>6, <2>8, <2>9
<1> QED
  BY <1>7, <1>8

(* A count leaves the ledger, and what it has due reaches all it will.     *)
LEMMA CountMarks ==
  ASSUME CrossingInv, NEW a \in Attempts, Counts(a)
  PROVE  Marking'
<1>1. Marking
  BY DEF CrossingInv
<1>2. /\ UNCHANGED <<vars, alerts, blind>>
      /\ \A b \in Attempts \ {a} : tx'[b] = tx[b]
      /\ req[a].kind \notin Exempt =>
           tx'[a].due = Reached(tx'[a].charge + SpentBeside(a))
  BY CountOpens
<1>3. UNCHANGED <<pc, req, rst, actual>>
  BY <1>2 DEF vars, ledger
<1>4. /\ \A d : SpentOn(d)' = SpentOn(d) /\ MarksOf(d)' = MarksOf(d)
      /\ \A b \in Attempts : SpentBeside(b)' = SpentBeside(b)
  BY <1>2, <1>3 DEF SpentOn, SpentBeside, ChargedBy, Charge, Production, MarksOf
<1>5. ASSUME NEW d \in Days, d \notin blind, alerts.day <= d
      PROVE  /\ Reached(SpentOn(d))' \subseteq MarksOf(d)'
             /\ \A b \in Attempts :
                  Raises(b)' /\ req'[b].day = d
                  => Reached(tx[b].charge + SpentBeside(b))'
                       \subseteq MarksOf(d)' \cup tx'[b].due
  <2>1. /\ Reached(SpentOn(d)) \subseteq MarksOf(d)
        /\ \A b \in Attempts :
             Raises(b) /\ req[b].day = d
             => Reached(tx[b].charge + SpentBeside(b))
                  \subseteq MarksOf(d) \cup tx[b].due
    BY <1>1, <1>5 DEF Marking
  <2>2. Reached(SpentOn(d))' = Reached(SpentOn(d))
    BY <1>4 DEF Reached
  <2>3. ASSUME NEW b \in Attempts, Raises(b)', req'[b].day = d
        PROVE  Reached(tx[b].charge + SpentBeside(b))'
                 \subseteq MarksOf(d)' \cup tx'[b].due
    <3>1. Reached(tx[b].charge + SpentBeside(b))'
            = Reached(tx'[b].charge + SpentBeside(b))
      BY <1>4 DEF Reached
    <3>2. CASE b = a
      BY <1>2, <1>3, <2>3, <3>1, <3>2 DEF Raises
    <3>3. CASE b # a
      <4>1. tx'[b] = tx[b] /\ Raises(b) /\ req[b].day = d
        BY <1>2, <1>3, <2>3, <3>3 DEF Raises, OverBills
      <4> QED
        BY <1>4, <2>1, <3>1, <4>1
    <3> QED
      BY <3>2, <3>3
  <2> QED
    BY <1>4, <2>1, <2>2, <2>3
<1> QED
  BY <1>2, <1>5 DEF Marking

LEMMA CrossingInductive ==
  TypedTries /\ CrossingInv /\ [AlertsNext]_allVars
    => (TypedTries /\ CrossingInv)'
<1> SUFFICES ASSUME TypedTries, CrossingInv, [AlertsNext]_allVars
             PROVE  (TypedTries /\ CrossingInv)'
  OBVIOUS
<1>1. /\ AlertsInv /\ LedgerInv /\ WireInv /\ LockHeld /\ TxInv /\ Marking
      /\ TypeOK /\ Unstarted
  BY DEF CrossingInv, AlertsInv, LedgerInv
<1>2. [Next]_vars /\ TypedTries' /\ AlertsInv'
  BY <1>1, AlertsInductive
<1>3. LedgerInv' /\ WireInv' /\ LockHeld'
  BY <1>1, <1>2, LedgerInductive, WireInductive, LockInductive
<1>4. TypeOK' /\ TxInv'
  BY <1>2, TxInductive DEF AlertsInv
<1>5. Marking'
  <2>1. CASE UNCHANGED <<lock, pc, req, answer, tries, ledger, alertVars>>
    <3>1. UNCHANGED <<pc, req, rst, actual, alerts, tx, blind>>
      BY <2>1 DEF ledger, alertVars
    <3> QED
      BY <1>1, <3>1 DEF Marking, SpentOn, SpentBeside, MarksOf, Raises, OverBills,
         Reached, ChargedBy, Charge, Production
  <2> QED
    BY <1>4, <2>1, StepKinds, CountMarks, CommitMarks, QuietMarks
<1> QED
  BY <1>2, <1>3, <1>4, <1>5 DEF CrossingInv

(* What the day has committed is marked, whichever transactions overlapped *)
(* and whichever day's came last, for every number of attempts: a bill     *)
(* above its reserve that met another open transaction is the one          *)
(* exception.  (markBudgetCrossings.)                                      *)
THEOREM CrossingsAreMarked == AlertsSpec => []CrossingsMarked
<1>1. AlertsInit => TypedTries /\ CrossingInv
  <2> SUFFICES ASSUME AlertsInit PROVE TypedTries /\ CrossingInv
    OBVIOUS
  <2>1. Init /\ TypedTries /\ AlertsInv /\ LedgerInv
    BY AlertsInitial, LedgerInitial
  <2>2. WireInv /\ LockHeld
    BY <2>1 DEF Init, WireInv, Admitted, LockHeld
  <2>3. \A a \in Attempts : tx[a] = NoTx
    BY DEF AlertsInit
  <2>4. TxInv
    BY <2>3 DEF TxInv, NoTx
  <2>5. Marking
    <3>1. \A d : SpentOn(d) = 0
      <4>1. \A d : Production(d) = {}
        BY <2>1 DEF Init, Production
      <4>2. SumOn(ChargedBy, {}) = 0
        BY FS_EmptySet, SumRecursion
      <4> QED
        BY <4>1, <4>2 DEF SpentOn
    <3>2. Reached(0) = {}
      <4>1. ASSUME NEW m \in Marks, Budget > 0
            PROVE  ~(100 * 0 >= Ratio[m] * Budget)
        <5>1. Ratio[m] \in Nat \ {0} /\ Budget \in Nat \ {0}
          BY <4>1, MarksAssumption, LedgerAssumption
        <5>2. Ratio[m] * Budget > 0
          BY <5>1
        <5> QED
          BY <5>1, <5>2
      <4> QED
        BY <4>1 DEF Reached
    <3>3. \A a \in Attempts : ~Raises(a)
      BY <2>3 DEF Raises
    <3> QED
      BY <3>1, <3>2, <3>3 DEF Marking
  <2> QED
    BY <2>1, <2>2, <2>4, <2>5 DEF CrossingInv
<1>2. CrossingInv => CrossingsMarked
  <2> SUFFICES ASSUME CrossingInv, NEW d \in Days \ blind, alerts.day <= d
               PROVE  Reached(Committed(d)) \subseteq MarksOf(d)
    BY DEF CrossingsMarked, MarksOf
  <2>1. Reached(SpentOn(d)) \subseteq MarksOf(d)
    BY DEF CrossingInv, Marking
  <2>2. Committed(d) = SpentOn(d)
    BY ProductionFinite, ChargeSum DEF Committed, SpentOn
  <2> QED
    BY <2>1, <2>2
<1> QED
  BY <1>1, <1>2, CrossingInductive, PTL DEF AlertsSpec
=============================================================================
