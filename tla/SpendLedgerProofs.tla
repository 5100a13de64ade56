------------------------- MODULE SpendLedgerProofs -------------------------
(***************************************************************************)
(* Proofs about SpendLedger, for every set of attempts, kinds and costs,   *)
(* every budget and every bound: types, the bookkeeping of settlement      *)
(* under replays and housekeeping, the charge of sent attempts, and the    *)
(* call cap under concurrent admission.                                    *)
(***************************************************************************)
EXTENDS SpendLedger, FiniteSetTheorems, TLAPS

LEMMA NoRequestType == NoRequest \in Requests /\ NoRequest.day = 0
<1>1. \E q \in Requests : q.day = 0
  <2>1. PICK k \in Kinds, c \in Costs : TRUE
    BY LedgerAssumption
  <2>2. 0 \in Days
    BY LedgerAssumption DEF Days
  <2>3. [day |-> 0, kind |-> k, est |-> c, prio |-> "bulk"] \in Requests
    BY <2>1, <2>2 DEF Requests
  <2> QED
    BY <2>3
<1> QED
  BY <1>1 DEF NoRequest

LEMMA TypeInitial == Init => TypeOK
BY NoRequestType, LedgerAssumption
DEF Init, TypeOK, Days, Steps, Answers

(* While an attempt goes on it has a try left. *)
TriesLeft == \A a \in Attempts : pc[a] # "done" => tries[a] < SettleTries

TypedTries == TypeOK /\ TriesLeft

(* The end of a try keeps types and bounds the tries. *)
LEMMA TryType ==
  ASSUME TypedTries, NEW a \in Attempts, pc[a] # "done",
         Acknowledged(a) \/ Unacknowledged(a)
  PROVE  /\ pc' \in [Attempts -> Steps]
         /\ tries' \in [Attempts -> 0..SettleTries]
         /\ TriesLeft'
<1> USE DEF TypedTries, TriesLeft
<1>1. CASE Acknowledged(a)
  BY <1>1 DEF TypeOK, Acknowledged, Goto, Steps
<1>2. CASE Unacknowledged(a)
  <2>1. SettleTries \in Nat /\ tries[a] \in Nat /\ tries[a] < SettleTries
    BY LedgerAssumption DEF TypeOK
  <2>2. tries' = [tries EXCEPT ![a] = tries[a] + 1]
    BY <1>2 DEF Unacknowledged
  <2>3. \/ tries[a] + 1 = SettleTries /\ pc' = [pc EXCEPT ![a] = "done"]
        \/ tries[a] + 1 < SettleTries /\ pc' = pc
    BY <1>2, <2>1 DEF Unacknowledged
  <2> QED
    BY <2>1, <2>2, <2>3 DEF TypeOK, Steps
<1> QED
  BY <1>1, <1>2

(* AddUsage keeps types. *)
LEMMA UsageType ==
  ASSUME TypeOK, NEW a \in Attempts, NEW n \in Nat, NEW c \in Nat,
         AddUsage(a, n, c)
  PROVE  /\ usageCalls' \in [Attempts \X Days -> Nat]
         /\ usageCost' \in [Attempts \X Days -> Nat]
<1>1. req[a].day \in Days
  BY DEF TypeOK, Requests
<1> QED
  BY <1>1 DEF TypeOK, AddUsage

(* A settlement keeps the ledger's types. *)
LEMMA SettlementType ==
  ASSUME TypeOK, NEW a \in Attempts, NEW b \in {"known", "uncertain"},
         NEW c \in Nat, Settlement(a, b, c)
  PROVE  /\ rst' \in [Attempts -> {"none", "reserved", "settled", "uncertain"}]
         /\ actual' \in [Attempts -> Nat]
         /\ call' \in [Attempts -> {"none", "known", "uncertain"}]
         /\ usageCalls' \in [Attempts \X Days -> Nat]
         /\ usageCost' \in [Attempts \X Days -> Nat]
<1>1. CASE First(a) /\ Recorded(a, b, c)
  BY <1>1, UsageType DEF Recorded, TypeOK
<1>2. CASE Reconciles(a, b) /\ Reconciled(a, c)
  BY <1>2, UsageType DEF Reconciled, TypeOK
<1>3. CASE UNCHANGED ledger
  BY <1>3 DEF TypeOK, ledger
<1> QED
  BY <1>1, <1>2, <1>3 DEF Settlement

-----------------------------------------------------------------------------
(* A step of the router, of housekeeping or of the calendar keeps types. *)
LEMMA TypeInductive == TypedTries /\ [Next]_vars => TypedTries'
<1> SUFFICES ASSUME TypeOK, TriesLeft, [Next]_vars
             PROVE  TypedTries'
  BY DEF TypedTries
<1> USE DEF TypedTries, TriesLeft
<1>1. ASSUME NEW a \in Attempts, NEW q \in Requests, Ask(a, q)
      PROVE  TypedTries'
  BY <1>1 DEF Ask, Goto, TypeOK, ledger, Steps
<1>2. ASSUME NEW a \in Attempts, TakeLock(a)
      PROVE  TypedTries'
  BY <1>2 DEF TakeLock, Goto, TypeOK, ledger, Steps
<1>3. ASSUME NEW a \in Attempts, Check(a)
      PROVE  TypedTries'
  BY <1>3 DEF Check, Goto, TypeOK, ledger, Steps
<1>4. ASSUME NEW a \in Attempts, Insert(a)
      PROVE  TypedTries'
  BY <1>4 DEF Insert, Unlock, Goto, TypeOK, Steps
<1>5. ASSUME NEW a \in Attempts, Refuse(a)
      PROVE  TypedTries'
  BY <1>5 DEF Refuse, Unlock, Goto, TypeOK, ledger, Steps
<1>6. ASSUME NEW a \in Attempts, Cancel(a) \/ Send(a)
      PROVE  TypedTries'
  BY <1>6 DEF Cancel, Send, Goto, TypeOK, ledger, Steps
<1>7. ASSUME NEW a \in Attempts, NEW b \in {"known", "uncertain"},
             NEW c \in Costs \cup {0}, Answer(a, b, c)
      PROVE  TypedTries'
  BY <1>7 DEF Answer, Goto, TypeOK, ledger, Steps, Answers
<1>8. ASSUME NEW a \in Attempts, Release(a)
      PROVE  TypedTries'
  <2>1. /\ pc' \in [Attempts -> Steps]
        /\ tries' \in [Attempts -> 0..SettleTries]
        /\ TriesLeft'
    BY <1>8, TryType DEF Release
  <2> QED
    BY <1>8, <2>1 DEF Release, DeleteReserved, TypeOK
<1>9. ASSUME NEW a \in Attempts, Settle(a)
      PROVE  TypedTries'
  <2>1. /\ pc' \in [Attempts -> Steps]
        /\ tries' \in [Attempts -> 0..SettleTries]
        /\ TriesLeft'
    BY <1>9, TryType DEF Settle
  <2>3. /\ answer[a].billing \in {"known", "uncertain"}
        /\ answer[a].cost \in Nat
    <3>1. answer[a] \in Answers
      BY DEF TypeOK
    <3>2. \A c \in Costs \cup {0} : c \in Nat
      BY LedgerAssumption
    <3>3. /\ answer[a].billing \in {"known", "uncertain"}
          /\ answer[a].cost \in Costs \cup {0}
      BY <3>1 DEF Answers
    <3> QED
      BY <3>2, <3>3
  <2> QED
    BY <1>9, <2>1, <2>3, SettlementType DEF Settle, TypeOK
<1>10. ASSUME NEW a \in Attempts, TryFails(a)
       PROVE  TypedTries'
  <2>1. /\ pc' \in [Attempts -> Steps]
        /\ tries' \in [Attempts -> 0..SettleTries]
        /\ TriesLeft'
    BY <1>10, TryType DEF TryFails
  <2> QED
    BY <1>10, <2>1 DEF TryFails, TypeOK, ledger
<1>11. ASSUME NEW a \in Attempts, Crash(a)
       PROVE  TypedTries'
  BY <1>11 DEF Crash, Goto, TypeOK, ledger, Steps
<1>12. ASSUME NEW a \in Attempts, Expire(a)
       PROVE  TypedTries'
  BY <1>12 DEF Expire, TypeOK
<1>13. ASSUME NEW a \in Attempts, Fold(a)
       PROVE  TypedTries'
  <2>1. req[a].est \in Nat /\ FoldedCalls(a) \in Nat
    BY LedgerAssumption DEF TypeOK, Requests, FoldedCalls
  <2>2. /\ usageCalls' \in [Attempts \X Days -> Nat]
        /\ usageCost' \in [Attempts \X Days -> Nat]
    BY <1>13, <2>1, UsageType DEF Fold
  <2> QED
    BY <1>13, <2>1, <2>2 DEF Fold, TypeOK
<1>14. ASSUME NEW a \in Attempts, NEW c \in Costs, Reconcile(a, c)
       PROVE  TypedTries'
  <2>1. c \in Nat
    BY LedgerAssumption
  <2> QED
    BY <1>14, <2>1, SettlementType DEF Reconcile, TypeOK
<1>15. ASSUME NextDay
       PROVE  TypedTries'
  BY <1>15, LedgerAssumption DEF NextDay, TypeOK, Days, ledger
<1>16. ASSUME UNCHANGED vars
       PROVE  TypedTries'
  BY <1>16 DEF vars, ledger, TypeOK
<1> QED
  BY <1>1, <1>2, <1>3, <1>4, <1>5, <1>6, <1>7, <1>8, <1>9, <1>10, <1>11,
     <1>12, <1>13, <1>14, <1>15, <1>16
  DEF Next, AttemptStep, HouseStep

(* The variables keep their types, and no settlement or release is tried   *)
(* more often than settleWithRetry and releaseUnsent allow.                *)
THEOREM TypeCorrect == Spec => []TypeOK
<1>1. Init => TypedTries
  BY TypeInitial, LedgerAssumption DEF Init, TypedTries, TriesLeft
<1> QED
  BY <1>1, TypeInductive, PTL DEF Spec, TypedTries

-----------------------------------------------------------------------------
(* An attempt that asks has left nothing in the ledger yet. *)
Early == {"idle", "asked", "locked", "checked"}
Unstarted ==
  \A a \in Attempts : pc[a] \in Early => rst[a] = "none" /\ call[a] = "none"

(* Unknown billing carries no cost. *)
UnknownFree ==
  \A a \in Attempts : answer[a].billing = "uncertain" => answer[a].cost = 0

Booked == CountedOnce /\ CostBooked
LedgerInv == TypedTries /\ Unstarted /\ UnknownFree /\ Booked

(* The bookkeeping survives any change of one attempt's share that adds    *)
(* the calls and the cost its new status calls for.                        *)
LEMMA AddsUp ==
  ASSUME TypeOK, Booked, NEW a \in Attempts, NEW n \in Nat, NEW c \in Nat,
         AddUsage(a, n, c), req' = req,
         \A x \in Attempts \ {a} : /\ rst'[x] = rst[x] /\ call'[x] = call[x]
                                  /\ actual'[x] = actual[x],
         n = (IF call'[a] # "none" \/ rst'[a] = "settled" THEN 1 ELSE 0)
             - (IF call[a] # "none" \/ rst[a] = "settled" THEN 1 ELSE 0),
         c = (IF rst'[a] = "settled" THEN actual'[a] ELSE 0)
             - (IF rst[a] = "settled" THEN actual[a] ELSE 0),
         actual'[a] \in Nat
  PROVE  Booked'
<1>1. req[a].day \in Days
  BY DEF TypeOK, Requests
<1>2. /\ usageCalls' = [usageCalls EXCEPT ![<<a, req[a].day>>] =
                          usageCalls[<<a, req[a].day>>] + n]
      /\ usageCost' = [usageCost EXCEPT ![<<a, req[a].day>>] =
                          usageCost[<<a, req[a].day>>] + c]
  BY DEF AddUsage
<1>3. ASSUME NEW x \in Attempts, NEW d \in Days, <<x, d>> # <<a, req[a].day>>
      PROVE  /\ usageCalls'[<<x, d>>] = usageCalls[<<x, d>>]
             /\ usageCost'[<<x, d>>] = usageCost[<<x, d>>]
  BY <1>2, <1>3, <1>1 DEF TypeOK
<1>4. /\ usageCalls'[<<a, req[a].day>>] = usageCalls[<<a, req[a].day>>] + n
      /\ usageCost'[<<a, req[a].day>>] = usageCost[<<a, req[a].day>>] + c
  BY <1>1, <1>2 DEF TypeOK
<1>5. actual[a] \in Nat
  BY DEF TypeOK
<1>6. CountedOnce'
  <2> SUFFICES ASSUME NEW x \in Attempts, NEW d \in Days
               PROVE  usageCalls'[<<x, d>>] =
                        IF d = req[x].day /\ (call'[x] # "none" \/ rst'[x] = "settled")
                        THEN 1 ELSE 0
    BY DEF CountedOnce
  <2>1. usageCalls[<<x, d>>] =
          IF d = req[x].day /\ (call[x] # "none" \/ rst[x] = "settled")
          THEN 1 ELSE 0
    BY DEF Booked, CountedOnce
  <2>2. CASE x # a
    BY <2>1, <2>2, <1>3
  <2>3. CASE x = a /\ d # req[a].day
    BY <2>1, <2>3, <1>3
  <2>4. CASE x = a /\ d = req[a].day
    BY <2>1, <2>4, <1>4
  <2> QED
    BY <2>2, <2>3, <2>4
<1>7. CostBooked'
  <2> SUFFICES ASSUME NEW x \in Attempts, NEW d \in Days
               PROVE  usageCost'[<<x, d>>] =
                        IF d = req[x].day /\ rst'[x] = "settled"
                        THEN actual'[x] ELSE 0
    BY DEF CostBooked
  <2>1. usageCost[<<x, d>>] =
          IF d = req[x].day /\ rst[x] = "settled" THEN actual[x] ELSE 0
    BY DEF Booked, CostBooked
  <2>2. CASE x # a
    BY <2>1, <2>2, <1>3
  <2>3. CASE x = a /\ d # req[a].day
    BY <2>1, <2>3, <1>3
  <2>4. CASE x = a /\ d = req[a].day
    BY <2>1, <2>4, <1>4, <1>5
  <2> QED
    BY <2>2, <2>3, <2>4
<1> QED
  BY <1>6, <1>7 DEF Booked

(* A settlement, first or replayed, keeps the bookkeeping. *)
LEMMA SettlementBooks ==
  ASSUME TypeOK, Booked, NEW a \in Attempts, NEW b \in {"known", "uncertain"},
         NEW c \in Nat, b = "uncertain" => c = 0, Settlement(a, b, c),
         req' = req
  PROVE  Booked'
<1> USE DEF TypeOK
<1>1. CASE First(a) /\ Recorded(a, b, c)
  BY <1>1, AddsUp DEF First, Recorded
<1>2. CASE Reconciles(a, b) /\ Reconciled(a, c)
  <2>1. /\ call[a] = "uncertain" /\ rst[a] = "uncertain" /\ AddUsage(a, 0, c)
        /\ call'[a] = "known" /\ rst'[a] = "settled" /\ actual'[a] = c
    BY <1>2 DEF Reconciles, Reconciled
  <2>2. \A x \in Attempts \ {a} : /\ rst'[x] = rst[x] /\ call'[x] = call[x]
                                 /\ actual'[x] = actual[x]
    BY <1>2 DEF Reconciled
  <2>3. 0 = (IF call'[a] # "none" \/ rst'[a] = "settled" THEN 1 ELSE 0)
            - (IF call[a] # "none" \/ rst[a] = "settled" THEN 1 ELSE 0)
    BY <2>1
  <2>4. c = (IF rst'[a] = "settled" THEN actual'[a] ELSE 0)
            - (IF rst[a] = "settled" THEN actual[a] ELSE 0)
    BY <2>1
  <2>5. 0 \in Nat /\ actual'[a] \in Nat /\ AddUsage(a, 0, c)
    BY <2>1
  <2> QED
    BY <2>2, <2>3, <2>4, <2>5, AddsUp
<1>3. CASE UNCHANGED ledger
  BY <1>3 DEF Booked, CountedOnce, CostBooked, ledger
<1> QED
  BY <1>1, <1>2, <1>3 DEF Settlement

(* What neither adds usage nor counts or settles a reservation keeps the   *)
(* bookkeeping.                                                            *)
LEMMA BooksKept ==
  ASSUME Booked, UNCHANGED <<req, actual, usageCalls, usageCost>>,
         \A x \in Attempts :
           /\ rst'[x] = "settled" <=> rst[x] = "settled"
           /\ call'[x] = call[x]
  PROVE  Booked'
BY DEF Booked, CountedOnce, CostBooked

(* No attempt has ledger rows before its reservation is inserted. *)
LEMMA UnstartedInductive ==
  ASSUME TypeOK, Unstarted, [Next]_vars
  PROVE  Unstarted'
<1> USE DEF TypeOK, Unstarted, Early, Goto
<1>1. ASSUME NEW a \in Attempts, NEW q \in Requests, Ask(a, q)
      PROVE  Unstarted'
  BY <1>1 DEF Ask, ledger
<1>2. ASSUME NEW a \in Attempts, TakeLock(a) \/ Check(a)
      PROVE  Unstarted'
  BY <1>2 DEF TakeLock, Check, ledger
<1>3. ASSUME NEW a \in Attempts, Insert(a)
      PROVE  Unstarted'
  BY <1>3 DEF Insert
<1>4. ASSUME NEW a \in Attempts, Refuse(a) \/ Cancel(a) \/ Send(a) \/ Crash(a)
      PROVE  Unstarted'
  BY <1>4 DEF Refuse, Cancel, Send, Crash, ledger
<1>5. ASSUME NEW a \in Attempts, NEW b \in {"known", "uncertain"},
             NEW c \in Costs \cup {0}, Answer(a, b, c)
      PROVE  Unstarted'
  BY <1>5 DEF Answer, ledger
<1>6. ASSUME NEW a \in Attempts, Release(a) \/ TryFails(a)
      PROVE  Unstarted'
  BY <1>6 DEF Release, TryFails, DeleteReserved, Acknowledged,
              Unacknowledged, ledger
<1>7. ASSUME NEW a \in Attempts, Settle(a)
      PROVE  Unstarted'
  <2>1. /\ pc[a] \notin Early /\ pc'[a] \notin Early
        /\ \A x \in Attempts \ {a} : pc'[x] = pc[x]
    BY <1>7 DEF Settle, Acknowledged, Unacknowledged
  <2>2. \A x \in Attempts \ {a} : rst'[x] = rst[x] /\ call'[x] = call[x]
    BY <1>7 DEF Settle, Settlement, Recorded, Reconciled, ledger
  <2> QED
    BY <2>1, <2>2
<1>8. ASSUME NEW a \in Attempts, Expire(a) \/ Fold(a)
      PROVE  Unstarted'
  BY <1>8 DEF Expire, Fold, Due
<1>9. ASSUME NEW a \in Attempts, NEW c \in Costs, Reconcile(a, c)
      PROVE  Unstarted'
  <2>1. rst[a] = "uncertain" /\ pc' = pc
    BY <1>9 DEF Reconcile, Reconciles
  <2>2. \A x \in Attempts \ {a} : rst'[x] = rst[x] /\ call'[x] = call[x]
    BY <1>9 DEF Reconcile, Settlement, Recorded, Reconciled, ledger
  <2> QED
    BY <2>1, <2>2
<1>10. ASSUME NextDay \/ UNCHANGED vars
       PROVE  Unstarted'
  BY <1>10 DEF NextDay, vars, ledger
<1> QED
  BY <1>1, <1>2, <1>3, <1>4, <1>5, <1>6, <1>7, <1>8, <1>9, <1>10
  DEF Next, AttemptStep, HouseStep

(* Every step keeps the bookkeeping. *)
LEMMA BooksInductive ==
  ASSUME TypeOK, Unstarted, UnknownFree, Booked, [Next]_vars
  PROVE  Booked'
<1>1. ASSUME NEW a \in Attempts, NEW q \in Requests, Ask(a, q)
      PROVE  Booked'
  <2>1. rst[a] = "none" /\ call[a] = "none"
    BY <1>1 DEF Ask, Unstarted, Early
  <2>2. /\ UNCHANGED <<rst, call, actual, usageCalls, usageCost>>
        /\ \A x \in Attempts \ {a} : req'[x] = req[x]
    BY <1>1 DEF Ask, ledger, TypeOK
  <2> QED
    BY <2>1, <2>2 DEF Booked, CountedOnce, CostBooked
<1>2. ASSUME NEW a \in Attempts, Insert(a) \/ Release(a) \/ Expire(a)
      PROVE  Booked'
  <2>1. /\ \/ rst[a] # "settled" /\ rst'[a] # "settled"
           \/ rst'[a] = rst[a]
        /\ \A x \in Attempts \ {a} : rst'[x] = rst[x]
    BY <1>2 DEF Insert, Release, Expire, DeleteReserved, TypeOK, Unstarted,
                Early
  <2>2. UNCHANGED <<req, actual, call, usageCalls, usageCost>>
    BY <1>2 DEF Insert, Release, Expire, DeleteReserved
  <2> QED
    BY <2>1, <2>2, BooksKept
<1>3. ASSUME NEW a \in Attempts, Settle(a)
      PROVE  Booked'
  <2>1. answer[a] \in Answers
    BY DEF TypeOK
  <2>2. /\ answer[a].billing \in {"known", "uncertain"}
        /\ answer[a].cost \in Costs \cup {0}
    BY <2>1 DEF Answers
  <2>3. \A c \in Costs \cup {0} : c \in Nat
    BY LedgerAssumption
  <2>4. answer[a].cost \in Nat
    BY <2>2, <2>3
  <2> QED
    BY <1>3, <2>2, <2>4, SettlementBooks DEF Settle, UnknownFree
<1>4. ASSUME NEW a \in Attempts, NEW c \in Costs, Reconcile(a, c)
      PROVE  Booked'
  <2>1. c \in Nat
    BY LedgerAssumption
  <2> QED
    BY <1>4, <2>1, SettlementBooks DEF Reconcile
<1>5. ASSUME NEW a \in Attempts, Fold(a)
      PROVE  Booked'
  <2>1. /\ req[a].est \in Nat
        /\ FoldedCalls(a) \in Nat
    BY LedgerAssumption DEF TypeOK, Requests, FoldedCalls
  <2>2. /\ rst[a] = "uncertain" /\ rst'[a] = "settled"
        /\ actual'[a] = req[a].est
        /\ AddUsage(a, FoldedCalls(a), req[a].est)
        /\ UNCHANGED <<req, call>>
        /\ \A x \in Attempts \ {a} : rst'[x] = rst[x] /\ actual'[x] = actual[x]
    BY <1>5 DEF Fold, Due, TypeOK
  <2>3. FoldedCalls(a) =
          (IF call'[a] # "none" \/ rst'[a] = "settled" THEN 1 ELSE 0)
          - (IF call[a] # "none" \/ rst[a] = "settled" THEN 1 ELSE 0)
    BY <2>2 DEF FoldedCalls
  <2>4. req[a].est = (IF rst'[a] = "settled" THEN actual'[a] ELSE 0)
                     - (IF rst[a] = "settled" THEN actual[a] ELSE 0)
    BY <2>1, <2>2
  <2> QED
    BY <2>1, <2>2, <2>3, <2>4, AddsUp
<1>6. ASSUME UNCHANGED <<req, ledger>>
      PROVE  Booked'
  BY <1>6, BooksKept DEF ledger
<1> QED
  BY <1>1, <1>2, <1>3, <1>4, <1>5, <1>6
  DEF Next, AttemptStep, HouseStep, TakeLock, Check, Refuse, Cancel, Send,
      Answer, TryFails, Crash, NextDay, vars

(* Unknown billing stays free of cost. *)
LEMMA UnknownInductive ==
  ASSUME TypeOK, UnknownFree, [Next]_vars
  PROVE  UnknownFree'
<1>1. ASSUME NEW a \in Attempts, NEW b \in {"known", "uncertain"},
             NEW c \in Costs \cup {0}, Answer(a, b, c)
      PROVE  UnknownFree'
  BY <1>1 DEF Answer, UnknownFree, TypeOK
<1>2. ASSUME UNCHANGED answer
      PROVE  UnknownFree'
  BY <1>2 DEF UnknownFree
<1> QED
  BY <1>1, <1>2
  DEF Next, AttemptStep, HouseStep, Ask, TakeLock, Check, Insert, Refuse,
      Cancel, Send, Release, Settle, TryFails, Crash, Expire, Fold,
      Reconcile, NextDay, vars

LEMMA LedgerInitial == Init => LedgerInv
<1>1. Init => TypedTries
  BY TypeInitial, LedgerAssumption DEF Init, TypedTries, TriesLeft
<1>2. Init => Unstarted /\ UnknownFree
  BY DEF Init, Unstarted, UnknownFree
<1>3. Init => Booked
  BY DEF Init, Booked, CountedOnce, CostBooked
<1> QED
  BY <1>1, <1>2, <1>3 DEF LedgerInv

LEMMA LedgerInductive == LedgerInv /\ [Next]_vars => LedgerInv'
BY TypeInductive, UnstartedInductive, UnknownInductive, BooksInductive
DEF LedgerInv, TypedTries

(* Each recorded or settled attempt is one call on its reservation's day,  *)
(* whatever raced to settle it.                                            *)
THEOREM CallsCountedOnce == Spec => []CountedOnce
<1>1. LedgerInv => CountedOnce
  BY DEF LedgerInv, Booked
<1> QED
  BY <1>1, LedgerInitial, LedgerInductive, PTL DEF Spec

(* The usage of a day costs what its settled reservations cost. *)
THEOREM CostsBooked == Spec => []CostBooked
<1>1. LedgerInv => CostBooked
  BY DEF LedgerInv, Booked
<1> QED
  BY <1>1, LedgerInitial, LedgerInductive, PTL DEF Spec

-----------------------------------------------------------------------------
(* A sent attempt is past its reservation, and the reservation of one that *)
(* may still be sent or settled is there.                                  *)
Admitted == {"reserved", "sent", "answered"}
WireInv ==
  /\ \A a \in Attempts : wire[a] => pc[a] \in {"sent", "answered", "done"}
  /\ \A a \in Attempts : pc[a] \in Admitted => rst[a] # "none"

ChargedInv == LedgerInv /\ WireInv /\ SentStaysCharged

(* A reservation disappears only by a release. *)
LEMMA StaysReserved ==
  ASSUME TypeOK, [Next]_vars, NEW x \in Attempts, rst[x] # "none",
         pc[x] # "releasing"
  PROVE  rst'[x] # "none"
<1> USE DEF TypeOK
<1>1. ASSUME NEW a \in Attempts, Insert(a)
      PROVE  rst'[x] # "none"
  BY <1>1 DEF Insert
<1>2. ASSUME NEW a \in Attempts, Release(a)
      PROVE  rst'[x] # "none"
  BY <1>2 DEF Release, DeleteReserved
<1>3. ASSUME NEW a \in Attempts, Settle(a)
      PROVE  rst'[x] # "none"
  BY <1>3 DEF Settle, Settlement, Recorded, Reconciled, ledger
<1>4. ASSUME NEW a \in Attempts, NEW c \in Costs, Reconcile(a, c)
      PROVE  rst'[x] # "none"
  BY <1>4 DEF Reconcile, Settlement, Recorded, Reconciled, ledger
<1>5. ASSUME NEW a \in Attempts, Expire(a) \/ Fold(a)
      PROVE  rst'[x] # "none"
  BY <1>5 DEF Expire, Fold
<1>6. ASSUME UNCHANGED rst
      PROVE  rst'[x] # "none"
  BY <1>6
<1> QED
  BY <1>1, <1>2, <1>3, <1>4, <1>5, <1>6
  DEF Next, AttemptStep, HouseStep, Ask, TakeLock, Check, Refuse, Cancel,
      Send, Answer, TryFails, Crash, NextDay, vars, ledger

(* Only Send puts an attempt on the wire, and only Insert makes it one     *)
(* that may be sent.                                                       *)
LEMMA WireInductive ==
  ASSUME TypeOK, WireInv, [Next]_vars
  PROVE  WireInv'
<1> USE DEF TypeOK, Goto, Admitted
<1>1. ASSUME NEW a \in Attempts, Insert(a)
      PROVE  WireInv'
  BY <1>1 DEF Insert, WireInv
<1>2. ASSUME NEW a \in Attempts, Send(a)
      PROVE  WireInv'
  BY <1>2 DEF Send, WireInv, ledger
<1>4. ASSUME UNCHANGED <<pc, wire>>
      PROVE  WireInv'
  BY <1>4, StaysReserved DEF WireInv
<1>5. ASSUME NEW a \in Attempts, NEW q \in Requests, Ask(a, q)
      PROVE  WireInv'
  BY <1>5 DEF Ask, ledger, WireInv
<1>6. ASSUME NEW a \in Attempts,
             TakeLock(a) \/ Check(a) \/ Refuse(a) \/ Cancel(a) \/ Crash(a)
      PROVE  WireInv'
  BY <1>6 DEF TakeLock, Check, Refuse, Cancel, Crash, ledger, WireInv
<1>7. ASSUME NEW a \in Attempts, NEW b \in {"known", "uncertain"},
             NEW c \in Costs \cup {0}, Answer(a, b, c)
      PROVE  WireInv'
  BY <1>7 DEF Answer, ledger, WireInv
<1>8. ASSUME NEW a \in Attempts, Release(a) \/ Settle(a) \/ TryFails(a)
      PROVE  WireInv'
  <2>1. /\ pc[a] \in {"answered", "releasing"}
        /\ pc'[a] \in {pc[a], "done"}
        /\ \A x \in Attempts \ {a} : pc'[x] = pc[x]
        /\ UNCHANGED wire
    BY <1>8 DEF Release, Settle, TryFails, Acknowledged, Unacknowledged
  <2>2. ASSUME NEW x \in Attempts, wire'[x]
        PROVE  pc'[x] \in {"sent", "answered", "done"}
    BY <2>1, <2>2 DEF WireInv
  <2>3. ASSUME NEW x \in Attempts, pc'[x] \in Admitted
        PROVE  rst'[x] # "none"
    <3>1. pc[x] \in Admitted /\ rst[x] # "none" /\ pc[x] # "releasing"
      BY <2>1, <2>3 DEF WireInv
    <3> QED
      BY <3>1, StaysReserved
  <2> QED
    BY <2>2, <2>3 DEF WireInv
<1> QED
  BY <1>1, <1>2, <1>4, <1>5, <1>6, <1>7, <1>8
  DEF Next, AttemptStep, HouseStep, Expire, Fold, Reconcile, NextDay, vars

LEMMA ChargedInductive == ChargedInv /\ [Next]_vars => ChargedInv'
<1> SUFFICES ASSUME ChargedInv, [Next]_vars
             PROVE  ChargedInv'
  OBVIOUS
<1>1. TypeOK /\ WireInv /\ SentStaysCharged
  BY DEF ChargedInv, LedgerInv, TypedTries
<1>2. LedgerInv' /\ WireInv'
  BY <1>1, LedgerInductive, WireInductive DEF ChargedInv
<1>3. SentStaysCharged'
  <2> SUFFICES ASSUME NEW x \in Attempts, wire'[x]
               PROVE  rst'[x] # "none"
    BY DEF SentStaysCharged
  <2>1. wire[x] \/ pc[x] = "reserved"
    BY <1>1 DEF Next, AttemptStep, HouseStep, Ask, TakeLock, Check, Insert,
           Refuse, Cancel, Send, Answer, Release, Settle, TryFails, Crash,
           Expire, Fold, Reconcile, NextDay, vars, TypeOK
  <2>2. rst[x] # "none" /\ pc[x] # "releasing"
    BY <1>1, <2>1 DEF WireInv, SentStaysCharged, Admitted
  <2> QED
    BY <1>1, <2>2, StaysReserved
<1> QED
  BY <1>2, <1>3 DEF ChargedInv

(* Whatever is cancelled, crashes or expires, an attempt that was sent     *)
(* keeps its reservation.                                                  *)
THEOREM SentAttemptsStayCharged == Spec => []SentStaysCharged
<1>1. Init => ChargedInv
  BY LedgerInitial DEF ChargedInv, Init, WireInv, Admitted, SentStaysCharged
<1>2. ChargedInv => SentStaysCharged
  BY DEF ChargedInv
<1> QED
  BY <1>1, <1>2, ChargedInductive, PTL DEF Spec

-----------------------------------------------------------------------------
(* The day's lock belongs to the attempt that is being admitted, and once  *)
(* checked the attempt has room until it is inserted.                      *)
LockHeld ==
  \A a \in Attempts : pc[a] \in {"locked", "checked"} => lock[req[a].day] = a
RoomLeft ==
  \A a \in Attempts : pc[a] = "checked" =>
    Cardinality(Counted(req[a].day, GroupOf[req[a].kind]))
      < CallCap[GroupOf[req[a].kind]]

CapInv == LedgerInv /\ WireInv /\ LockHeld /\ RoomLeft /\ CapRespected

LEMMA CountedFinite ==
  ASSUME NEW d, NEW g
  PROVE  IsFiniteSet(Counted(d, g)) /\ Cardinality(Counted(d, g)) \in Nat
<1>1. Counted(d, g) \subseteq Attempts /\ IsFiniteSet(Attempts)
  BY LedgerAssumption DEF Counted
<1> QED
  BY <1>1, FS_Subset, FS_CardinalityType

LEMMA LockInductive ==
  ASSUME TypeOK, LockHeld, [Next]_vars
  PROVE  LockHeld'
<1> USE DEF TypeOK, Goto, LockHeld
<1>1. \A a \in Attempts : req[a].day \in Days
  BY DEF Requests
<1>2. ASSUME NEW a \in Attempts, NEW q \in Requests, Ask(a, q)
      PROVE  LockHeld'
  BY <1>2 DEF Ask
<1>3. ASSUME NEW a \in Attempts, TakeLock(a)
      PROVE  LockHeld'
  BY <1>1, <1>3, LedgerAssumption DEF TakeLock
<1>4. ASSUME NEW a \in Attempts, Check(a) \/ Cancel(a) \/ Send(a)
      PROVE  LockHeld'
  BY <1>4 DEF Check, Cancel, Send
<1>5. ASSUME NEW a \in Attempts, Insert(a) \/ Refuse(a) \/ Crash(a)
      PROVE  LockHeld'
  BY <1>1, <1>5 DEF Insert, Refuse, Crash, Unlock
<1>6. ASSUME NEW a \in Attempts, NEW b \in {"known", "uncertain"},
             NEW c \in Costs \cup {0}, Answer(a, b, c)
      PROVE  LockHeld'
  BY <1>6 DEF Answer
<1>7. ASSUME NEW a \in Attempts, Release(a) \/ Settle(a) \/ TryFails(a)
      PROVE  LockHeld'
  BY <1>7 DEF Release, Settle, TryFails, Acknowledged, Unacknowledged
<1>8. ASSUME UNCHANGED <<pc, lock, req>>
      PROVE  LockHeld'
  BY <1>8
<1> QED
  BY <1>2, <1>3, <1>4, <1>5, <1>6, <1>7, <1>8
  DEF Next, AttemptStep, HouseStep, Expire, Fold, Reconcile, NextDay, vars

(* A step that adds no reservation leaves every count within its bound. *)
LEMMA FewerCounted ==
  ASSUME NEW d, NEW g, Counted(d, g)' \subseteq Counted(d, g)
  PROVE  /\ Cardinality(Counted(d, g)') \in Nat
         /\ Cardinality(Counted(d, g)') <= Cardinality(Counted(d, g))
<1>1. /\ IsFiniteSet(Counted(d, g))
      /\ Cardinality(Counted(d, g)) \in Nat
  BY CountedFinite
<1>2. IsFiniteSet(Counted(d, g)')
  BY <1>1, FS_Subset
<1> QED
  BY <1>1, <1>2, FS_Subset, FS_CardinalityType

(* Only Insert adds a reservation to a count; Ask gives a new day and kind *)
(* only to an attempt that has none.                                       *)
LEMMA CountedShrinks ==
  ASSUME TypeOK, Unstarted, WireInv, [Next]_vars,
         ~(\E a \in Attempts : Insert(a)),
         NEW d, NEW g
  PROVE  Counted(d, g)' \subseteq Counted(d, g)
<1> USE DEF TypeOK, Counted
<1>1. ASSUME NEW a \in Attempts, NEW q \in Requests, Ask(a, q)
      PROVE  Counted(d, g)' \subseteq Counted(d, g)
  BY <1>1 DEF Ask, Unstarted, Early, ledger
<1>2. ASSUME NEW a \in Attempts, Release(a)
      PROVE  Counted(d, g)' \subseteq Counted(d, g)
  BY <1>2 DEF Release, DeleteReserved
<1>3. ASSUME NEW a \in Attempts, Settle(a)
      PROVE  Counted(d, g)' \subseteq Counted(d, g)
  <2>1. rst[a] # "none"
    BY <1>3 DEF Settle, WireInv, Admitted
  <2> QED
    BY <1>3, <2>1 DEF Settle, Settlement, Recorded, Reconciles, Reconciled, First,
                ledger
<1>4. ASSUME NEW a \in Attempts, NEW c \in Costs, Reconcile(a, c)
      PROVE  Counted(d, g)' \subseteq Counted(d, g)
  BY <1>4 DEF Reconcile, Settlement, Recorded, Reconciles, Reconciled,
              First, ledger
<1>5. ASSUME NEW a \in Attempts, Expire(a) \/ Fold(a)
      PROVE  Counted(d, g)' \subseteq Counted(d, g)
  BY <1>5 DEF Expire, Fold, Due
<1>6. ASSUME UNCHANGED <<rst, req>>
      PROVE  Counted(d, g)' \subseteq Counted(d, g)
  BY <1>6
<1> QED
  BY <1>1, <1>2, <1>3, <1>4, <1>5, <1>6
  DEF Next, AttemptStep, HouseStep, TakeLock, Check, Refuse, Cancel, Send,
      Answer, TryFails, Crash, NextDay, vars, ledger

(* The admission under the day's lock keeps the cap: the attempt that is   *)
(* inserted had room when it was checked, and holds the lock since.        *)
LEMMA CapInductive == CapInv /\ [Next]_vars => CapInv'
<1> SUFFICES ASSUME CapInv, [Next]_vars
             PROVE  CapInv'
  OBVIOUS
<1>1. /\ TypeOK /\ Unstarted /\ WireInv
      /\ LockHeld /\ RoomLeft /\ CapRespected
  BY DEF CapInv, LedgerInv, TypedTries
<1>2. LedgerInv' /\ WireInv' /\ LockHeld'
  BY <1>1, LedgerInductive, WireInductive, LockInductive DEF CapInv
<1>3. \A d, g : Cardinality(Counted(d, g)) \in Nat
  BY CountedFinite
<1>4. \A g \in Groups : CallCap[g] \in Nat
  BY LedgerAssumption
<1>5. \A a \in Attempts : req[a].day \in Days /\ GroupOf[req[a].kind] \in Groups
  BY <1>1, LedgerAssumption DEF TypeOK, Requests
<1>6. CASE ~(\E a \in Attempts : Insert(a))
  <2>1. \A d, g : /\ Cardinality(Counted(d, g)') \in Nat
                  /\ Cardinality(Counted(d, g)') <= Cardinality(Counted(d, g))
    BY <1>1, <1>6, CountedShrinks, FewerCounted
  <2>2. CapRespected'
    BY <1>1, <1>3, <1>4, <2>1 DEF CapRespected
  <2>3. ASSUME NEW a \in Attempts, pc'[a] = "checked"
        PROVE  /\ req'[a] = req[a]
               /\ Cardinality(Counted(req[a].day, GroupOf[req[a].kind]))
                    < CallCap[GroupOf[req[a].kind]]
    BY <1>1, <1>6, <2>3
    DEF Next, AttemptStep, HouseStep, Ask, TakeLock, Check, Refuse, Cancel,
        Send, Answer, Release, Settle, TryFails, Crash, Expire, Fold,
        Reconcile, NextDay, vars, Goto, Acknowledged, Unacknowledged, TypeOK,
        RoomLeft
  <2>4. RoomLeft'
    BY <1>3, <1>4, <1>5, <2>1, <2>3 DEF RoomLeft
  <2> QED
    BY <1>2, <2>2, <2>4 DEF CapInv
<1>7. ASSUME NEW a \in Attempts, Insert(a)
      PROVE  CapInv'
  <2>0. PICK D \in Days, G \in Groups :
          D = req[a].day /\ G = GroupOf[req[a].kind]
    BY <1>5
  <2>1. /\ pc[a] = "checked" /\ rst' = [rst EXCEPT ![a] = "reserved"]
        /\ pc'[a] # "checked" /\ req' = req
        /\ \A x \in Attempts \ {a} : pc'[x] = pc[x]
    BY <1>1, <1>7 DEF Insert, Goto, TypeOK
  <2>2. Cardinality(Counted(D, G)) < CallCap[G]
    BY <1>1, <2>0, <2>1 DEF RoomLeft
  <2>3. a \notin Counted(D, G) /\ Counted(D, G)' = Counted(D, G) \cup {a}
    BY <1>1, <2>0, <2>1 DEF Counted, TypeOK, Unstarted, Early
  <2>4. \A d, g : d # D \/ g # G => Counted(d, g)' = Counted(d, g)
    BY <1>1, <2>0, <2>1 DEF Counted, TypeOK
  <2>5. Cardinality(Counted(D, G)') = Cardinality(Counted(D, G)) + 1
    BY <2>3, CountedFinite, FS_AddElement
  <2>6. CapRespected'
    <3> SUFFICES ASSUME NEW d \in Days, NEW g \in Groups
                 PROVE  Cardinality(Counted(d, g)') <= CallCap[g]
      BY DEF CapRespected
    <3>1. CASE d = D /\ g = G
      BY <3>1, <2>2, <2>5, <1>3, <1>4
    <3>2. CASE d # D \/ g # G
      BY <3>2, <2>4, <1>1 DEF CapRespected
    <3> QED
      BY <3>1, <3>2
  <2>7. RoomLeft'
    <3> SUFFICES ASSUME NEW x \in Attempts, pc'[x] = "checked",
                        NEW d, NEW g, d = req[x].day, g = GroupOf[req[x].kind]
                 PROVE  Cardinality(Counted(d, g)') < CallCap[g]
      BY <2>1 DEF RoomLeft
    <3>1. x # a /\ pc[x] = "checked"
      BY <2>1
    <3>2. d # D
      BY <1>1, <2>0, <2>1, <3>1 DEF LockHeld
    <3> QED
      BY <3>1, <3>2, <2>4, <1>1 DEF RoomLeft
  <2> QED
    BY <1>2, <2>6, <2>7 DEF CapInv
<1> QED
  BY <1>6, <1>7

(* However many processes reserve at once, no day and cap group holds more *)
(* reservations than its cap.                                              *)
THEOREM CapIsRespected == Spec => []CapRespected
<1>1. Init => CapInv
  <2> SUFFICES ASSUME Init
               PROVE  CapInv
    OBVIOUS
  <2>1. LedgerInv
    BY LedgerInitial
  <2>2. WireInv /\ LockHeld /\ RoomLeft
    BY DEF Init, WireInv, Admitted, LockHeld, RoomLeft
  <2>3. \A d, g : Counted(d, g) = {}
    BY DEF Init, Counted
  <2>4. \A g \in Groups : CallCap[g] \in Nat
    BY LedgerAssumption
  <2>5. Cardinality({}) = 0
    BY FS_EmptySet
  <2>6. CapRespected
    BY <2>3, <2>4, <2>5 DEF CapRespected
  <2> QED
    BY <2>1, <2>2, <2>6 DEF CapInv
<1>2. CapInv => CapRespected
  BY DEF CapInv
<1> QED
  BY <1>1, <1>2, CapInductive, PTL DEF Spec
-----------------------------------------------------------------------------
(* Sums over finite sets: the induction goes over a smallest set that      *)
(* would break the claim.                                                  *)

(* The sum MapThenSumSet takes, over a function of weights: a fold of all  *)
(* subsets that adds the element CHOOSE picks to the sum of the others.    *)
Pick(s) == CHOOSE x \in s : TRUE
IsFold(h, w, S) ==
  h = [s \in SUBSET S |-> IF s = {} THEN 0 ELSE w[Pick(s)] + h[s \ {Pick(s)}]]
SumOn(w, S) == (CHOOSE h : IsFold(h, w, S))[S]

(* Some set of a set of finite sets has no other of them inside it. *)
LEMMA Smallest ==
  ASSUME NEW U, IsFiniteSet(U), NEW T, T \subseteq SUBSET U, T # {}
  PROVE  \E s \in T : \A t \in T : ~(t \subseteq s /\ t # s)
<1>1. FiniteSubsetsOf(U) = SUBSET U
  BY FS_Subset DEF FiniteSubsetsOf
<1>2. \E s \in T : \A t \in T : ~(<<t, s>> \in StrictSubsetOrdering(U))
  BY <1>1, FS_StrictSubsetOrderingWellFounded, WFMin
<1> QED
  BY <1>2 DEF StrictSubsetOrdering

LEMMA PickInside ==
  ASSUME NEW s, s # {}
  PROVE  /\ Pick(s) \in s
         /\ s \ {Pick(s)} \subseteq s /\ s \ {Pick(s)} # s
BY DEF Pick

LEMMA FoldAt ==
  ASSUME NEW S, NEW w, NEW h, IsFold(h, w, S), NEW s \in SUBSET S
  PROVE  /\ s = {} => h[s] = 0
         /\ s # {} => h[s] = w[Pick(s)] + h[s \ {Pick(s)}]
BY DEF IsFold

(* Two folds of the same weights agree wherever both are defined. *)
LEMMA FoldsAgree ==
  ASSUME NEW S, NEW T, NEW w, NEW h, NEW k, IsFold(h, w, S), IsFold(k, w, T),
         NEW R, IsFiniteSet(R), R \subseteq S, R \subseteq T
  PROVE  h[R] = k[R]
<1> DEFINE Bad == {s \in SUBSET R : h[s] # k[s]}
<1>1. SUFFICES ASSUME Bad # {}
               PROVE  FALSE
  BY DEF Bad
<1>2. PICK s \in Bad : \A t \in Bad : ~(t \subseteq s /\ t # s)
  <2>1. Bad \subseteq SUBSET R
    OBVIOUS
  <2> HIDE DEF Bad
  <2> QED
    BY <1>1, <2>1, Smallest
<1>3. s \in SUBSET S /\ s \in SUBSET T /\ h[s] # k[s]
  BY <1>2
<1>4. s # {}
  BY <1>3, FoldAt
<1>5. h[s \ {Pick(s)}] = k[s \ {Pick(s)}]
  BY <1>2, <1>4, PickInside
<1> QED
  BY <1>3, <1>4, <1>5, FoldAt

(* There is a fold over every finite set. *)
LEMMA FoldExists ==
  ASSUME NEW U, IsFiniteSet(U), NEW w, NEW S, S \subseteq U
  PROVE  \E h : IsFold(h, w, S)
<1> DEFINE Bad == {s \in SUBSET U : ~ \E h : IsFold(h, w, s)}
<1>1. SUFFICES ASSUME Bad # {}
               PROVE  FALSE
  BY DEF Bad
<1>2. PICK M \in Bad : \A t \in Bad : ~(t \subseteq M /\ t # M)
  <2>1. Bad \subseteq SUBSET U
    OBVIOUS
  <2> HIDE DEF Bad
  <2> QED
    BY <1>1, <2>1, Smallest
<1>3. \A s : s \subseteq M /\ s # M => \E h : IsFold(h, w, s)
  BY <1>2
<1>4. ASSUME NEW s, s \subseteq M, s # M
      PROVE  IsFold(CHOOSE h : IsFold(h, w, s), w, s)
  BY <1>3, <1>4
<1> DEFINE g == [s \in SUBSET M |-> IF s = {} THEN 0
                                   ELSE w[Pick(s)] + SumOn(w, s \ {Pick(s)})]
<1>5. ASSUME NEW s \in SUBSET M, s # M
      PROVE  g[s] = SumOn(w, s)
  <2> DEFINE h == CHOOSE h : IsFold(h, w, s)
  <2>1. IsFold(h, w, s) /\ SumOn(w, s) = h[s]
    BY <1>4, <1>5 DEF SumOn
  <2>2. CASE s = {}
    <3>1. h[s] = 0
      <4> HIDE DEF h
      <4> QED
        BY <2>1, <2>2, FoldAt
    <3> QED
      BY <2>1, <2>2, <3>1
  <2>3. CASE s # {}
    <3> DEFINE r == s \ {Pick(s)}
               k == CHOOSE k : IsFold(k, w, r)
    <3>1. r \subseteq s /\ r # M /\ IsFiniteSet(r)
      BY <1>5, <2>3, PickInside, FS_Subset
    <3>2. IsFold(k, w, r) /\ SumOn(w, r) = k[r]
      BY <1>4, <3>1 DEF SumOn
    <3>3. h[r] = k[r]
      <4> HIDE DEF r, k, h
      <4> QED
        BY <3>1, <3>2, <2>1, FoldsAgree
    <3>4. h[s] = w[Pick(s)] + h[r]
      <4> HIDE DEF h
      <4> QED
        BY <2>1, <2>3, FoldAt
    <3> QED
      BY <2>1, <2>3, <3>2, <3>3, <3>4
  <2> QED
    BY <2>2, <2>3
<1>6. IsFold(g, w, M)
  <2>1. ASSUME NEW s \in SUBSET M, s # {}
        PROVE  g[s \ {Pick(s)}] = SumOn(w, s \ {Pick(s)})
    <3>1. s \ {Pick(s)} \in SUBSET M /\ s \ {Pick(s)} # M
      BY <2>1, PickInside
    <3> HIDE DEF g
    <3> QED
      BY <1>5, <3>1
  <2>2. g = [s \in SUBSET M |-> IF s = {} THEN 0
                                ELSE w[Pick(s)] + g[s \ {Pick(s)}]]
    <3> DEFINE d == [s \in SUBSET M |-> IF s = {} THEN 0
                                ELSE w[Pick(s)] + g[s \ {Pick(s)}]]
    <3>1. ASSUME NEW s \in SUBSET M
          PROVE  g[s] = d[s]
      BY <2>1
    <3> QED
      BY <3>1
  <2> HIDE DEF g
  <2> QED
    BY <2>2 DEF IsFold
<1> QED
  BY <1>2, <1>6

(* The sum of a finite set adds the element picked to the others' sum. *)
LEMMA SumRecursion ==
  ASSUME NEW w, NEW S, IsFiniteSet(S)
  PROVE  /\ S = {} => SumOn(w, S) = 0
         /\ S # {} => SumOn(w, S) = w[Pick(S)] + SumOn(w, S \ {Pick(S)})
<1> DEFINE R == S \ {Pick(S)}
           h == CHOOSE h : IsFold(h, w, S)
           k == CHOOSE k : IsFold(k, w, R)
<1>1. IsFold(h, w, S) /\ SumOn(w, S) = h[S]
  BY FoldExists DEF SumOn
<1>2. IsFold(k, w, R) /\ SumOn(w, R) = k[R] /\ IsFiniteSet(R) /\ R \subseteq S
  BY FoldExists, FS_Subset DEF SumOn
<1> HIDE DEF R, h, k
<1>3. h[R] = k[R]
  BY <1>1, <1>2, FoldsAgree
<1>4. /\ S = {} => h[S] = 0
      /\ S # {} => h[S] = w[Pick(S)] + h[R]
  BY <1>1, FoldAt DEF R
<1> QED
  BY <1>1, <1>2, <1>3, <1>4 DEF R

LEMMA SumNat ==
  ASSUME NEW w, NEW S, IsFiniteSet(S), \A x \in S : w[x] \in Nat
  PROVE  SumOn(w, S) \in Nat
<1> DEFINE Bad == {s \in SUBSET S : SumOn(w, s) \notin Nat}
<1>1. SUFFICES ASSUME Bad # {}
               PROVE  FALSE
  BY DEF Bad
<1>2. PICK s \in Bad : \A t \in Bad : ~(t \subseteq s /\ t # s)
  <2>1. Bad \subseteq SUBSET S
    OBVIOUS
  <2> HIDE DEF Bad
  <2> QED
    BY <1>1, <2>1, Smallest
<1>3. IsFiniteSet(s)
  BY FS_Subset
<1>4. s # {}
  <2>1. SumOn(w, s) \notin Nat
    OBVIOUS
  <2>2. s = {} => SumOn(w, s) = 0
    BY <1>3, SumRecursion
  <2> QED
    BY <2>1, <2>2
<1>5. SumOn(w, s \ {Pick(s)}) \in Nat
  BY <1>2, <1>4, PickInside
<1>6. w[Pick(s)] \in Nat
  BY <1>4, PickInside
<1> QED
  BY <1>2, <1>3, <1>4, <1>5, <1>6, SumRecursion

(* Any element can be taken out of a sum. *)
LEMMA SumRemove ==
  ASSUME NEW w, NEW S, IsFiniteSet(S), \A x \in S : w[x] \in Nat,
         NEW x \in S
  PROVE  SumOn(w, S) = w[x] + SumOn(w, S \ {x})
<1> DEFINE Bad == {s \in SUBSET S :
                     \E y \in s : SumOn(w, s) # w[y] + SumOn(w, s \ {y})}
<1>1. SUFFICES ASSUME Bad # {}
               PROVE  FALSE
  BY DEF Bad
<1>2. PICK s \in Bad : \A t \in Bad : ~(t \subseteq s /\ t # s)
  <2>1. Bad \subseteq SUBSET S
    OBVIOUS
  <2> HIDE DEF Bad
  <2> QED
    BY <1>1, <2>1, Smallest
<1>3. PICK y \in s : SumOn(w, s) # w[y] + SumOn(w, s \ {y})
  BY <1>2
<1> DEFINE p == Pick(s)
<1>4. p \in s /\ IsFiniteSet(s)
  BY <1>3, PickInside, FS_Subset
<1>5. SumOn(w, s) = w[p] + SumOn(w, s \ {p})
  BY <1>3, <1>4, SumRecursion
<1> HIDE DEF p
<1>6. y # p
  BY <1>3, <1>5
<1>7. /\ s \ {p} \notin Bad /\ s \ {y} \notin Bad
      /\ y \in s \ {p} /\ p \in s \ {y}
      /\ s \ {p} \in SUBSET S /\ s \ {y} \in SUBSET S
  BY <1>2, <1>4, <1>6
<1>8. /\ SumOn(w, s \ {p}) = w[y] + SumOn(w, (s \ {p}) \ {y})
      /\ SumOn(w, s \ {y}) = w[p] + SumOn(w, (s \ {y}) \ {p})
  BY <1>7
<1>9. (s \ {p}) \ {y} = (s \ {y}) \ {p}
  OBVIOUS
<1> DEFINE rest == SumOn(w, (s \ {y}) \ {p})
<1>10. w[y] \in Nat /\ w[p] \in Nat /\ rest \in Nat
  <2>1. IsFiniteSet((s \ {y}) \ {p})
    BY <1>4, FS_Subset
  <2> QED
    BY <1>4, <2>1, SumNat
<1>11. w[p] + (w[y] + rest) = w[y] + (w[p] + rest)
  <2> HIDE DEF rest
  <2> QED
    BY <1>10
<1> QED
  BY <1>3, <1>5, <1>8, <1>9, <1>11

(* More elements of no smaller weight sum up to no less. *)
LEMMA SumMonotonic ==
  ASSUME NEW w, NEW v, NEW T, IsFiniteSet(T), NEW S, S \subseteq T,
         \A x \in T : v[x] \in Nat,
         \A x \in S : w[x] \in Nat /\ w[x] <= v[x]
  PROVE  SumOn(w, S) <= SumOn(v, T)
<1> DEFINE Bad == {s \in SUBSET S : \E t \in SUBSET T :
                     s \subseteq t /\ ~(SumOn(w, s) <= SumOn(v, t))}
<1>1. SUFFICES ASSUME Bad # {}
               PROVE  FALSE
  BY DEF Bad
<1>2. IsFiniteSet(S)
  BY FS_Subset
<1>3. PICK s \in Bad : \A r \in Bad : ~(r \subseteq s /\ r # s)
  <2>1. Bad \subseteq SUBSET S
    OBVIOUS
  <2> HIDE DEF Bad
  <2> QED
    BY <1>1, <1>2, <2>1, Smallest
<1>4. PICK t \in SUBSET T : s \subseteq t /\ ~(SumOn(w, s) <= SumOn(v, t))
  BY <1>3
<1>5. IsFiniteSet(s) /\ IsFiniteSet(t)
  BY FS_Subset, <1>2
<1>6. SumOn(v, t) \in Nat
  BY <1>5, SumNat
<1>7. s # {}
  <2>1. s = {} => SumOn(w, s) = 0
    BY <1>5, SumRecursion
  <2> QED
    BY <1>4, <1>6, <2>1
<1>8. PICK x \in s : TRUE
  BY <1>7
<1>9. s \ {x} \notin Bad /\ s \ {x} \in SUBSET S /\ t \ {x} \in SUBSET T
  BY <1>3, <1>8
<1>10. SumOn(w, s \ {x}) <= SumOn(v, t \ {x})
  BY <1>4, <1>9
<1>11. /\ SumOn(w, s) = w[x] + SumOn(w, s \ {x})
       /\ SumOn(v, t) = v[x] + SumOn(v, t \ {x})
  BY <1>4, <1>5, <1>8, SumRemove
<1>12. /\ w[x] \in Nat /\ v[x] \in Nat /\ w[x] <= v[x]
       /\ SumOn(w, s \ {x}) \in Nat /\ SumOn(v, t \ {x}) \in Nat
  <2>1. IsFiniteSet(s \ {x}) /\ IsFiniteSet(t \ {x})
    BY <1>5, FS_Subset
  <2> QED
    BY <1>8, <1>4, <2>1, SumNat
<1> QED
  BY <1>4, <1>10, <1>11, <1>12

(* Equal weights sum up to the same. *)
LEMMA SumEqual ==
  ASSUME NEW w, NEW v, NEW S, IsFiniteSet(S),
         \A x \in S : w[x] \in Nat /\ v[x] = w[x]
  PROVE  SumOn(v, S) = SumOn(w, S)
<1>1. SumOn(w, S) \in Nat /\ SumOn(v, S) \in Nat
  BY SumNat
<1>2. SumOn(w, S) <= SumOn(v, S) /\ SumOn(v, S) <= SumOn(w, S)
  BY SumMonotonic
<1> QED
  BY <1>1, <1>2

-----------------------------------------------------------------------------
(* The admitted day stays within the limit of the attempt that was checked *)
(* until it is inserted: the day's lock keeps new reservations out, and    *)
(* what settlements and housekeeping do meanwhile owes no more.            *)
OwedBy == [a \in Attempts |-> Owed(a)]
ChargedBy == [a \in Attempts |-> Charge(a)]
OwedOn(d) == SumOn(OwedBy, Production(d))
Within ==
  \A a \in Attempts :
    pc[a] = "checked" /\ req[a].kind \notin Exempt
    => OwedOn(req[a].day) + req[a].est <= Limit(req[a].prio)

AdmissionInv == LedgerInv /\ WireInv /\ LockHeld /\ Within

LEMMA OwedSum ==
  ASSUME NEW S \in SUBSET Attempts
  PROVE  MapThenSumSet(Owed, S) = SumOn(OwedBy, S)
BY DEF MapThenSumSet, MapThenFoldSet, SumOn, IsFold, Pick, OwedBy

LEMMA ChargeSum ==
  ASSUME NEW S \in SUBSET Attempts
  PROVE  MapThenSumSet(Charge, S) = SumOn(ChargedBy, S)
BY DEF MapThenSumSet, MapThenFoldSet, SumOn, IsFold, Pick, ChargedBy

LEMMA ProductionFinite ==
  ASSUME NEW d
  PROVE  Production(d) \in SUBSET Attempts /\ IsFiniteSet(Production(d))
BY FS_Subset, LedgerAssumption DEF Production

(* An attempt owes at most what it is charged. *)
LEMMA OwedAtMostCharged ==
  ASSUME TypeOK, NEW a \in Attempts
  PROVE  /\ OwedBy[a] \in Nat /\ ChargedBy[a] \in Nat
         /\ OwedBy[a] <= ChargedBy[a]
         /\ req[a].est \in Nat /\ OwedBy[a] <= req[a].est
<1>1. req[a].est \in Nat /\ actual[a] \in Nat
  BY LedgerAssumption DEF TypeOK, Requests
<1> QED
  BY <1>1 DEF OwedBy, ChargedBy, Owed, Charge

LEMMA OwedNatNext ==
  ASSUME TypeOK', NEW a \in Attempts
  PROVE  OwedBy'[a] \in Nat
<1>1. req'[a].est \in Nat /\ actual'[a] \in Nat
  BY LedgerAssumption DEF TypeOK, Requests
<1> QED
  BY <1>1 DEF OwedBy, Owed

(* A step makes no reservation owe more than it did. *)
LEMMA OwesNoMore ==
  ASSUME TypeOK, TypeOK', Unstarted, WireInv, [Next]_vars,
         NEW x \in Attempts, rst[x] # "none", rst'[x] # "none"
  PROVE  OwedBy'[x] <= OwedBy[x]
<1> USE DEF TypeOK
<1>0. /\ req[x].est \in Nat /\ OwedBy[x] \in Nat /\ actual[x] \in Nat
      /\ OwedBy[x] <= req[x].est
  BY OwedAtMostCharged
<1>1. ASSUME UNCHANGED <<rst, actual, req>>
      PROVE  OwedBy'[x] <= OwedBy[x]
  BY <1>0, <1>1 DEF OwedBy, Owed
<1>2. ASSUME rst'[x] = rst[x], actual'[x] = actual[x], req'[x] = req[x]
      PROVE  OwedBy'[x] <= OwedBy[x]
  BY <1>0, <1>2 DEF OwedBy, Owed
<1>3. ASSUME rst[x] # "settled", req'[x] = req[x], actual'[x] \in Nat
      PROVE  OwedBy'[x] <= OwedBy[x]
  BY <1>0, <1>3 DEF OwedBy, Owed
<1>4. actual'[x] \in Nat
  OBVIOUS
<1>5. ASSUME NEW a \in Attempts, NEW q \in Requests, Ask(a, q)
      PROVE  OwedBy'[x] <= OwedBy[x]
  <2>1. a # x /\ req'[x] = req[x] /\ rst' = rst /\ actual' = actual
    BY <1>5 DEF Ask, Unstarted, Early, ledger
  <2> QED
    BY <1>2, <2>1
<1>6. ASSUME NEW a \in Attempts, Insert(a) \/ Release(a) \/ Expire(a)
      PROVE  OwedBy'[x] <= OwedBy[x]
  <2>1. /\ req' = req /\ actual' = actual
        /\ rst[x] # "settled" \/ rst'[x] = rst[x]
    BY <1>6 DEF Insert, Release, Expire, DeleteReserved, Unstarted, Early
  <2> QED
    BY <1>2, <1>3, <1>4, <2>1
<1>7. ASSUME NEW a \in Attempts, NEW b, NEW c, Settlement(a, b, c), req' = req
      PROVE  OwedBy'[x] <= OwedBy[x]
  <2>1. CASE First(a) /\ Recorded(a, b, c)
    <3>1. x = a => rst[x] # "settled"
      BY <2>1 DEF First
    <3>2. x # a => rst'[x] = rst[x] /\ actual'[x] = actual[x]
      BY <2>1 DEF Recorded
    <3> QED
      BY <1>2, <1>3, <1>4, <1>7, <3>1, <3>2
  <2>2. CASE Reconciles(a, b) /\ Reconciled(a, c)
    <3>1. x = a => rst[x] # "settled"
      BY <2>2 DEF Reconciles
    <3>2. x # a => rst'[x] = rst[x] /\ actual'[x] = actual[x]
      BY <2>2 DEF Reconciled
    <3> QED
      BY <1>2, <1>3, <1>4, <1>7, <3>1, <3>2
  <2>3. CASE UNCHANGED ledger
    BY <1>2, <1>7, <2>3 DEF ledger
  <2> QED
    BY <1>7, <2>1, <2>2, <2>3 DEF Settlement
<1>8. ASSUME NEW a \in Attempts, Fold(a)
      PROVE  OwedBy'[x] <= OwedBy[x]
  <2>1. req' = req /\ (x = a => rst[x] # "settled")
    BY <1>8 DEF Fold, Due
  <2>2. x # a => rst'[x] = rst[x] /\ actual'[x] = actual[x]
    BY <1>8 DEF Fold
  <2> QED
    BY <1>2, <1>3, <1>4, <2>1, <2>2
<1> QED
  BY <1>1, <1>5, <1>6, <1>7, <1>8
  DEF Next, AttemptStep, HouseStep, TakeLock, Check, Refuse, Cancel, Send,
      Answer, TryFails, Settle, Reconcile, Crash, NextDay, vars, ledger

(* Only Insert adds a reservation to a day. *)
LEMMA ProductionShrinks ==
  ASSUME TypeOK, Unstarted, WireInv, [Next]_vars,
         NEW d, \A a \in Attempts : Insert(a) => req[a].day # d
  PROVE  Production(d)' \subseteq Production(d)
<1> USE DEF TypeOK, Production
<1>1. ASSUME NEW a \in Attempts, NEW q \in Requests, Ask(a, q)
      PROVE  Production(d)' \subseteq Production(d)
  BY <1>1 DEF Ask, Unstarted, Early, ledger
<1>2. ASSUME NEW a \in Attempts, Insert(a)
      PROVE  Production(d)' \subseteq Production(d)
  BY <1>2 DEF Insert
<1>3. ASSUME NEW a \in Attempts, Release(a)
      PROVE  Production(d)' \subseteq Production(d)
  BY <1>3 DEF Release, DeleteReserved
<1>4. ASSUME NEW a \in Attempts, Settle(a)
      PROVE  Production(d)' \subseteq Production(d)
  <2>1. rst[a] # "none"
    BY <1>4 DEF Settle, WireInv, Admitted
  <2> QED
    BY <1>4, <2>1 DEF Settle, Settlement, Recorded, Reconciles, Reconciled, First,
                ledger
<1>5. ASSUME NEW a \in Attempts, NEW c \in Costs, Reconcile(a, c)
      PROVE  Production(d)' \subseteq Production(d)
  BY <1>5 DEF Reconcile, Settlement, Recorded, Reconciles, Reconciled,
              First, ledger
<1>6. ASSUME NEW a \in Attempts, Expire(a) \/ Fold(a)
      PROVE  Production(d)' \subseteq Production(d)
  BY <1>6 DEF Expire, Fold, Due
<1>7. ASSUME UNCHANGED <<rst, req>>
      PROVE  Production(d)' \subseteq Production(d)
  BY <1>7
<1> QED
  BY <1>1, <1>2, <1>3, <1>4, <1>5, <1>6, <1>7
  DEF Next, AttemptStep, HouseStep, TakeLock, Check, Refuse, Cancel, Send,
      Answer, TryFails, Crash, NextDay, vars, ledger

(* A checked attempt's day owes no more after a step than before. *)
LEMMA DayOwesNoMore ==
  ASSUME AdmissionInv, TypeOK', [Next]_vars,
         NEW x \in Attempts, pc[x] = "checked", pc'[x] = "checked"
  PROVE  OwedOn(req[x].day)' <= OwedOn(req[x].day)
<1>1. TypeOK /\ Unstarted /\ WireInv /\ LockHeld
  BY DEF AdmissionInv, LedgerInv, TypedTries
<1>2. PICK d : d = req[x].day
  OBVIOUS
<1>3. req'[x] = req[x]
  BY <1>1 DEF Next, AttemptStep, HouseStep, Ask, TakeLock, Check, Insert,
       Refuse, Cancel, Send, Answer, Release, Settle, TryFails, Crash, Expire,
       Fold, Reconcile, NextDay, vars, TypeOK
<1>4. \A a \in Attempts : Insert(a) => req[a].day # d
  BY <1>1, <1>2 DEF Insert, Goto, LockHeld, TypeOK
<1>5. Production(d)' \subseteq Production(d)
  BY <1>1, <1>4, ProductionShrinks
<1>6. Production(d) \in SUBSET Attempts /\ IsFiniteSet(Production(d))
  BY ProductionFinite
<1>7. \A a \in Production(d) : OwedBy[a] \in Nat
  BY <1>1, <1>6, OwedAtMostCharged
<1>8. \A a \in Production(d)' : OwedBy'[a] \in Nat
  BY <1>5, <1>6, OwedNatNext
<1>9. \A a \in Production(d)' : OwedBy'[a] <= OwedBy[a]
  BY <1>1, <1>5, OwesNoMore DEF Production
<1>10. SumOn(OwedBy', Production(d)') <= SumOn(OwedBy, Production(d))
  BY <1>5, <1>6, <1>7, <1>8, <1>9, SumMonotonic
<1> QED
  BY <1>2, <1>3, <1>10 DEF OwedOn

LEMMA AdmissionInductive == AdmissionInv /\ [Next]_vars => AdmissionInv'
<1> SUFFICES ASSUME AdmissionInv, [Next]_vars
             PROVE  AdmissionInv'
  OBVIOUS
<1>1. /\ TypeOK /\ Unstarted /\ WireInv /\ LockHeld /\ Within /\ LedgerInv
  BY DEF AdmissionInv, LedgerInv, TypedTries
<1>2. LedgerInv' /\ WireInv' /\ LockHeld'
  BY <1>1, LedgerInductive, WireInductive, LockInductive
<1>3. TypeOK'
  BY <1>2 DEF LedgerInv, TypedTries
<1>4. ASSUME NEW x \in Attempts, pc'[x] = "checked",
             req'[x].kind \notin Exempt
      PROVE  OwedOn(req[x].day)' + req'[x].est <= Limit(req'[x].prio)
  <2>1. req'[x] = req[x] /\ (pc[x] = "checked" \/ Check(x))
    BY <1>1, <1>4 DEF Next, AttemptStep, HouseStep, Ask, TakeLock, Check,
       Insert, Refuse, Cancel, Send, Answer, Release, Settle, TryFails, Crash,
       Expire, Fold, Reconcile, NextDay, vars, TypeOK, Goto, Acknowledged,
       Unacknowledged
  <2> DEFINE d == req[x].day
             owed == OwedOn(d)
             owing == OwedOn(d)'
             est == req[x].est
             limit == Limit(req[x].prio)
  <2>2. owed \in Nat /\ owing \in Nat /\ est \in Nat /\ limit \in Nat
    <3>1. /\ Production(d) \in SUBSET Attempts
          /\ IsFiniteSet(Production(d))
      BY ProductionFinite
    <3>2. /\ Production(d)' \in SUBSET Attempts
          /\ IsFiniteSet(Production(d)')
      BY FS_Subset, LedgerAssumption DEF Production
    <3>3. owed \in Nat
      BY <1>1, <3>1, OwedAtMostCharged, SumNat DEF OwedOn
    <3>4. owing \in Nat
      BY <1>3, <3>2, OwedNatNext, SumNat DEF OwedOn
    <3>5. est \in Nat /\ limit \in Nat
      BY <1>1, OwedAtMostCharged, LedgerAssumption DEF Limit
    <3> QED
      BY <3>3, <3>4, <3>5
  <2>3. CASE pc[x] = "checked"
    <3>1. owing <= owed
      BY <1>3, <1>4, <2>3, DayOwesNoMore
    <3>2. owed + est <= limit
      BY <1>1, <1>4, <2>1, <2>3 DEF Within
    <3>3. owing + est <= limit
      <4> HIDE DEF owing, owed, est, limit
      <4> QED
        BY <2>2, <3>1, <3>2
    <3> QED
      BY <2>1, <3>3
  <2>4. CASE Check(x)
    <3>1. Committed(d) + est <= limit
      BY <1>4, <2>1, <2>4 DEF Check
    <3>2. Committed(d) = SumOn(ChargedBy, Production(d))
      BY ProductionFinite, ChargeSum DEF Committed
    <3>3. owing = owed
      BY <2>4 DEF Check, OwedOn, OwedBy, Owed, Production, ledger
    <3>4. owed <= SumOn(ChargedBy, Production(d))
      <4>1. /\ Production(d) \in SUBSET Attempts
            /\ IsFiniteSet(Production(d))
        BY ProductionFinite
      <4>2. \A a \in Production(d) : /\ OwedBy[a] \in Nat
                                     /\ ChargedBy[a] \in Nat
                                     /\ OwedBy[a] <= ChargedBy[a]
        BY <1>1, <4>1, OwedAtMostCharged
      <4> QED
        BY <4>1, <4>2, SumMonotonic DEF OwedOn
    <3>5. SumOn(ChargedBy, Production(d)) \in Nat
      BY <1>1, ProductionFinite, OwedAtMostCharged, SumNat
    <3>6. owing + est <= limit
      <4> HIDE DEF owing, owed, est, limit
      <4> QED
        BY <2>2, <3>1, <3>2, <3>3, <3>4, <3>5
    <3> QED
      BY <2>1, <3>6
  <2> QED
    BY <2>1, <2>3, <2>4
<1>5. Within'
  BY <1>4 DEF Within
<1> QED
  BY <1>2, <1>5 DEF AdmissionInv

(* However many processes reserve at once, and whatever is settled while   *)
(* one of them decides: an admitted production reservation is within the   *)
(* limit of its priority, together with what its day owes.                 *)
THEOREM AdmissionsAreWithinLimit == Spec => AdmissionWithinLimit
<1>1. Init => AdmissionInv
  BY LedgerInitial DEF AdmissionInv, Init, WireInv, Admitted, LockHeld, Within
<1>2. AdmissionInv /\ [Next]_vars =>
        [\A a \in Attempts :
           rst[a] = "none" /\ rst'[a] = "reserved" /\ req[a].kind \notin Exempt
           => MapThenSumSet(Owed, Production(req[a].day)) + req[a].est
                <= Limit(req[a].prio)]_vars
  <2> SUFFICES ASSUME AdmissionInv, Next,
                      NEW a \in Attempts, rst[a] = "none",
                      rst'[a] = "reserved", req[a].kind \notin Exempt
               PROVE  MapThenSumSet(Owed, Production(req[a].day)) + req[a].est
                        <= Limit(req[a].prio)
    BY DEF vars, ledger
  <2>1. TypeOK /\ WireInv /\ Within
    BY DEF AdmissionInv, LedgerInv, TypedTries
  <2>2. Insert(a)
    BY <2>1 DEF Next, AttemptStep, HouseStep, Ask, TakeLock, Check, Insert,
       Refuse, Cancel, Send, Answer, Release, DeleteReserved, Settle,
       Settlement, Recorded, Reconciled, TryFails, Crash, Expire, Fold,
       Reconcile, NextDay, ledger, TypeOK
  <2>3. OwedOn(req[a].day) + req[a].est <= Limit(req[a].prio)
    BY <2>1, <2>2 DEF Insert, Within
  <2>4. MapThenSumSet(Owed, Production(req[a].day)) = OwedOn(req[a].day)
    BY ProductionFinite, OwedSum DEF OwedOn
  <2> QED
    BY <2>3, <2>4
<1> QED
  BY <1>1, <1>2, AdmissionInductive, PTL DEF Spec, AdmissionWithinLimit
=============================================================================
