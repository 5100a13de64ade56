---------------------------- MODULE MCMatchQueue ----------------------------
(* Small instances of MatchQueue for TLC. *)
EXTENDS MatchQueue, TLC

SymmetricPairs == Permutations(Cards) \cup Permutations(Workers)

(* The workers among themselves: every pair is demanded and queued for an    *)
(* enriched article, and no producer adds to them: a state Spec reaches.  A  *)
(* behaviour has a change of configuration or a worker's fault, not both     *)
(* (named bound: it keeps two workers within reach).                         *)
QueuedInit ==
  /\ rev = 1
  /\ stage = "enriched"
  /\ cfg = 1
  /\ demand = Cards
  /\ row = [c \in Cards |-> NewRow(1)]
  /\ ans = [c \in Cards |-> None]
  /\ intent = TRUE
  /\ active = None
  /\ job = [w \in Workers |-> Idle]
  /\ want = {}
  /\ plan = None
  /\ faults = 0

WorkerNext ==
  \/ Reset
  \/ ChangeConfig /\ faults = 0
  \/ Recover
  \/ \E c \in Cards : LoseDemand(c) \/ CacheFill(c) \/ Ripen(c) \/ Lapse(c)
  \/ \E w \in Workers : Step(w) \/ (Fault(w) /\ cfg = 1) \/ Expire(w)

WorkerSpec == QueuedInit /\ [][WorkerNext]_vars
=============================================================================
