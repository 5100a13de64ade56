--------------------------- MODULE MCBudgetAlerts ---------------------------
(* BudgetAlerts on a small instance, with the code's thresholds: a decision *)
(* kind and an exempt kind, each with a cap group of its own.               *)
EXTENDS BudgetAlerts, TLC

CONSTANTS match, card

TwoKinds == {match, card}
CardOnly == {card}
TwoGroups == [k \in TwoKinds |-> k]
TwoCaps == [g \in TwoKinds |-> IF g = match THEN 2 ELSE 1]
Percent == [p80At |-> 80, p100At |-> 100]
Keys == DOMAIN Percent
Symmetric == Permutations(Attempts)
=============================================================================
