--------------------------- MODULE MCSpendLedger ---------------------------
(* SpendLedger on a small instance: one production kind.                   *)
EXTENDS SpendLedger

CONSTANT match

OneKind == {match}
Nothing == {}
OneGroup == [k \in OneKind |-> k]
OneCap == [g \in OneKind |-> 2]
=============================================================================
