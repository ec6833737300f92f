------------------------------ MODULE MCSettlement ------------------------------
(* Settlement on small instances: two interchangeable replicas.             *)
EXTENDS Settlement

CONSTANTS p1, p2

TwoReplicas == {p1, p2}
TwoRefunds == {"refund1", "refund2"}
SmallAmounts == [r \in Refunds |-> IF r = "refund1" THEN 2 ELSE 5]
AllFates == {"OrderCompleted", "OrderCancelled"}
BothRuntimes == {"dbos", "local"}
Debit == -1
=============================================================================
