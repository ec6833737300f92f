------------------------------ MODULE MCDelivery ------------------------------
(* Delivery on small instances: two interchangeable replicas.               *)
EXTENDS Delivery, TLC

CONSTANTS p1, p2, t1, t2

TwoReplicas == {p1, p2}
OneTag == {t1}
TwoTags == {t1, t2}
AllAnswers == Outcomes
BothRuntimes == {"dbos", "local"}
ReplicaSymmetry == Permutations(Replicas)
=============================================================================
