------------------------------- MODULE MCPlatform -------------------------------
(* Platform with small sets.  The parts share no state, so their sets may   *)
(* share model values, which keeps the group of symmetries small; no        *)
(* temporal property is checked that symmetry would disturb.                *)
EXTENDS Platform, TLC

CONSTANTS x1, x2, x3, y1, y2, z1, z2, courier, refund

Xs == {x1, x2}
ThreeXs == {x1, x2, x3}
Ys == {y1, y2}
Zs == {z1, z2}
OneRole == {courier}
OnePermission == {refund}

Symmetry == Permutations(Xs) \cup Permutations(Ys) \cup Permutations(Zs)

\* One beginning for the parts that do not depend on it.  Two overlapping
\* catalog requests of any kind, three that change the price or place an order;
\* once somebody browses, two requests or one and an outage, which leave the
\* product row alone, at one time.
Bounded ==
    /\ focus # "catalog" => product.lifecycle = "NONE"
    /\ requested > 2 =>
         \A r \in CatalogRequests : requests[r].kind \in {"price", "order"}
    /\ browses = 0 => outages = 0
    /\ browses > 0 =>
         /\ product.lifecycle = "PUBLISHED"
         /\ now = 0 /\ requested + outages <= 2
         /\ \A r \in CatalogRequests :
              \/ requests[r].phase \in {"idle", "committed"}
              \/ requests[r].kind \in {"price", "operations"}
=============================================================================
