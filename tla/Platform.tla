-------------------------------- MODULE Platform --------------------------------
(***************************************************************************)
(* The parts under the order workflow: the catalog of a store with the menu *)
(* its customers browse, the refresh sessions of a user, and the roles and  *)
(* permissions.  They share no state, so what holds of each while the       *)
(* others rest holds of all of them together.  focus names the part that    *)
(* moves: the states of the three are added up and never multiplied.        *)
(***************************************************************************)
EXTENDS CatalogBrowse, Sessions, Rbac

VARIABLE focus

vars == <<browseVars, sessionVars, rbacVars, focus>>

TypeOK ==
    /\ BrowseTypeOK
    /\ SessionsTypeOK
    /\ RbacTypeOK
    /\ focus \in {"catalog", "sessions", "rbac"}

Init ==
    /\ BrowseInit /\ SessionsInit /\ RbacInit
    /\ focus \in {"catalog", "sessions", "rbac"}

Next ==
    \/ focus = "catalog" /\ BrowseNext /\ UNCHANGED <<sessionVars, rbacVars, focus>>
    \/ focus = "sessions" /\ SessionsNext /\ UNCHANGED <<browseVars, rbacVars, focus>>
    \/ focus = "rbac" /\ RbacNext /\ UNCHANGED <<browseVars, sessionVars, focus>>

Spec == Init /\ [][Next]_vars
=============================================================================
