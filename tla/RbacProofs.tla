------------------------------- MODULE RbacProofs -------------------------------
(***************************************************************************)
(* Proofs about Rbac for any users, stores, roles, permissions and          *)
(* overlapping bootstraps.                                                  *)
(*                                                                         *)
(* hasPermission looks at the scopes of the permission and of the role, the *)
(* specification of it (PermissionIsCoverage) at the assigned store alone.  *)
(* They agree because every assignment fits the scope of its role and every *)
(* grant fits both scopes (Fitting), and because a scope never changes once *)
(* something refers to it.                                                  *)
(***************************************************************************)
EXTENDS Rbac, TLAPS

\* The store of an assignment is the one its role calls for, and a granted
\* permission is one its role can carry.
Fitting ==
    /\ \A a \in assignments :
         \/ roles[a.role].scope = "GLOBAL" /\ a.store = "all"
         \/ roles[a.role].scope = "STORE" /\ a.store \in Stores
    /\ \A g \in grants : /\ roles[g[1]].scope # "NONE" /\ permissions[g[2]] # "NONE"
                         /\ CanBeAssigned(g[1], g[2])

\* The roles that register and bootstrap assign are as the migrations left them.
SystemRolesKept ==
    /\ roles["customer"].scope = "GLOBAL"
    /\ roles["platform-admin"].scope = "GLOBAL"
    /\ roles["platform-admin"].access

\* A bootstrap is for a user who exists.
BootstrapsForUsers == \A b \in Bootstraps : bootstraps[b] \in users \cup {"none"}

RbacInv == RbacTypeOK /\ Fitting /\ SystemRolesKept /\ BootstrapsForUsers

-------------------------------------------------------------------------------
LEMMA RbacInitInv == RbacInit => RbacInv
<1> SUFFICES ASSUME RbacInit PROVE RbacInv
  OBVIOUS
<1>1. roles \in [Roles -> [scope : Scopes, access : BOOLEAN]]
  BY DEF RbacInit, RoleRow, Scopes
<1>2. permissions \in [Permissions -> Scopes]
  BY DEF RbacInit, Scopes
<1>3. grants \subseteq Roles \X Permissions
  BY DEF RbacInit, Roles, Permissions, SystemRoles, SystemPermissions
<1>4. SystemRolesKept
  BY DEF RbacInit, SystemRolesKept, RoleRow, Roles, SystemRoles
<1>5. /\ roles["store-admin"].scope = "STORE"
      /\ permissions["store.scope.manage"] = "STORE"
      /\ \A p \in SystemPermissions \ {"store.scope.manage"} :
           permissions[p] = "GLOBAL"
  <2>1. roles["store-admin"].scope = "STORE"
    BY DEF RbacInit, RoleRow, Roles, SystemRoles
  <2>2. \A p \in SystemPermissions : p \in Permissions
    BY DEF Permissions
  <2>3. "store.scope.manage" \in SystemPermissions
    BY DEF SystemPermissions
  <2>4. permissions["store.scope.manage"] = "STORE"
    BY <2>2, <2>3 DEF RbacInit
  <2>5. ASSUME NEW p \in SystemPermissions, p # "store.scope.manage"
        PROVE  permissions[p] = "GLOBAL"
    BY <2>2, <2>5 DEF RbacInit
  <2> QED BY <2>1, <2>4, <2>5
<1>6. ASSUME NEW g \in grants
      PROVE  /\ roles[g[1]].scope # "NONE" /\ permissions[g[2]] # "NONE"
             /\ CanBeAssigned(g[1], g[2])
  <2>1. CASE g \in {<<"platform-admin", p>> : p \in SystemPermissions}
    BY <1>4, <1>5, <2>1 DEF SystemRolesKept, CanBeAssigned
  <2>2. CASE g = <<"customer", "order.create">>
    BY <1>4, <1>5, <2>2 DEF SystemRolesKept, CanBeAssigned, SystemPermissions
  <2>3. CASE g = <<"store-admin", "store.scope.manage">>
    BY <1>5, <2>3 DEF CanBeAssigned
  <2> QED BY <2>1, <2>2, <2>3 DEF RbacInit
<1> QED
  BY <1>1, <1>2, <1>3, <1>4, <1>6
  DEF RbacInit, RbacInv, RbacTypeOK, Fitting, BootstrapsForUsers

\* A scope is set once: what refers to a role or a permission sees it for good.
LEMMA ScopesKept ==
    ASSUME RbacInv, [RbacNext]_rbacVars
    PROVE  /\ \A r \in Roles : roles[r].scope # "NONE" => roles'[r] = roles[r]
           /\ \A p \in Permissions :
                permissions[p] # "NONE" => permissions'[p] = permissions[p]
BY DEF RbacInv, RbacTypeOK, RbacNext, rbacVars, Register, CreateStore, CreateRole,
       CreatePermission, CreateRolePermission, CreateAssignment, AssignFor,
       BootstrapCheck, OpenFor, BootstrapInsert, BootstrapFails

LEMMA RbacNextType == RbacInv /\ [RbacNext]_rbacVars => RbacTypeOK'
<1> SUFFICES ASSUME RbacInv, [RbacNext]_rbacVars PROVE RbacTypeOK'
  OBVIOUS
<1> USE DEF RbacInv, RbacTypeOK
<1>1. ASSUME NEW u \in Users, Register(u) PROVE RbacTypeOK'
  BY <1>1 DEF Register, Assignment, Assignments, Roles, SystemRoles
<1>2. ASSUME NEW s \in Stores, CreateStore(s) PROVE RbacTypeOK'
  BY <1>2 DEF CreateStore
<1>3. ASSUME NEW r \in Roles, CreateRole(r) PROVE RbacTypeOK'
  BY <1>3 DEF CreateRole, RoleRow, Scopes
<1>4. ASSUME NEW p \in Permissions, CreatePermission(p) PROVE RbacTypeOK'
  BY <1>4 DEF CreatePermission, Scopes
<1>5. ASSUME NEW r \in Roles, NEW p \in Permissions, CreateRolePermission(r, p)
      PROVE  RbacTypeOK'
  BY <1>5 DEF CreateRolePermission
<1>6. ASSUME NEW u \in Users, NEW r \in Roles, NEW s \in Stores \cup {"all"},
             CreateAssignment(u, r, s)
      PROVE  RbacTypeOK'
  BY <1>6 DEF CreateAssignment, AssignFor, Assignment, Assignments
<1>7. ASSUME NEW u \in Users, NEW b \in Bootstraps, BootstrapCheck(b, u)
      PROVE  RbacTypeOK'
  BY <1>7 DEF BootstrapCheck, OpenFor
<1>8. ASSUME NEW b \in Bootstraps, BootstrapInsert(b) PROVE RbacTypeOK'
  BY <1>8 DEF BootstrapInsert, BootstrapsForUsers, Assignment, Assignments, Roles,
              SystemRoles
<1>9. ASSUME NEW b \in Bootstraps, BootstrapFails(b) PROVE RbacTypeOK'
  BY <1>9 DEF BootstrapFails
<1>10. CASE UNCHANGED rbacVars
  BY <1>10 DEF rbacVars
<1> QED
  BY <1>1, <1>2, <1>3, <1>4, <1>5, <1>6, <1>7, <1>8, <1>9, <1>10 DEF RbacNext

LEMMA RbacNextFitting == RbacInv /\ [RbacNext]_rbacVars => Fitting'
<1> SUFFICES ASSUME RbacInv, [RbacNext]_rbacVars PROVE Fitting'
  OBVIOUS
<1> DEFINE Fits(a) == \/ roles[a.role].scope = "GLOBAL" /\ a.store = "all"
                      \/ roles[a.role].scope = "STORE" /\ a.store \in Stores
           Carries(g) == /\ roles[g[1]].scope # "NONE" /\ permissions[g[2]] # "NONE"
                         /\ CanBeAssigned(g[1], g[2])
<1>1. \A a \in assignments : Fits(a) /\ Fits(a)'
  <2> SUFFICES ASSUME NEW a \in assignments PROVE Fits(a) /\ Fits(a)'
    OBVIOUS
  <2>1. a.role \in Roles
    BY DEF RbacInv, RbacTypeOK, Assignments
  <2> QED BY <2>1, ScopesKept DEF RbacInv, Fitting
<1>2. \A g \in grants : Carries(g)'
  <2> SUFFICES ASSUME NEW g \in grants PROVE Carries(g)'
    OBVIOUS
  <2>1. g[1] \in Roles /\ g[2] \in Permissions
    BY DEF RbacInv, RbacTypeOK
  <2>2. Carries(g)
    BY DEF RbacInv, Fitting
  <2>3. roles'[g[1]] = roles[g[1]] /\ permissions'[g[2]] = permissions[g[2]]
    BY <2>1, <2>2, ScopesKept
  <2> QED BY <2>2, <2>3 DEF CanBeAssigned
<1>3. ASSUME NEW a \in assignments' \ assignments PROVE Fits(a)'
  <2>1. ASSUME NEW u \in Users, Register(u) PROVE Fits(a)'
    BY <1>3, <2>1 DEF Register, Assignment, RbacInv, SystemRolesKept
  <2>2. ASSUME NEW u \in Users, NEW r \in Roles, NEW s \in Stores \cup {"all"},
               CreateAssignment(u, r, s)
        PROVE  Fits(a)'
    BY <1>3, <2>2 DEF CreateAssignment, AssignFor, Assignment, RbacInv, RbacTypeOK
  <2>3. ASSUME NEW b \in Bootstraps, BootstrapInsert(b) PROVE Fits(a)'
    BY <1>3, <2>3 DEF BootstrapInsert, Assignment, RbacInv, SystemRolesKept
  <2> QED
    BY <1>3, <2>1, <2>2, <2>3
    DEF RbacNext, rbacVars, CreateStore, CreateRole, CreatePermission,
        CreateRolePermission, BootstrapCheck, OpenFor, BootstrapFails
<1>4. ASSUME NEW g \in grants' \ grants PROVE Carries(g)'
  <2>1. PICK r \in Roles, p \in Permissions : CreateRolePermission(r, p)
    BY <1>4 DEF RbacNext, rbacVars, Register, CreateStore, CreateRole,
                CreatePermission, CreateAssignment, AssignFor, BootstrapCheck, OpenFor,
                BootstrapInsert, BootstrapFails
  <2> QED BY <1>4, <2>1 DEF CreateRolePermission, CanBeAssigned
<1> QED BY <1>1, <1>2, <1>3, <1>4 DEF Fitting

LEMMA RbacNextInv == RbacInv /\ [RbacNext]_rbacVars => RbacInv'
<1> SUFFICES ASSUME RbacInv, [RbacNext]_rbacVars PROVE RbacInv'
  OBVIOUS
<1>1. SystemRolesKept'
  BY ScopesKept DEF RbacInv, SystemRolesKept, Roles, SystemRoles
<1>2. BootstrapsForUsers'
  BY DEF RbacInv, RbacTypeOK, BootstrapsForUsers, RbacNext, rbacVars, Register,
         CreateStore, CreateRole, CreatePermission, CreateRolePermission,
         CreateAssignment, AssignFor, BootstrapCheck, OpenFor, BootstrapInsert,
         BootstrapFails
<1> QED BY <1>1, <1>2, RbacNextType, RbacNextFitting DEF RbacInv

-------------------------------------------------------------------------------
(* Theorems.                                                               *)

\* The rows keep their types and their foreign keys.
THEOREM RbacTyped == RbacSpec => []RbacTypeOK
<1>1. RbacInv => RbacTypeOK BY DEF RbacInv
<1> QED BY RbacInitInv, RbacNextInv, <1>1, PTL DEF RbacSpec

\* The case analysis of hasPermission grants a permission exactly where a role
\* with it was assigned.
LEMMA FittingCovers == RbacInv => PermissionIsCoverage
<1> SUFFICES ASSUME RbacInv, NEW u \in users, NEW p \in Permissions,
                    NEW store \in Stores \cup {"none"}
             PROVE  HasPermission(u, p, store)
                      <=> \E a \in assignments :
                            /\ a.user = u /\ <<a.role, p>> \in grants
                            /\ a.store \in {"all", store}
  BY DEF PermissionIsCoverage
<1>1. ASSUME HasPermission(u, p, store)
      PROVE  \E a \in assignments : /\ a.user = u /\ <<a.role, p>> \in grants
                                    /\ a.store \in {"all", store}
  BY <1>1 DEF HasPermission
<1>2. ASSUME NEW a \in assignments, a.user = u, <<a.role, p>> \in grants,
             a.store \in {"all", store}
      PROVE  HasPermission(u, p, store)
  <2>1. /\ roles[a.role].scope # "NONE" /\ permissions[p] # "NONE"
        /\ CanBeAssigned(a.role, p)
    BY <1>2 DEF RbacInv, Fitting
  <2>2. \/ roles[a.role].scope = "GLOBAL" /\ a.store = "all"
        \/ roles[a.role].scope = "STORE" /\ a.store \in Stores
    BY <1>2 DEF RbacInv, Fitting
  <2>3. CASE permissions[p] = "GLOBAL"
    BY <1>2, <2>1, <2>2, <2>3 DEF CanBeAssigned, HasPermission
  <2>4. CASE permissions[p] = "STORE" /\ roles[a.role].scope = "GLOBAL"
    BY <1>2, <2>1, <2>2, <2>4 DEF CanBeAssigned, HasPermission
  <2>5. CASE permissions[p] = "STORE" /\ roles[a.role].scope = "STORE"
    <3>1. a.store \in Stores /\ a.store = store /\ store # "none"
      BY <1>2, <2>2, <2>5, RbacAssumption
    <3> QED BY <1>2, <2>5, <3>1 DEF HasPermission
  <2>6. permissions[p] \in Scopes
    BY DEF RbacInv, RbacTypeOK
  <2> QED BY <2>1, <2>2, <2>3, <2>4, <2>5, <2>6 DEF Scopes
<1> QED BY <1>1, <1>2

\* hasPermission grants a permission exactly where a role with it was assigned.
THEOREM CoverageAlways == RbacSpec => []PermissionIsCoverage
BY RbacInitInv, RbacNextInv, FittingCovers, PTL DEF RbacSpec

\* bootstrap never opens again.
THEOREM BootstrapStaysClosed == RbacSpec => BootstrapCloses
<1>1. ASSUME RbacInv, [RbacNext]_rbacVars, PlatformAdmins # {}, BootstrapClosed
      PROVE  PlatformAdmins' # {} /\ BootstrapClosed'
  <2>1. PICK u \in Users : u \in PlatformAdmins
    BY <1>1 DEF PlatformAdmins
  <2>2. PICK a \in assignments : a.user = u /\ roles[a.role].access
    BY <2>1 DEF PlatformAdmins
  <2>3. a.role \in Roles /\ roles'[a.role] = roles[a.role]
    BY <1>1, ScopesKept DEF RbacInv, RbacTypeOK, Assignments, Fitting
  <2>4. assignments \subseteq assignments'
    BY <1>1 DEF RbacNext, rbacVars, Register, CreateStore, CreateRole,
                CreatePermission, CreateRolePermission, CreateAssignment, AssignFor,
                BootstrapCheck, OpenFor, BootstrapInsert, BootstrapFails
  <2>5. u \in PlatformAdmins'
    BY <2>2, <2>3, <2>4 DEF PlatformAdmins
  <2>6. BootstrapClosed'
    BY <1>1 DEF BootstrapClosed, RbacNext, rbacVars, Register, CreateStore, CreateRole,
                CreatePermission, CreateRolePermission, CreateAssignment, AssignFor,
                BootstrapCheck, OpenFor, BootstrapInsert, BootstrapFails
  <2> QED BY <2>5, <2>6
<1>2. RbacInv /\ [RbacNext]_rbacVars
        => [PlatformAdmins # {} /\ BootstrapClosed
              => PlatformAdmins' # {} /\ BootstrapClosed']_rbacVars
  BY <1>1
<1> QED BY RbacInitInv, RbacNextInv, <1>2, PTL DEF RbacSpec, BootstrapCloses
=============================================================================
