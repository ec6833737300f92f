---------------------------------- MODULE Rbac ----------------------------------
(***************************************************************************)
(* Roles, permissions, stores and role assignments, the calls that create   *)
(* them, the bootstrap of the first platform administrator, and the         *)
(* question hasPermission answers for PermissionGuard (RbacService).        *)
(*                                                                         *)
(* Roles, permissions and grants are never changed or deleted, so a call    *)
(* that reads them and inserts later inserts what it would have inserted at *)
(* once; the calls are single steps, but for bootstrap, whose check goes    *)
(* stale.                                                                  *)
(***************************************************************************)
EXTENDS Naturals, FiniteSets

CONSTANTS
    Users,
    Stores,
    CustomRoles,        \* names that createRole may use
    CustomPermissions,  \* keys that createPermission may use
    Bootstraps,         \* calls of bootstrap that may overlap
    MaxAssignments      \* bound on assignments

SystemRoles == {"customer", "store-admin", "platform-admin"}
SystemPermissions ==
    {"order.create", "store.scope.manage", "rbac.catalog.write", "rbac.assignment.write"}
Roles == SystemRoles \cup CustomRoles
Permissions == SystemPermissions \cup CustomPermissions

ASSUME RbacAssumption ==
    /\ Stores \cap {"all", "none"} = {}
    /\ CustomRoles \cap SystemRoles = {}
    /\ CustomPermissions \cap SystemPermissions = {}
    /\ MaxAssignments \in Nat

VARIABLES
    users,       \* registered users
    stores,      \* stores created so far
    roles,       \* assignment_scope and global_store_access of each role
    permissions, \* scope of each permission
    grants,      \* role_permissions
    assignments, \* role_assignments; the store is "all" where it is null
    bootstraps   \* for whom each open call of bootstrap has made its check

rbacVars == <<users, stores, roles, permissions, grants, assignments, bootstraps>>

-------------------------------------------------------------------------------
Scopes == {"NONE", "GLOBAL", "STORE"}
RoleRow(scope, access) == [scope |-> scope, access |-> access]
Assignment(u, role, store) == [user |-> u, role |-> role, store |-> store]
Assignments == [user : Users, role : Roles, store : Stores \cup {"all"}]

RbacTypeOK ==
    /\ users \subseteq Users /\ stores \subseteq Stores
    /\ roles \in [Roles -> [scope : Scopes, access : BOOLEAN]]
    /\ permissions \in [Permissions -> Scopes]
    /\ grants \subseteq Roles \X Permissions
    /\ assignments \subseteq Assignments
    /\ \A a \in assignments : a.user \in users /\ a.store \in stores \cup {"all"}
    /\ bootstraps \in [Bootstraps -> Users \cup {"none"}]

\* What the migrations insert.
RbacInit ==
    /\ users = {} /\ stores = {}
    /\ roles = [r \in Roles |->
         CASE r = "platform-admin" -> RoleRow("GLOBAL", TRUE)
           [] r = "customer" -> RoleRow("GLOBAL", FALSE)
           [] r = "store-admin" -> RoleRow("STORE", FALSE)
           [] OTHER -> RoleRow("NONE", FALSE)]
    /\ permissions = [p \in Permissions |->
         CASE p = "store.scope.manage" -> "STORE"
           [] p \in SystemPermissions \ {"store.scope.manage"} -> "GLOBAL"
           [] OTHER -> "NONE"]
    /\ grants = {<<"platform-admin", p>> : p \in SystemPermissions}
                  \cup {<<"customer", "order.create">>,
                        <<"store-admin", "store.scope.manage">>}
    /\ assignments = {}
    /\ bootstraps = [b \in Bootstraps |-> "none"]

\* hasPermission: the assignments of the user whose role grants the permission,
\* case by case.  The store is "none" where the request names none.
HasPermission(u, p, store) ==
    \E a \in assignments :
        /\ a.user = u /\ <<a.role, p>> \in grants
        /\ IF permissions[p] = "GLOBAL"
           THEN roles[a.role].scope = "GLOBAL" /\ a.store = "all"
           ELSE IF roles[a.role].access /\ roles[a.role].scope = "GLOBAL"
           THEN a.store = "all"
           ELSE roles[a.role].scope = "STORE" /\ store # "none" /\ a.store = store

\* PermissionGuard: some user who may calls the endpoint, for no store.
Guarded(p) == \E u \in users : HasPermission(u, p, "none")

PlatformAdmins ==
    {u \in Users : \E a \in assignments : a.user = u /\ roles[a.role].access}

-------------------------------------------------------------------------------
\* register gives the customer role to the user it creates.
Register(u) ==
    /\ u \notin users
    /\ users' = users \cup {u}
    /\ assignments' = assignments \cup {Assignment(u, "customer", "all")}
    /\ UNCHANGED <<stores, roles, permissions, grants, bootstraps>>

CreateStore(s) ==
    /\ Guarded("store.scope.manage")
    /\ stores' = stores \cup {s}
    /\ UNCHANGED <<users, roles, permissions, grants, assignments, bootstraps>>

\* Global store access is reserved for the platform administrator.
CreateRole(r) ==
    /\ Guarded("rbac.catalog.write")
    /\ roles[r].scope = "NONE"
    /\ \E scope \in {"GLOBAL", "STORE"} :
         roles' = [roles EXCEPT ![r] = RoleRow(scope, FALSE)]
    /\ UNCHANGED <<users, stores, permissions, grants, assignments, bootstraps>>

CreatePermission(p) ==
    /\ Guarded("rbac.catalog.write")
    /\ permissions[p] = "NONE"
    /\ \E scope \in {"GLOBAL", "STORE"} :
         permissions' = [permissions EXCEPT ![p] = scope]
    /\ UNCHANGED <<users, stores, roles, grants, assignments, bootstraps>>

\* Slip: only the scope of global permissions is compared.
GlobalFitsOnly(r, p) == permissions[p] = "GLOBAL" => roles[r].scope = "GLOBAL"

\* assertPermissionCanBeAssigned.
CanBeAssigned(r, p) ==
    /\ permissions[p] = "GLOBAL" => roles[r].scope = "GLOBAL"
    /\ permissions[p] = "STORE" => roles[r].scope = "STORE" \/ roles[r].access

CreateRolePermission(r, p) ==
    /\ Guarded("rbac.catalog.write")
    /\ roles[r].scope # "NONE" /\ permissions[p] # "NONE"
    /\ CanBeAssigned(r, p)
    /\ grants' = grants \cup {<<r, p>>}
    /\ UNCHANGED <<users, stores, roles, permissions, assignments, bootstraps>>

AssignFor(u, r, store, known) ==
    /\ Guarded("rbac.assignment.write")
    /\ u \in users
    /\ \/ roles[r].scope = "STORE" /\ store \in known
       \/ roles[r].scope = "GLOBAL" /\ store = "all"
    /\ Cardinality(assignments) < MaxAssignments
    /\ assignments' = assignments \cup {Assignment(u, r, store)}
    /\ UNCHANGED <<users, stores, roles, permissions, grants, bootstraps>>

\* Slip: the store is not looked up.
AssignAnywhere(u, r, store) == AssignFor(u, r, store, Stores)

\* A store role is assigned for a store that exists, a global one for none.  An
\* assignment that exists is answered as it is, by the query or after the
\* violation of its unique index.
CreateAssignment(u, r, store) == AssignFor(u, r, store, stores)

-------------------------------------------------------------------------------
OpenFor(b, u, taken) ==
    /\ bootstraps[b] = "none"
    /\ ~taken
    /\ u \in users
    /\ bootstraps' = [bootstraps EXCEPT ![b] = u]
    /\ UNCHANGED <<users, stores, roles, permissions, grants, assignments>>

\* Slip: only the user's own assignments are looked at.
BootstrapCheckOwn(b, u) == OpenFor(b, u, u \in PlatformAdmins)

\* bootstrap looks for a platform administrator ...
BootstrapCheck(b, u) == OpenFor(b, u, PlatformAdmins # {})

\* ... and inserts one, unless the unique index refuses.
BootstrapInsert(b) ==
    /\ bootstraps[b] # "none"
    /\ assignments' =
         assignments \cup {Assignment(bootstraps[b], "platform-admin", "all")}
    /\ bootstraps' = [bootstraps EXCEPT ![b] = "none"]
    /\ UNCHANGED <<users, stores, roles, permissions, grants>>

BootstrapFails(b) ==
    /\ bootstraps[b] # "none"
    /\ bootstraps' = [bootstraps EXCEPT ![b] = "none"]
    /\ UNCHANGED <<users, stores, roles, permissions, grants, assignments>>

RbacNext ==
    \/ \E u \in Users :
         \/ Register(u)
         \/ \E r \in Roles, s \in Stores \cup {"all"} : CreateAssignment(u, r, s)
         \/ \E b \in Bootstraps : BootstrapCheck(b, u)
    \/ \E s \in Stores : CreateStore(s)
    \/ \E r \in Roles : CreateRole(r) \/ \E p \in Permissions : CreateRolePermission(r, p)
    \/ \E p \in Permissions : CreatePermission(p)
    \/ \E b \in Bootstraps : BootstrapInsert(b) \/ BootstrapFails(b)

RbacSpec == RbacInit /\ [][RbacNext]_rbacVars

-------------------------------------------------------------------------------
(* Properties.                                                             *)

\* The case analysis of hasPermission means what it should: a user has a
\* permission in a store exactly when a role that grants it was assigned to the
\* user for that store or for all of them.  It takes the scopes that
\* createRolePermission and createAssignment compare.
PermissionIsCoverage ==
    \A u \in users, p \in Permissions, store \in Stores \cup {"none"} :
        HasPermission(u, p, store)
          <=> \E a \in assignments : /\ a.user = u /\ <<a.role, p>> \in grants
                                     /\ a.store \in {"all", store}

\* Once there is a platform administrator and no call of bootstrap is past its
\* check, bootstrap is closed for good (its query over all administrators).
BootstrapClosed == \A b \in Bootstraps : bootstraps[b] = "none"
BootstrapCloses ==
    [][PlatformAdmins # {} /\ BootstrapClosed
         => PlatformAdmins' # {} /\ BootstrapClosed']_rbacVars
=============================================================================
