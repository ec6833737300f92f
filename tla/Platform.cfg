\* The catalog and its menu, the sessions of a user, the roles.
SPECIFICATION Spec
CONSTANTS
    x1 = x1
    x2 = x2
    x3 = x3
    y1 = y1
    y2 = y2
    z1 = z1
    z2 = z2
    courier = courier
    refund = refund
    CatalogRequests <- Xs
    CatalogKinds <- AllKinds
    MaxRequests = 3
    MaxTime = 1
    Replicas <- Ys
    Browsers <- Zs
    MaxBrowses = 2
    MaxOutages = 1
    Calls <- ThreeXs
    MaxSessions = 4
    MaxCalls = 5
    Users <- Xs
    Stores <- Ys
    CustomRoles <- OneRole
    CustomPermissions <- OnePermission
    Bootstraps <- Zs
    MaxAssignments = 4
SYMMETRY Symmetry
CONSTRAINT Bounded
INVARIANTS
    TypeOK
    NewestIsQuoted
    BrowseFresh
    OneActivePerFamily
    ReusedFamilyDead
    PermissionIsCoverage
PROPERTIES
    EndsOnce
    BootstrapCloses
\* The model rests when its bounds are used up.
CHECK_DEADLOCK FALSE
