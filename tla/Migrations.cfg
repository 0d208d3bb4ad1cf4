SPECIFICATION FairSpec
CONSTANTS
    p1 = p1
    p2 = p2
    p3 = p3
    tenant_a = tenant_a
    tenant_b = tenant_b
    Procs <- MCProcs
    DEV_TENANTS <- MCDevTenants
    N = 3
    Development = TRUE
    MaxExits = 2
CHECK_DEADLOCK FALSE
INVARIANT RecordedIffApplied
INVARIANT ServingIsComplete
PROPERTY FailsOnlyWhenRaced
PROPERTY StartupSettles
