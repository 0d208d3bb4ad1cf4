SPECIFICATION FairSpec
CONSTANTS
    a = a
    b = b
    pa = pa
    pb = pb
    pc = pc
    pd = pd
    c1 = c1
    c2 = c2
    Unknown = Unknown
    Null = Null
    Blank = Blank
    NoConn = NoConn
    Tenants <- MCTenants
    Parents <- MCParents
    Existing <- MCExisting
    MaxRequests = 2
    Inputs <- MCInputs
    Conns <- MCConns
CHECK_DEADLOCK FALSE
INVARIANT FailsClosed
INVARIANT ReadsStayHome
INVARIANT ReferencesStayHome
PROPERTY OwnRowsAreFound
PROPERTY RequestsEnd
