SPECIFICATION FairSpec
CONSTANTS
    ann = ann
    bob = bob
    a1 = a1
    a2 = a2
    b1 = b1
    NoConv = NoConv
    Default = ann
    TenantIds <- MCTenantIds
    Convs <- MCConvs
    TenantOf <- MCTenantOf
    Old <- MCOld
    MaxSends = 2
    MaxEvents <- MCMaxEvents
    MaxWritten = 3
    MaxRequests = 2
CHECK_DEADLOCK FALSE
INVARIANT TypeOK
INVARIANT EventsAreSent
INVARIANT NothingRunsUnseen
INVARIANT ShownIsSelected
INVARIANT CompleteIsWhole
INVARIANT NoCursorIsLeft
PROPERTY GenerationEnds
