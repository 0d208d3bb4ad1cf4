SPECIFICATION FairSpec
CONSTANTS
    first = first
    second = second
    third = third
    Turns <- MCTurns
    PoolSize = 2
    Tokens <- MCTokens
    Room <- MCRoom
INVARIANT RequestIsNewest
INVARIANT OnlyOverlapsDisplace
INVARIANT RequestIsStored
INVARIANT ReplyFollowsQuestion
PROPERTY TurnsEnd
