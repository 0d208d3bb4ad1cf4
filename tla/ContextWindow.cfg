SPECIFICATION TrimSpec
CONSTANTS
    Histories <- MCHistories
    Windows <- MCWindows
    Reservations <- MCReservations
INVARIANT MatchesReference
