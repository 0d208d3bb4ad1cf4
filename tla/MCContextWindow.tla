--------------------------- MODULE MCContextWindow ---------------------------
(***************************************************************************)
(* Every conversation of up to four messages of 0 to 4 tokens (an empty    *)
(* message still costs one), and budgets from the floor of 1, where the    *)
(* reservation exceeds the window, to more than every conversation.        *)
(***************************************************************************)
EXTENDS ContextWindow
MCHistories == UNION {[1..n -> {0, 7, 8, 12, 16}] : n \in 0..4}
MCWindows == {4, 10, 20}
MCReservations == {0, 1, 5}
=============================================================================
