--------------------------- MODULE MCConversation ---------------------------
(***************************************************************************)
(* Three turns of one conversation over a pool of two connections.  The    *)
(* first turn's model has room for everything, the second's for two short  *)
(* messages or a long one, the third's for one message, whatever its size. *)
(***************************************************************************)
EXTENDS Conversation
CONSTANTS first, second, third
MCTurns == {first, second, third}
MCTokens ==
    [t \in MCTurns |-> [role \in {"user", "assistant"} |->
        IF t = first /\ role = "assistant" THEN 2 ELSE 1]]
MCRoom == [t \in MCTurns |-> CASE t = first -> 7 [] t = second -> 2 [] t = third -> 1]
=============================================================================
