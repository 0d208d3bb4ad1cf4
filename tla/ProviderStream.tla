--------------------------- MODULE ProviderStream ---------------------------
(***************************************************************************)
(* What every provider's stream has in common, and all that a chat turn    *)
(* relies on: text and tool calls first, then what the reply cost, then    *)
(* that it is done.  It may fail at any point, and after that it is        *)
(* silent.  These are the steps ChatTurn lets a provider take.             *)
(***************************************************************************)
EXTENDS Integers, Sequences

VARIABLE sent  \* the kinds of the events sent so far

Only(kinds) == \A k \in 1..Len(sent) : sent[k] \in kinds

Init == sent = <<>>

Show ==
    /\ Only({"content"})
    /\ \/ sent' = sent \o <<"content">>
       \/ sent' = sent \o <<"content", "content">>

Meter == Only({"content", "usage"}) /\ sent' = sent \o <<"usage">>

Close ==
    /\ Only({"content", "usage"})
    /\ \/ sent' = sent \o <<"done">>
       \/ sent' = sent \o <<"usage", "done">>

Fail == Only({"content", "usage", "done"}) /\ sent' = sent \o <<"error">>

Next == Show \/ Meter \/ Close \/ Fail

Spec == Init /\ [][Next]_sent
=============================================================================
