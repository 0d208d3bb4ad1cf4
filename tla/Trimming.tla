------------------------------ MODULE Trimming ------------------------------
(***************************************************************************)
(* What trim_to_context_window computes, without its loop: of a history    *)
(* given by the estimated tokens of its messages, the length of the        *)
(* longest end of it that fits a budget.  ContextWindow models the loop    *)
(* and is checked against this; Conversation uses it for the history of a  *)
(* request.                                                                *)
(***************************************************************************)
EXTENDS Integers, Sequences

\* What the last n messages cost, for every n.
TokensOfLast(costs) ==
    LET sum[n \in 0..Len(costs)] ==
            IF n = 0 THEN 0 ELSE sum[n - 1] + costs[Len(costs) + 1 - n]
    IN  sum

\* Going back from the newest message, the loop stops at the first that does
\* not fit, but never before one is kept.  (Each definition named X_Something
\* is X with a plausible bug: the properties are tried against it.)
LongestFit_OverByOne(costs, budget) ==
    {n \in 1..Len(costs) :
        /\ n <= 1 \/ TokensOfLast(costs)[n - 1] <= budget
        /\ \A m \in (n + 1)..Len(costs) : TokensOfLast(costs)[m - 1] > budget}
LongestFit(costs, budget) ==
    {n \in 0..Len(costs) :
        /\ n <= 1 \/ TokensOfLast(costs)[n] <= budget
        /\ \A m \in (n + 1)..Len(costs) : m > 1 /\ TokensOfLast(costs)[m] > budget}

Newest(messages, n) == SubSeq(messages, Len(messages) - n + 1, Len(messages))
=============================================================================
