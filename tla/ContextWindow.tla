--------------------------- MODULE ContextWindow ---------------------------
(***************************************************************************)
(* trim_to_context_window: the newest messages of a conversation that fit  *)
(* the model's context window, one iteration of the loop per step.         *)
(*                                                                         *)
(* A message is the length of its text in characters (the application      *)
(* stores no other kind of block) and is known by its position in the      *)
(* history; kept holds positions.                                          *)
(***************************************************************************)
EXTENDS Trimming

CONSTANTS Histories,      \* the conversations considered
          Windows,        \* ModelConfig.context_window
          Reservations    \* output tokens plus the grounding prompt's estimate

ASSUME WindowAssumption ==
    /\ Histories \subseteq Seq(Nat)
    /\ Windows \subseteq Nat
    /\ Reservations \subseteq Nat

VARIABLES history, budget, pos, kept, used, loop

trim_vars == <<history, budget, pos, kept, used, loop>>

AtLeastOne(n) == IF n < 1 THEN 1 ELSE n

\* Four characters to a token, and never a free message.
estimate_tokens(chars) == AtLeastOne(chars \div 4)

\* int((window - reserved) * 0.9): for the integers of this range the float
\* product never falls below the exact one.  (Each definition named X_Something
\* is X with a plausible bug: the properties are tried against it.)
Budget(window, reserved) == AtLeastOne(((window - reserved) * 9) \div 10)

Cost(i) == estimate_tokens(history[i])

TrimInit ==
    /\ history \in Histories
    /\ budget \in {Budget(w, r) : w \in Windows, r \in Reservations}
    /\ pos = Len(history)
    /\ kept = <<>>
    /\ used = 0
    /\ loop = "scan"

\* The loop ends at the first message that does not fit, unless it is the
\* newest.
Fits_BeforeAdding(i) == kept = <<>> \/ used <= budget
Fits_Strictly(i) == kept = <<>> \/ used + Cost(i) < budget
Fits(i) == kept = <<>> \/ used + Cost(i) <= budget

Keep ==
    /\ loop = "scan" /\ pos > 0 /\ Fits(pos)
    /\ kept' = Append(kept, pos)
    /\ used' = used + Cost(pos)
    /\ pos' = pos - 1
    /\ UNCHANGED <<history, budget, loop>>

\* kept.reverse()
Reversed_Not(s) == s
Reversed(s) == [i \in 1..Len(s) |-> s[Len(s) + 1 - i]]

Return ==
    /\ loop = "scan"
    /\ pos > 0 => ~Fits(pos)
    /\ kept' = Reversed(kept)
    /\ loop' = "returned"
    /\ UNCHANGED <<history, budget, pos, used>>

Trimmed == loop = "returned" /\ UNCHANGED trim_vars

TrimNext == Keep \/ Return \/ Trimmed

TrimSpec == TrimInit /\ [][TrimNext]_trim_vars

-----------------------------------------------------------------------------
TrimTypeOK ==
    /\ history \in Seq(Nat)
    /\ budget \in Nat \ {0}
    /\ pos \in 0..Len(history)
    /\ kept \in Seq(1..Len(history))
    /\ used \in Nat
    /\ loop \in {"scan", "returned"}

Suffix(n) == [i \in 1..n |-> Len(history) - n + i]

\* What is sent is the end of the conversation, without a hole and in its
\* order, and it is never empty unless the conversation is.
NewestInOrder ==
    loop = "returned" =>
        /\ kept = Suffix(Len(history) - pos)
        /\ history # <<>> => Len(kept) > 0 /\ kept[Len(kept)] = Len(history)

\* What is sent fits the budget unless it is the newest message alone, and the
\* first message left out would not have fitted.
KeptFits ==
    loop = "returned" =>
        /\ Len(kept) > 1 => used <= budget
        /\ pos > 0 => used + Cost(pos) > budget

\* The loop computes, for every history, window and reservation, what Trimming
\* says it does: the longest end of the conversation that fits, but at least
\* one message.  (Conversation relies on it.)
Costs == [i \in 1..Len(history) |-> Cost(i)]

MatchesReference ==
    loop = "returned" =>
        \E n \in LongestFit(Costs, budget) :
            kept = Suffix(n) /\ used = TokensOfLast(Costs)[n]
=============================================================================
