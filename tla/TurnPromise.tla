---------------------------- MODULE TurnPromise ----------------------------
(***************************************************************************)
(* What a chat turn promises its user, without providers, retries, events  *)
(* or transactions: text of a single writer appears piece by piece until   *)
(* the turn is over; at most one reply is kept, it extends what was heard, *)
(* nothing is heard after it, and a reply kept by a turn that was already  *)
(* over is marked interrupted.                                             *)
(***************************************************************************)
EXTENDS Integers, Sequences

CONSTANTS Writers,   \* who can write a reply
          MaxPieces  \* bound: pieces of text in a reply

VARIABLES heard,  \* the pieces the user has been shown, each by its writer
          kept,   \* the replies stored: none or one
          over    \* the response has ended

promise == <<heard, kept, over>>

Init == heard = <<>> /\ kept = <<>> /\ over = FALSE

Written(w, n) == [i \in 1..n |-> w]

Hear(w) ==
    /\ ~over /\ kept = <<>>
    /\ heard = Written(w, Len(heard))
    /\ heard' = Append(heard, w)
    /\ UNCHANGED <<kept, over>>

Keep(w, n, status) ==
    /\ kept = <<>>
    /\ heard = Written(w, Len(heard)) /\ Len(heard) <= n
    /\ over => status = "interrupted"
    /\ kept' = <<[text |-> Written(w, n), status |-> status]>>
    /\ over' = TRUE
    /\ heard' = heard

End == ~over /\ over' = TRUE /\ UNCHANGED <<heard, kept>>

Next ==
    \/ \E w \in Writers : Hear(w)
    \/ \E w \in Writers, n \in 1..MaxPieces, status \in {"complete", "interrupted"} :
          Keep(w, n, status)
    \/ End

Spec == Init /\ [][Next]_promise
=============================================================================
