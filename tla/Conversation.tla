---------------------------- MODULE Conversation ----------------------------
(***************************************************************************)
(* The turns of one conversation and the two short transactions of each:   *)
(* prepare_turn, run by the route inside tenant_connection, stores the     *)
(* user's message, reads the history and trims it to the context window;   *)
(* then, after a generation that holds no connection, the reply is stored. *)
(*                                                                         *)
(* Turns overlap: Stop lets the next turn begin while the shielded write   *)
(* of the previous reply is still under way, and a conversation can be     *)
(* open in two tabs.  PostgreSQL is modelled as the code relies on it:     *)
(*   - READ COMMITTED: a query sees what is committed when it runs, and    *)
(*     its own transaction's rows;                                         *)
(*   - now(), the default of created_at, is when the transaction began;    *)
(*   - an UPDATE locks its row (here: the conversation's) until the end of *)
(*     the transaction.                                                    *)
(* ChatTurn models what happens between the two transactions.              *)
(***************************************************************************)
EXTENDS Integers, FiniteSets, Sequences, Trimming

CONSTANTS Turns,     \* the messages users send in this conversation
          PoolSize,  \* create_pool's max_size
          Tokens,    \* estimate_tokens of a turn's question and of its reply
          Room       \* the budget of a turn: of its model's window and its evidence

ASSUME ConversationAssumption ==
    /\ IsFiniteSet(Turns)
    /\ PoolSize \in Nat \ {0}
    /\ Tokens \in [Turns -> [{"user", "assistant"} -> Nat \ {0}]]
    /\ Room \in [Turns -> Nat \ {0}]

VARIABLES
    pc,        \* where each turn is
    began,     \* now() of each turn's current transaction
    clock,     \* the database's clock
    pending,   \* the rows its open transaction has inserted
    messages,  \* the committed rows
    request,   \* the messages of each turn's CompletionRequest
    settled    \* history variable: what was committed when the turn began

vars == <<pc, began, clock, pending, messages, request, settled>>

Preparing == {"begun", "inserted", "touched", "embedding", "searched", "ready"}
Storing == {"storing", "stored"}
Prepared == {"generating", "replied"} \cup Storing \cup {"over"}
Over == {"over", "refused"}

Row == [turn : Turns, role : {"user", "assistant"}, created_at : Nat \ {0}]

Question(t) == [turn |-> t, role |-> "user", created_at |-> began[t]]
Reply(t) == [turn |-> t, role |-> "assistant", created_at |-> began[t]]

\* A connection is held as long as a transaction is open, and no longer: none
\* during the generation.  (Each definition named X_Something is X with a
\* plausible bug: the properties are tried against it.)
Holders_WholeTurn ==
    {t \in Turns : pc[t] \in Preparing \cup Storing \cup {"generating", "replied"}}
Holders == {t \in Turns : pc[t] \in Preparing \cup Storing}

\* The turn whose transaction has updated the conversation's row.
Touchers == {t \in Turns : pc[t] \in {"touched", "embedding", "searched", "ready"}}

Init ==
    /\ pc = [t \in Turns |-> "asked"]
    /\ began = [t \in Turns |-> 0]
    /\ clock = 0
    /\ pending = [t \in Turns |-> {}]
    /\ messages = {}
    /\ request = [t \in Turns |-> <<>>]
    /\ settled = [t \in Turns |-> {}]

Goto(t, from, to) == pc[t] = from /\ pc' = [pc EXCEPT ![t] = to]

\* tenant_connection: a connection from the pool, then BEGIN.
BeginTransaction(t) ==
    /\ Cardinality(Holders) < PoolSize
    /\ clock' = clock + 1
    /\ began' = [began EXCEPT ![t] = clock']

Insert(t, row) == pending' = [pending EXCEPT ![t] = @ \cup {row}]

CommitRows(t) ==
    /\ messages' = messages \cup pending[t]
    /\ pending' = [pending EXCEPT ![t] = {}]

-----------------------------------------------------------------------------
(* prepare_turn.                                                           *)

BeginPrepare(t) ==
    /\ Goto(t, "asked", "begun")
    /\ BeginTransaction(t)
    /\ settled' = [settled EXCEPT ![t] = messages]
    /\ UNCHANGED <<pending, messages, request>>

\* Unknown model, provider without a key, unknown conversation: an HTTP error.
Refuse(t) ==
    /\ Goto(t, "begun", "refused")
    /\ UNCHANGED <<began, clock, pending, messages, request, settled>>

InsertQuestion(t) ==
    /\ Goto(t, "begun", "inserted")
    /\ Insert(t, Question(t))
    /\ UNCHANGED <<began, clock, messages, request, settled>>

Touch(t) ==
    /\ Goto(t, "inserted", "touched")
    /\ Touchers = {}
    /\ UNCHANGED <<began, clock, pending, messages, request, settled>>

\* With a collection that has chunks, the question is embedded by a provider,
\* inside the transaction.
Retrieve(t) ==
    /\ Goto(t, "touched", "searched") \/ Goto(t, "touched", "embedding")
    /\ UNCHANGED <<began, clock, pending, messages, request, settled>>

\* The embedding fails (or no provider can embed): the exception leaves the
\* transaction, which rolls back.
Embed_KeepsQuestion(t) ==
    /\ \/ Goto(t, "embedding", "searched") /\ UNCHANGED <<pending, messages>>
       \/ Goto(t, "embedding", "refused") /\ CommitRows(t)
    /\ UNCHANGED <<began, clock, request, settled>>
Embed(t) ==
    /\ \/ Goto(t, "embedding", "searched") /\ pending' = pending
       \/ Goto(t, "embedding", "refused") /\ pending' = [pending EXCEPT ![t] = {}]
    /\ UNCHANGED <<began, clock, messages, request, settled>>

\* list_for_conversation: ORDER BY created_at.
Before(rows, r) == {s \in rows : s.created_at < r.created_at}
Ordered(rows) ==
    [k \in 1..Cardinality(rows) |-> CHOOSE r \in rows : Cardinality(Before(rows, r)) = k - 1]

Estimates(rows) == [k \in 1..Len(rows) |-> Tokens[rows[k].turn][rows[k].role]]

\* The history is read in the same transaction and trimmed: the oldest messages
\* go first, and with them, when turns overlap, the question may go.
Trim(history, t) ==
    \E n \in LongestFit(Estimates(history), Room[t]) :
        request' = [request EXCEPT ![t] = Newest(history, n)]

ReadHistory_Elsewhere(t) ==
    /\ Goto(t, "searched", "ready")
    /\ Trim(Ordered(messages), t)
    /\ UNCHANGED <<began, clock, pending, messages, settled>>
ReadHistory(t) ==
    /\ Goto(t, "searched", "ready")
    /\ Trim(Ordered(messages \cup pending[t]), t)
    /\ UNCHANGED <<began, clock, pending, messages, settled>>

\* The route leaves tenant_connection; only then does the response start.
CommitQuestion_AtTheEnd(t) ==
    /\ Goto(t, "ready", "generating")
    /\ UNCHANGED <<began, clock, pending, messages, request, settled>>
CommitQuestion(t) ==
    /\ Goto(t, "ready", "generating")
    /\ CommitRows(t)
    /\ UNCHANGED <<began, clock, request, settled>>

-----------------------------------------------------------------------------
(* stream_reply, seen from the database.                                   *)

\* The generation comes to an end, by itself, by a failure or by Stop, with
\* text to store or without.
Generate(t) ==
    /\ Goto(t, "generating", "replied") \/ Goto(t, "generating", "over")
    /\ UNCHANGED <<began, clock, pending, messages, request, settled>>

BeginStore_AsOfQuestion(t) ==
    /\ Goto(t, "replied", "storing")
    /\ Cardinality(Holders) < PoolSize
    /\ UNCHANGED <<began, clock, pending, messages, request, settled>>
BeginStore(t) ==
    /\ Goto(t, "replied", "storing")
    /\ BeginTransaction(t)
    /\ UNCHANGED <<pending, messages, request, settled>>

InsertReply(t) ==
    /\ Goto(t, "storing", "stored")
    /\ Insert(t, Reply(t))
    /\ UNCHANGED <<began, clock, messages, request, settled>>

CommitReply(t) ==
    /\ Goto(t, "stored", "over")
    /\ CommitRows(t)
    /\ UNCHANGED <<began, clock, request, settled>>

-----------------------------------------------------------------------------
\* The database refuses a statement or the connection breaks.  (A COMMIT whose
\* answer is lost is CommitQuestion or CommitReply: the turn goes no further.)
Fail(t) ==
    /\ pc[t] \in Preparing \cup Storing
    /\ pc' = [pc EXCEPT ![t] = IF pc[t] \in Preparing THEN "refused" ELSE "over"]
    /\ pending' = [pending EXCEPT ![t] = {}]
    /\ UNCHANGED <<began, clock, messages, request, settled>>

\* The server dies with every request that is under way.
Restart ==
    /\ \E t \in Turns : pc[t] \notin Over \cup {"asked"}
    /\ pc' = [t \in Turns |->
                IF pc[t] \in Preparing THEN "refused"
                ELSE IF pc[t] \in Prepared THEN "over" ELSE pc[t]]
    /\ pending' = [t \in Turns |-> {}]
    /\ UNCHANGED <<began, clock, messages, request, settled>>

Step(t) ==
    \/ BeginPrepare(t) \/ Refuse(t) \/ InsertQuestion(t) \/ Touch(t)
    \/ Retrieve(t) \/ Embed(t) \/ ReadHistory(t) \/ CommitQuestion(t)
    \/ Generate(t) \/ BeginStore(t) \/ InsertReply(t) \/ CommitReply(t)

Finished == (\A t \in Turns : pc[t] \in Over) /\ UNCHANGED vars

Next == (\E t \in Turns : Step(t) \/ Fail(t)) \/ Restart \/ Finished

Spec == Init /\ [][Next]_vars

\* A free connection goes to one of those that wait, in turn (the pool is a
\* queue), as does the row lock; the database answers, the embedding SDK gives
\* up by itself and a generation ends (ChatTurn's TurnEnds).
FairSpec == Spec /\ \A t \in Turns : SF_vars(Step(t))

-----------------------------------------------------------------------------
TypeOK ==
    /\ pc \in [Turns -> {"asked"} \cup Preparing \cup Prepared \cup {"refused"}]
    /\ began \in [Turns -> Nat]
    /\ clock \in 0..(2 * Cardinality(Turns))
    /\ pending \in [Turns -> SUBSET Row]
    /\ messages \subseteq Row
    /\ request \in [Turns -> Seq(Row)]
    /\ settled \in [Turns -> SUBSET Row]
    /\ Cardinality(Touchers) <= 1
    /\ \A t \in Turns : pending[t] # {} => t \in Holders

Sent(t) == {request[t][k] : k \in 1..Len(request[t])}
Size(t) == TokensOfLast(Estimates(request[t]))[Len(request[t])]

\* What of the stored rows a turn's request is about: all that the conversation
\* held when the turn began, and its question.
Due(t, rows) == settled[t] \cup {r \in rows : r.turn = t /\ r.role = "user"}

\* A row was left out because it, or a younger one, was one too many.
NoRoomFor(r, t, rows) ==
    \E x \in rows :
        /\ r.created_at <= x.created_at
        /\ \A s \in Sent(t) : x.created_at < s.created_at
        /\ Size(t) + Tokens[x.turn][x.role] > Room[t]

HoldsNewest(t, rows) ==
    /\ request[t] # <<>>
    /\ \A j, k \in 1..Len(request[t]) :
          j < k => request[t][j].created_at < request[t][k].created_at
    /\ Len(request[t]) > 1 => Size(t) <= Room[t]
    /\ \A r \in Due(t, rows) : r \in Sent(t) \/ NoRoomFor(r, t, rows)

\* Whatever overlaps, a request is in the order of the conversation, fits the
\* budget unless it is a single message, and leaves out none of what the
\* conversation held when the message was sent, whichever provider wrote it,
\* nor the message itself, except for want of room: the first message older
\* than the request would have been one too many.
RequestIsNewest == \A t \in Turns : pc[t] \in Prepared => HoldsNewest(t, messages)

\* A request is never about something else than the question it answers, unless
\* turns overlap: it holds the question, or nothing but messages that were
\* committed after the turn began and pushed the question out of the window.
QuestionIsSent(t) ==
    \/ \E s \in Sent(t) : s.turn = t /\ s.role = "user"
    \/ \A s \in Sent(t) : s \notin settled[t]

OnlyOverlapsDisplace == \A t \in Turns : pc[t] \in Prepared => QuestionIsSent(t)

\* Nothing a model is sent is ever rolled back: once the request is used, all
\* its messages, the one it answers included, are in the conversation for good,
\* through Stop, failures and restarts; and a message that was refused leaves
\* nothing behind.
RequestIsStored ==
    \A t \in Turns :
        /\ pc[t] \in Prepared => \A i \in 1..Len(request[t]) : request[t][i] \in messages
        /\ pc[t] = "refused" => \A r \in messages : r.turn # t

\* In the order the conversation is shown, a reply comes after its question.
ReplyFollowsQuestion ==
    \A r \in messages : r.role = "assistant" =>
        \E q \in messages :
            q.turn = r.turn /\ q.role = "user" /\ q.created_at < r.created_at

\* Every turn ends: none holds a connection while it waits for another.
TurnsEnd == \A t \in Turns : <>(pc[t] \in Over)
=============================================================================
