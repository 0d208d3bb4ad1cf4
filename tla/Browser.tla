------------------------------- MODULE Browser -------------------------------
(***************************************************************************)
(* The browser's side: App (tenant, conversation list, selection), the     *)
(* mounted Chat (its messages, its load, its stream), the stream that is   *)
(* read through SseParser, and as much of the server as answers them.      *)
(*                                                                         *)
(* Nothing the browser asks for is answered in the order it was asked: a   *)
(* step is one event of the browser (a click, an answer, a read), run to   *)
(* its end with the renders and effects it causes.  The bytes of a read    *)
(* are a piece of the stream cut anywhere; all its records are handled in  *)
(* one step, since only microtasks lie between them.                       *)
(***************************************************************************)
EXTENDS SseParser, FiniteSets

CONSTANTS
    TenantIds,    \* what may stand in the tenant field, known to the server or not
    Convs,        \* conversations, those still to be created included
    TenantOf,     \* the tenant of a conversation
    Old,          \* those that exist at the start
    Default,      \* DEFAULT_TENANT
    NoConv,       \* nothing selected
    MaxSends,     \* bound: messages sent
    MaxEvents,    \* bound: events of each stream
    MaxWritten,   \* bound: events of all streams of the mounted Chat
    MaxRequests   \* bound: list and create requests

ASSUME BrowserAssumption ==
    /\ NoConv \notin Convs /\ Default \in TenantIds
    /\ TenantOf \in [Convs -> TenantIds]
    /\ Old \subseteq Convs
    /\ MaxSends \in Nat /\ MaxEvents \in [1..MaxSends -> Nat]
    /\ MaxWritten \in Nat /\ MaxRequests \in Nat \ {0}

Turns == 1..MaxSends

VARIABLES
    tenantId, conversations, selectedId, loading,   \* App
    lists,       \* the tenants whose list was asked for, answers to come
    creates,     \* the tenants a conversation was asked for, answers to come
    asked,       \* how many such requests there were
    messages, generating,                           \* Chat
    abortRef,    \* the turn whose controller abortRef holds, or 0
    load,        \* the getConversation request of the mounted Chat
    mine,        \* the running turns that were sent from the mounted Chat
    posted,      \* the tenant and conversation each turn was sent to
    fetch,       \* each turn's fetch, as the browser sees it
    parser,      \* each turn's decoder and buffer
    wire,        \* the bytes that are still to be read
    emitted,     \* the events the server has written, and those Chat has been
    handled,     \*   given: kept as long as the mounted Chat may show them
    reply,       \* where the server is with each turn
    known        \* the conversations that exist

app == <<tenantId, conversations, selectedId, loading>>
requests == <<lists, creates, asked>>
chat == <<messages, generating, abortRef, load, mine>>
stream == <<fetch, parser, wire>>
log == <<emitted, handled>>
server == <<reply, known>>
vars == <<app, requests, chat, posted, stream, log, server>>

Text(n) == [type |-> "text_delta", n |-> n]
Done == [type |-> "done"]
Error == [type |-> "error"]
Pieces == Turns \X Nat
Event == [type : {"text_delta"}, n : Pieces] \cup {Done, Error}

\* The text of the delta that would be the next event of the turn.
NextPiece(t) == <<t, Len(emitted[t]) + 1>>

NoLoad == [step |-> "none", rows |-> <<>>]
Asked == [step |-> "asked", rows |-> <<>>]

DisplayMessage ==
    [turn : Turns, role : {"user", "assistant"}, local : BOOLEAN,
     text : Seq(Pieces),
     status : {"complete", "interrupted", "streaming", "stored"}]

Init ==
    /\ tenantId = Default
    /\ conversations = {} /\ selectedId = NoConv /\ loading = TRUE
    /\ lists = <<tenantId>> /\ creates = <<>> /\ asked = 1
    /\ messages = <<>> /\ generating = FALSE
    /\ abortRef = 0 /\ load = NoLoad /\ mine = {}
    /\ posted = [t \in Turns |-> [tenant |-> tenantId, conv |-> NoConv]]
    /\ fetch = [t \in Turns |-> "unsent"]
    /\ parser = [t \in Turns |-> Idle] /\ handled = [t \in Turns |-> <<>>]
    /\ wire = [t \in Turns |-> <<>>] /\ emitted = [t \in Turns |-> <<>>]
    /\ reply = [t \in Turns |-> "none"]
    /\ known = Old

-----------------------------------------------------------------------------
(* App.  Chat is keyed by the selected conversation: another selection     *)
(* unmounts it, its cleanup aborts its stream, and what it still awaits    *)
(* no longer changes anything.                                             *)

\* abort(): what the stream awaits is rejected, and its catch and finally run
\* before anything else does.  The parser is dropped with what it held.
EndFetch(t) ==
    /\ fetch' = [fetch EXCEPT ![t] = "over"]
    /\ parser' = [parser EXCEPT ![t] = Idle]
    /\ wire' = [wire EXCEPT ![t] = <<>>]

\* (Each definition named X_Something is X with a plausible bug: the properties
\* are tried against it.)
Cleanup_LeavesRunning == UNCHANGED stream
Cleanup == IF abortRef = 0 THEN UNCHANGED stream ELSE EndFetch(abortRef)

Mount(c) ==
    /\ messages' = <<>> /\ generating' = FALSE
    /\ abortRef' = 0 /\ mine' = {}
    /\ load' = IF c = NoConv THEN NoLoad ELSE Asked
    /\ emitted' = [t \in Turns |-> <<>>] /\ handled' = [t \in Turns |-> <<>>]

SetSelectedId(c) ==
    /\ selectedId' = c
    /\ IF c = selectedId
         THEN UNCHANGED <<chat, stream, log>>
         ELSE Cleanup /\ Mount(c)

SetTenantId(t) ==
    /\ t # tenantId /\ asked < MaxRequests
    /\ tenantId' = t
    /\ lists' = Append(lists, t) /\ asked' = asked + 1
    /\ loading' = TRUE
    /\ SetSelectedId(NoConv)
    /\ UNCHANGED <<conversations, creates, posted, server>>

\* The answer to any request that is under way, the latest or not.  The first
\* of the list, the one updated last, is selected.
ListAnswered(i) ==
    /\ conversations' = {c \in known : TenantOf[c] = lists[i]}
    /\ \/ \E c \in conversations' : SetSelectedId(c)
       \/ conversations' = {} /\ SetSelectedId(NoConv)
    /\ lists' = RemoveAt(lists, i)
    /\ loading' = FALSE
    /\ UNCHANGED <<tenantId, creates, asked, posted, server>>

\* An unknown tenant (401), or any other failure.
ListFails(i) ==
    /\ conversations' = {}
    /\ lists' = RemoveAt(lists, i)
    /\ loading' = FALSE
    /\ UNCHANGED <<tenantId, selectedId, creates, asked, chat, posted, stream, log,
                   server>>

CreateConversation ==
    /\ ~loading /\ asked < MaxRequests
    /\ creates' = Append(creates, tenantId) /\ asked' = asked + 1
    /\ loading' = TRUE
    /\ UNCHANGED <<tenantId, conversations, selectedId, lists, chat, posted, stream,
                   log, server>>

CreateAnswered(i, c) ==
    /\ TenantOf[c] = creates[i] /\ c \notin known
    /\ known' = known \cup {c}
    /\ conversations' = conversations \cup {c}
    /\ SetSelectedId(c)
    /\ creates' = RemoveAt(creates, i)
    /\ loading' = FALSE
    /\ UNCHANGED <<tenantId, lists, asked, posted, reply>>

CreateFails(i) ==
    /\ creates' = RemoveAt(creates, i)
    /\ loading' = FALSE
    /\ UNCHANGED <<tenantId, conversations, selectedId, lists, asked, chat, posted, stream,
                   log, server>>

Select(c) ==
    /\ c \in conversations
    /\ SetSelectedId(c)
    /\ UNCHANGED <<tenantId, conversations, loading, requests, posted, server>>

-----------------------------------------------------------------------------
(* Chat: its load, and the messages it is sent.                            *)

\* Row-level security: what a tenant asks about a conversation of another
\* tenant is answered 404, whatever the list it was picked from.
Allowed_Unscoped(tenant, c) == TRUE
Allowed(tenant, c) == TenantOf[c] = tenant

\* The messages of a conversation, as a load shows them; what the server stores
\* as their text and status is ChatTurn's.
Stored(t, role) ==
    [turn |-> t, role |-> role, local |-> FALSE, text |-> <<>>, status |-> "stored"]
RowsOf(t, c) ==
    IF posted[t].conv # c \/ reply[t] \notin {"answering", "stored", "closed"} THEN <<>>
    ELSE IF reply[t] = "stored" THEN <<Stored(t, "user"), Stored(t, "assistant")>>
    ELSE <<Stored(t, "user")>>
Rows(c) ==
    LET rows[t \in 0..MaxSends] == IF t = 0 THEN <<>> ELSE rows[t - 1] \o RowsOf(t, c)
    IN  rows[MaxSends]

\* The server reads the conversation; its answer arrives later.
LoadRead ==
    /\ load = Asked /\ Allowed(tenantId, selectedId)
    /\ load' = [step |-> "read", rows |-> Rows(selectedId)]
    /\ UNCHANGED <<app, requests, messages, generating, abortRef, mine,
                   posted, stream, log, server>>

LoadAnswered ==
    /\ load.step = "read"
    /\ messages' = load.rows
    /\ load' = NoLoad
    /\ UNCHANGED <<app, requests, generating, abortRef, mine, posted, stream,
                   log, server>>

LoadFails ==
    /\ load # NoLoad
    /\ load' = NoLoad
    /\ UNCHANGED <<app, requests, messages, generating, abortRef, mine, posted, stream,
                   log, server>>

Local(t, role, status) ==
    [turn |-> t, role |-> role, local |-> TRUE, text |-> <<>>, status |-> status]

MaySend == selectedId # NoConv /\ ~generating

HandleSend(t) ==
    /\ MaySend
    /\ fetch[t] = "unsent" /\ \A u \in Turns : u < t => fetch[u] # "unsent"
    /\ generating' = TRUE
    /\ messages' = messages \o <<Local(t, "user", "complete"),
                                 Local(t, "assistant", "streaming")>>
    /\ abortRef' = t
    /\ mine' = mine \cup {t}
    /\ posted' = [posted EXCEPT ![t] = [tenant |-> tenantId, conv |-> selectedId]]
    /\ fetch' = [fetch EXCEPT ![t] = "open"]
    /\ reply' = [reply EXCEPT ![t] = "asked"]
    /\ UNCHANGED <<app, requests, load, parser, wire, log, known>>

-----------------------------------------------------------------------------
(* The server, as far as the browser sees it: it refuses the message or    *)
(* stores it, writes the events of the reply, stores the reply, ends.      *)

Accept(t) ==
    /\ reply[t] = "asked" /\ Allowed(posted[t].tenant, posted[t].conv)
    /\ reply' = [reply EXCEPT ![t] = "answering"]
    /\ UNCHANGED <<app, requests, chat, posted, stream, log, known>>

Refuse(t) ==
    /\ reply[t] = "asked"
    /\ reply' = [reply EXCEPT ![t] = "refused"]
    /\ UNCHANGED <<app, requests, chat, posted, stream, log, known>>

\* A done has come after some text: no attempt follows any more.
Concluded(events) ==
    \E j, k \in 1..Len(events) :
        j < k /\ events[j].type = "text_delta" /\ events[k] = Done

MayFollow_RetriesAfterText(events, e) == \A k \in 1..Len(events) : events[k] # Error

\* What stream_reply writes next (ChatTurn has it with its reasons).  An error is
\* its last event.  A done need not be: the provider can still fail, which is an
\* error if text was written, and otherwise a retry or a fallback, whose text
\* and done come after the first one's.
MayFollow(events, e) ==
    /\ \A k \in 1..Len(events) : events[k] # Error
    /\ e = Error \/ ~Concluded(events)

Written == UNION {{t} \X DOMAIN emitted[t] : t \in Turns}

\* (Once the browser has gone the server stops writing.)
Emit(t, e) ==
    /\ reply[t] = "answering" /\ fetch[t] = "open"
    /\ Len(emitted[t]) < MaxEvents[t] /\ Cardinality(Written) < MaxWritten
    /\ MayFollow(emitted[t], e)
    /\ emitted' = [emitted EXCEPT ![t] = Append(@, e)]
    /\ wire' = [wire EXCEPT ![t] = @ \o FormatSse(e)]
    /\ UNCHANGED <<app, requests, chat, posted, fetch, parser, handled, server>>

\* The reply is stored, or there is nothing to store; the response ends.
Close(t) ==
    /\ reply[t] = "answering"
    /\ \E end \in {"stored", "closed"} : reply' = [reply EXCEPT ![t] = end]
    /\ UNCHANGED <<app, requests, chat, posted, stream, log, known>>

-----------------------------------------------------------------------------
(* The loop of handleSend over streamMessage.                              *)

Patch(ms, t, change(_)) ==
    [i \in 1..Len(ms) |->
        IF ms[i].local /\ ms[i].role = "assistant" /\ ms[i].turn = t
          THEN change(ms[i]) ELSE ms[i]]

Mark(ms, t, status) == Patch(ms, t, LAMBDA m : [m EXCEPT !.status = status])

\* The text is added to what the message holds now, not to what it held when
\* the handler began.
AddText_Overwrites(m, e) == [m EXCEPT !.text = <<e.n>>]
AddText(m, e) == [m EXCEPT !.text = Append(@, e.n)]

Handle_IgnoresErrors(ms, e, t) ==
    IF e.type = "text_delta" THEN Patch(ms, t, LAMBDA m : AddText(m, e))
    ELSE IF e = Done THEN Mark(ms, t, "complete") ELSE ms
Handle(ms, e, t) ==
    IF e.type = "text_delta" THEN Patch(ms, t, LAMBDA m : AddText(m, e))
    ELSE Mark(ms, t, IF e = Done THEN "complete" ELSE "interrupted")

\* for await (const event of streamMessage(...))
HandleAll(t, events) ==
    LET after[k \in 0..Len(events)] ==
            IF k = 0 THEN messages ELSE Handle(after[k - 1], events[k], t)
    IN  after[Len(events)]

\* finally: setGenerating(false), abortRef.current = null.
Finally_KeepsGenerating(t) ==
    /\ EndFetch(t)
    /\ mine' = mine \ {t}
    /\ abortRef' = IF t \in mine THEN 0 ELSE abortRef
    /\ generating' = generating
Finally(t) ==
    /\ EndFetch(t)
    /\ mine' = mine \ {t}
    /\ abortRef' = IF t \in mine THEN 0 ELSE abortRef
    /\ generating' = (generating /\ t \notin mine)

\* The events reach the messages if Chat is still mounted; an exception among
\* them, or thrown by the read itself, goes to the catch block.
Take(t, events, failed) ==
    LET shown == HandleAll(t, events)
    IN  /\ handled' = [handled EXCEPT ![t] = @ \o events]
        /\ messages' = IF t \notin mine THEN messages
                       ELSE IF failed THEN Mark(shown, t, "interrupted") ELSE shown
        /\ UNCHANGED <<app, requests, load, posted, emitted, server>>

Read(t, n) ==
    LET fed == Feed(parser[t], SubSeq(wire[t], 1, n))
    IN  /\ fetch[t] = "open"
        /\ Take(t, fed.events, fed.failed)
        /\ IF fed.failed
             THEN Finally(t)
             ELSE /\ parser' = [parser EXCEPT ![t] = [pending |-> fed.pending,
                                                     buffer |-> fed.buffer]]
                  /\ wire' = [wire EXCEPT ![t] = SubSeq(@, n + 1, Len(@))]
                  /\ UNCHANGED <<fetch, mine, abortRef, generating>>

\* The end of the body.  It may come early: an intermediary that lost the
\* server ends it wherever it was, and what had not been read is lost.
ReadDone(t) ==
    /\ fetch[t] = "open" /\ reply[t] \in {"stored", "closed"}
    /\ Take(t, Flush(parser[t]).events, Flush(parser[t]).failed)
    /\ Finally(t)

\* The connection breaks, or the answer was an HTTP error.
ReadFails(t) ==
    /\ fetch[t] = "open"
    /\ Take(t, <<>>, TRUE)
    /\ Finally(t)

\* The Stop button is abort(): the read fails.
HandleStop == abortRef # 0 /\ ReadFails(abortRef)

-----------------------------------------------------------------------------
User ==
    \/ \E t \in TenantIds : SetTenantId(t)
    \/ CreateConversation
    \/ \E c \in Convs : Select(c)
    \/ \E t \in Turns : HandleSend(t)
    \/ HandleStop

Answers ==
    \/ \E i \in 1..Len(lists) : ListAnswered(i) \/ ListFails(i)
    \/ \E i \in 1..Len(creates) : CreateFails(i) \/ \E c \in Convs : CreateAnswered(i, c)
    \/ LoadRead \/ LoadAnswered \/ LoadFails

Serve(t) ==
    Accept(t) \/ Refuse(t) \/ Close(t)

Receive(t) ==
    \/ \E n \in 1..Len(wire[t]) : Read(t, n)
    \/ ReadDone(t)
    \/ reply[t] = "refused" /\ ReadFails(t)

Next ==
    \/ User \/ Answers
    \/ \E t \in Turns :
         \/ Serve(t) \/ Receive(t) \/ ReadFails(t)
         \/ \E e \in {Text(NextPiece(t)), Done, Error} : Emit(t, e)

Spec == Init /\ [][Next]_vars

\* The fetch is over: its body ended and was read, or the answer was an error.
ResponseEnds(t) ==
    /\ fetch[t] = "open" /\ reply[t] \in {"refused", "stored", "closed"}
    /\ fetch' = [fetch EXCEPT ![t] = "over"]

\* The server settles each message and ends its response (ChatTurn's TurnEnds),
\* and a response that has ended is read to its end.
FairSpec == Spec /\ \A t \in Turns : WF_reply(Serve(t)) /\ WF_fetch(ResponseEnds(t))
-----------------------------------------------------------------------------
\* Every variable has its type; Chat is generating exactly when it holds a
\* controller to abort, and shows each message of a turn once (Chat.tsx:57-98).
TypeOK ==
    /\ tenantId \in TenantIds
    /\ conversations \subseteq known /\ selectedId \in known \cup {NoConv}
    /\ loading \in BOOLEAN
    /\ lists \in Seq(TenantIds) /\ creates \in Seq(TenantIds)
    /\ asked \in 0..MaxRequests
    /\ messages \in Seq(DisplayMessage)
    /\ generating \in BOOLEAN
    /\ abortRef \in {0} \cup mine /\ mine \subseteq Turns
    /\ load.step \in {"none", "asked", "read"} /\ load.rows \in Seq(DisplayMessage)
    /\ posted \in [Turns -> [tenant : TenantIds, conv : Convs \cup {NoConv}]]
    /\ fetch \in [Turns -> {"unsent", "open", "over"}]
    /\ handled \in [Turns -> Seq(Event)] /\ emitted \in [Turns -> Seq(Event)]
    /\ reply \in [Turns -> {"none", "asked", "refused", "answering", "stored", "closed"}]
    /\ known \subseteq Convs
    /\ generating <=> abortRef # 0
    /\ \A i, j \in 1..Len(messages) :
          i # j => <<messages[i].turn, messages[i].role>> # <<messages[j].turn, messages[j].role>>

\* What Chat is given is what the server wrote, in its order, from the first
\* event and without a gap or a damaged character, wherever the network cuts
\* the bytes and even when the body ends too soon (sse.ts).
EventsAreSent == \A t \in Turns : IsPrefix(handled[t], emitted[t])

\* A stream that still runs can be stopped: it is the one abortRef holds, and
\* was sent to the conversation and under the tenant on the screen.  No list
\* answer, selection or tenant change leaves one running out of sight
\* (Chat.tsx:44-48).
NothingRunsUnseen ==
    \A t \in Turns : fetch[t] = "open" =>
        abortRef = t /\ posted[t] = [tenant |-> tenantId, conv |-> selectedId]

\* Messages on the screen belong to the selected conversation, and text that
\* came from the server to the tenant in the field, whatever answer to an
\* earlier tenant's or conversation's request came last.
ShownIsSelected ==
    \A i \in 1..Len(messages) :
        /\ posted[messages[i].turn].conv = selectedId
        /\ ~messages[i].local \/ messages[i].text # <<>> => TenantOf[selectedId] = tenantId

Texts(events) ==
    LET texts[k \in 0..Len(events)] ==
            IF k = 0 THEN <<>>
            ELSE IF events[k].type = "text_delta" THEN Append(texts[k - 1], events[k].n)
            ELSE texts[k - 1]
    IN  texts[Len(events)]

\* The reply on the screen holds exactly the text Chat was given for it.  One
\* shown as complete was given a done and no error, whichever came first, and is
\* whole, all the text the server writes for it, if that done came after text: a
\* done without text may be followed by the text of a retry (Chat.tsx:74-94).
CompleteIsWhole ==
    \A i \in 1..Len(messages) :
        LET t == messages[i].turn
        IN  /\ messages[i].local /\ messages[i].role = "assistant" =>
                  messages[i].text = Texts(handled[t])
            /\ messages[i].role = "assistant" /\ messages[i].status = "complete" =>
                  /\ Done \in Range(handled[t]) /\ Error \notin Range(handled[t])
                  /\ Concluded(handled[t]) => messages[i].text = Texts(emitted[t])

\* Once a stream is over its reply is not shown as still being written, unless
\* the body ended of its own accord with neither a done nor an error.
NoCursorIsLeft ==
    \A i \in 1..Len(messages) :
        messages[i].status = "streaming" =>
            LET t == messages[i].turn
            IN  \/ abortRef = t
                \/ /\ reply[t] \in {"stored", "closed"}
                   /\ Range(handled[t]) \cap {Done, Error} = {}

\* A stream that the server ends, or the user stops, leaves the composer free
\* (Chat.tsx:95-98), wherever its body was cut and whatever was selected.
GenerationEnds == generating ~> ~generating
=============================================================================
