# Polyglot: a verification development

TLA+ models of the Polyglot backend (a FastAPI service that streams chat
replies from Anthropic, Gemini and OpenAI models, with retrieval over uploaded
documents), TLC configurations that check them and TLAPS proofs about them.
Paths below are relative to `src/backend/app/` unless they start otherwise.

## 1. Inventory

| component | code | state | operations |
|---|---|---|---|
| Chat turn | `services/chat.py` (`stream_reply`, `_stream_one_attempt`, `_persist_*`), `services/retry.py` | the generator's locals: candidate, attempt, accumulated text, usage, status, `final_model_id`; the write in progress | stream, retry, fall back, time out, give up, store, cancel |
| Preparing a turn | `chat.py` (`prepare_turn`), `api/conversations.py`, `repositories/messages.py`, `repositories/conversations.py` | table `messages`, the route's open transaction | store the question, touch the conversation, retrieve, read the history, commit |
| Context window | `services/context_window.py` | none (a loop) | trim the history |
| Ingestion | `services/ingestion.py`, `services/extraction.py`, `api/collections.py`, `repositories/documents.py`, `repositories/chunks.py` | tables `documents`, `document_chunks` | register, extract, embed, insert, mark ready or failed |
| Chunking, retrieval, citations | `services/chunking.py`, `retrieval.py`, `rag.py` | none of their own; table `chunks` | cut into windows, read the chunks, rank, number the sources, check citations |
| Cost | `services/cost.py` | none | price a usage record |
| Providers | `providers/*` | registries filled at start | look up; stream; translate errors |
| Pool and tenants | `db/pool.py`, `core/tenant.py`, `db/migrations/*.sql` | ten connections, `app.tenant_id` of each transaction | acquire, begin, set the tenant, commit or roll back |
| Migrations, seed | `db/migrate.py`, `db/seed.py` | `schema_migrations` | apply what is missing |
| Chat view | `src/frontend/src/App.tsx`, `components/*.tsx` | tenant, list, selection; messages, `generating` and `abortRef` of the mounted Chat | load, send, stop, switch, show events |
| Browser client | `src/frontend/src/api/*.ts` | the decoder and the buffer of the SSE parser | fetch, cut bytes into records, parse |

How they interact. The route `stream_message` runs `prepare_turn` to its end
inside `tenant_connection` (one transaction of a pooled connection); only then
does the streaming response start to iterate `stream_reply`, which pulls events
from an adapter's `stream`, hands each to the response task at a `yield`, and
opens a second transaction of its own to store the reply and the usage record.
The browser reads the events and can leave at any moment (Stop, unmount). Uploads run
synchronously in their request, in two transactions with the embedding call
between them. Nothing else runs in the background; all sharing between
requests is through the database and the connection pool.

What is hard about it:

- *Two kinds of await.* When a disconnect or the attempt's timer fires while the
  generator awaits the provider, it receives `CancelledError`; when it fires
  while the generator is suspended at `yield` (the response task is in `send()`)
  it is closed with `GeneratorExit`, which no handler catches.
- *State across attempts.* `status`, `usage` and `finish_reason` outlive an
  attempt; `final_model_id` is only assigned when an attempt ends.
- *Partial failure.* Message and usage record, chunks and status, question and
  embedding are pairs that can be separated by an error or a crash.
- *Overlapping turns.* The shielded write of a cancelled turn runs while the
  browser already sends the next message; `created_at` is the start of a
  transaction, not its commit.
- *Three event vocabularies.* Each provider names, numbers and ends its tool calls in its own
  way, interleaves their fragments, reports usage more than once and can fail at any event.
- *Stale settings and checks.* No query names a tenant: everything rests on a setting of a pooled
  connection that another tenant used before, and rows are written some transactions after the
  check that their parent is one's own.
- *Answers in any order.* The browser starts a request per key stroke in the tenant field, and
  lists, loads and streams answer when they like; the network cuts a stream at any byte.
- *Several starts.* Server processes that start together migrate one database, and may die between
  two statements of it.
- *Windows.* Overlap, blank slices, short pages and the end of a document are boundaries of one
  small loop, and a wrong step loses text or never ends.
- *Resources.* A bounded pool, a row lock on the conversation and a remote call
  within one transaction.

`PROJECT.json` lists each of these as a hazard at its line with the
properties that watch it, or the reason why none does.

## 2. Modules

### ChatTurn: one turn after its question is committed

An action runs from one await of the generator to the next. `sending` tells the
two kinds of await apart: it is `NoEvent` while the generator awaits something
itself and holds the event while the response task is in `send()`.

| actions | code |
|---|---|
| `Begin`, `SendCanned` | `chat.py` 226-237: sources, the deterministic reply |
| `OpenCandidate` | 253-262: lookups, `FallbackEvent`; a lookup that raises is the `except Exception` of 315 |
| `ProviderText/Usage/Done/Ends` | 264-277 |
| `ProviderFails`, `TimerExpires`, `HandleFailure` with `Retry`, `FallBack`, `GiveUp` | 278-299, 332-348 |
| `Wake` | the back-off sleep ends, 288-293 |
| `Settle`, `Acquire`, `InsertMessage`, `InsertUsage`, `Commit`, `SaveFails` | 319-331, 350-403, `db/pool.py` 36-45 |
| `Deliver`, `Leave` | Starlette's `send()`; Stop and unmount in `Chat.tsx` |
| `CancelAwaiting` | `CancelledError` inside `stream_reply`, 302-314: the shielded write |
| `CancelSaving` | the same during the final write, 327-331, which is not shielded |
| `AbandonSending` | the generator is closed at a `yield` |
| `Crash` | the server process dies |

A text delta is its author: the candidate and the attempt that produced it. That
is what the properties tell apart; an adapter that sends an empty delta is not
distinguished from one that sends none. Latencies and cost are left out.

`TurnPromise` states what a turn promises, without providers, retries or
transactions. `ChatTurn!KeepsPromise` is the refinement: the browser's text is
`heard`, the table is `kept`, the end of the generator is `over`.

### Adapters: from a provider's events to the application's

A behaviour is one call of `stream()` of one of the three adapters. What the
provider means (`made`, `declared`, `tokens`) is kept apart from what the adapter
remembers (`book`, `reason`, `usage`, `saw_function_call`), and `out` is what it has
yielded; the properties compare the first with the third.

| actions | code in `providers/` |
|---|---|
| `ToolBlockStart`, `InputJsonDelta`, `ContentBlockStop`, `MessageDelta`, `MessageStop` | `anthropic_adapter.py` 107-144 |
| `OutputItemAdded`, `ArgumentsDelta`, `ArgumentsDone`, `ResponseEnds`, `StreamError` | `openai_adapter.py` 101-130 |
| `FunctionCallPart`, `UsageChunk`, `FinishChunk`, `EndOfChunks` | `gemini_adapter.py` 134-161 |
| `TextDelta`, `SdkRaises`, `SdkEnds` | the same in all three, and the `except` at the end of each; `SdkEnds` in the first two |

Argument text is a sequence of fragments, each with the call and the place it
belongs to; it parses when it is empty or whole. The exceptions of the SDKs are
grouped by what the three `_translate_error` tell apart. The provider keeps the
order that `docs/PROVIDER_NOTES.md` describes, and no order between calls. The
events one SDK event leads to are yielded in one step, and the caller leaves at the first
`ErrorEvent`, as `stream_reply` does. The chat does not declare tools to a
provider yet; the adapters are modelled for requests that do.

`ProviderStream` is the order of events that is common to the three, and what `ChatTurn`
assumes of a provider (`SendsText`, `SendsUsage`, `SendsDone`): `Adapters!KeepsToStream`
discharges that assumption.

### Conversation: overlapping turns and their two transactions

Each turn goes through `prepare_turn` in a transaction (`BeginPrepare` ...
`CommitQuestion`), a generation that holds no connection (`Generate`, which
stands for ChatTurn), and the transaction of the reply (`BeginStore` ...
`CommitReply`). PostgreSQL is modelled as the code relies on it: a query sees
what is committed and its own rows, `now()` is the start of the transaction, an
UPDATE locks the row. `settled` is a history variable for the properties.

`ReadHistory` is the read of the history and what follows it up to the `CompletionRequest` (`chat.py` 196-214):
`Trim` keeps the longest end of it that fits the turn's `Room`. `Room` and `Tokens` (the estimate of each
message) are constants of any values: a turn's room depends on its model and on the evidence it quotes. The request is therefore not
the whole conversation. `RequestIsNewest` says that what is missing from it had no room, `OnlyOverlapsDisplace` that the
question itself can only be missing when messages of overlapping turns took its place, which the run does reach
(`chat.py` 198).

### Ingestion: concurrent uploads

`Admit` is the route's guards, `Register` the first transaction, `Extract` and
`Embed` the work between, `InsertChunks`, `MarkReady`, `CommitReady` the second
transaction, `Fail` the update of `_fail`, `Raise` an exception that `ingest`
does not catch, `Restart` the server. A document is the number of its pieces.

### Trimming and ContextWindow: trimming a history

`Trimming` says what `trim_to_context_window` returns (`LongestFit`: the length of the longest end of a
history that fits, at least one message), for `Conversation` to use and for `ContextWindow` to be checked against.

`ContextWindow` is its loop, one iteration per step. A message is
its length. Its variables and definitions carry names of their own (`history`, `loop`, `TrimSpec`, ...), so
that one proof module can extend it together with Conversation. `Budget` computes `int((window - reserved) * 0.9)` exactly; the
double nearest to 0.9 lies above 0.9, so the float product is never below the
exact one for windows of this size, and a negative product is replaced by 1
either way.

### SseParser and Browser: what a user sees

`SseParser` is pure: `FormatSse` (`_format_sse`, as bytes), `Decode` (`TextDecoder` with
`stream: true`), `Drain` and `Feed` (the buffer of `parseSseStream`), `Flush` (the end of the body),
`Events` (`parseRecord` and `JSON.parse`, with its exception). A byte is the part of the record it
belongs to; a delta holds one character of two bytes, which a read may separate.

`Browser` is App, the mounted Chat, one stream per message sent, and as much of the server as
answers them. A step is one event of the browser with all the renders and effects it causes.

| actions | code under `src/frontend/src/` |
|---|---|
| `SetTenantId`, `ListAnswered`, `ListFails` | `App.tsx` 31-41: an answer to any of the lists asked for |
| `CreateConversation`, `CreateAnswered`, `CreateFails`, `Select` | `App.tsx` 43-52, `ConversationList.tsx` |
| `SetSelectedId` with `Cleanup` and `Mount` | `key={selectedId}`: the unmounted Chat aborts its stream (`Chat.tsx` 44-49), a new one asks for its messages (36-42) |
| `LoadRead`, `LoadAnswered`, `LoadFails` | the server reads the conversation; the answer arrives later |
| `HandleSend`, `HandleStop` | `Chat.tsx` 51-74, 101-103 |
| `Read`, `ReadDone`, `ReadFails` with `Take` and `Finally` | the loop, `catch` and `finally` of `handleSend`, over `sse.ts` |
| `Accept`, `Refuse`, `Close` | `api/conversations.py` 96-121 |
| `Emit` with `MayFollow` | `api/conversations.py` 117-121, in the order of `stream_reply` (`services/chat.py` 264-317) |

`MayFollow` is the order in which `stream_reply` yields, as ChatTurn has it with its reasons: an error is the last event; a done
is not. The provider can fail after it: if text was written that is an error, which marks the complete reply interrupted, and if
not a retry or a fallback, whose text is added to a reply that is already shown as complete. `CompleteIsWhole` therefore
promises all of the text only from a done that came after text on (`Concluded`).

Left out: the error banner, the model choice, sources and the fallback note of a message, the
stored text and status of a loaded message.

### Migrations: processes that start together

`LookForLedger`/`CreateLedger` are the two halves of `CREATE TABLE IF NOT EXISTS`
(`db/migrate.py` 22-29), `ReadApplied` 31, `Skip` 33-35, `RunSql` and `Record` the transaction of a file (37-41),
`Migrated` and `Seed` the rest of `lifespan`, `Exit` an exception that ends the process, `Die` a
kill at any point. PostgreSQL is modelled as far as the code depends on it: a transaction that
creates a table makes another that does the same wait, and fail if the first commits.

### TenantScope: the tenant boundary

A request names a tenant and one of: create, list, get, upload, turn. It looks its tenant up on a
connection of its own (`AcquireForLookup`, `Lookup`: `core/tenant.py` 41-53), then goes through one to three
transactions (`Begin` ... `Commit`, `Release`: `db/pool.py` 36-45) on any idle connection. `guc` is
`app.tenant_id` of each connection, which reverts to an empty string and not to NULL; `Setting` and
`Policy` are the `NULLIF` and the comparison of the policies (`002_notes.sql` 22-37, repeated in each later table);
`MayInsert` is WITH CHECK and the foreign key, which ignores policies. `Create`, `List`, `Get`,
`PrepareTurn`, `Store` are the queries of the routes, `Fail` an exception or cancellation at any await. A
conversation and a collection are both a *parent*, their rows *children*: the code treats them alike.

### Chunking and Evidence: from a document to a citation

`Chunking` cuts one document: a page is a sequence of visible and blank characters, `NextPage` and
`Slide` are the loop over pages (`ingestion.py` 52-55) and over windows (`chunking.py` 44-48), `AllCut` the end
of it, `Store` the closing transaction with its assertion (`repositories/chunks.py` 34), `ExtractFails`
and `EmbedFails` the ways to `failed`. Extraction and cutting await nothing, hence one `cursor`.

`Evidence` adds a question: `Ask` reads the stored chunks (`retrieval.py` 59-68), `Rank` with
`Retrieved` orders them, applies the threshold and cuts (72-78), `Cite` keeps the valid
citations (`rag.py` 101-114). Vectors are replaced by the similarity of each chunk with the question,
any function from chunks to numbers.

### The MC modules and the X_ definitions

`MCx` gives the constants of module `x`. A definition named `X_Something`
is `X` with a plausible bug (a dropped guard, a missing reset, a write too
early); each property is shown to fail under one of them, so that none of
them holds whatever the code does. They are used nowhere else.

## 3. Runs

| run | instance | shows |
|---|---|---|
| `ChatTurn` | requested model, a usable fallback, a fallback without key; 1 retry; 2 deltas | safety, refinement and termination of a turn |
| `Ingestion` | 2 uploads, up to 3 pieces | `ready` means all pieces, and no other piece is visible; requests end |
| `ContextWindow` | all histories of up to 4 messages of 1 to 4 tokens; 9 budgets | the loop returns the longest suffix that fits |
| `Conversation` | 3 turns, 2 connections; room for 7, 2 and 1 tokens, messages of 1 and 2 | what is sent, what is left out of it and what is stored; turns end |
| `Browser` | 2 messages with up to 3 and 1 events, 3 in all, 2 tenants, 3 conversations, 2 list or create requests | what is shown is what was sent, of the selected conversation; no stream runs unseen or blocks the composer |
| `Migrations` | 3 processes, 3 files, 2 exits; a new database or one of any earlier release | the ledger is true, nobody serves early, all come up |
| `TenantScope` | 2 requests of 2 tenants, 2 connections, 4 ids | tenants are kept apart, and find what is theirs |
| `Evidence` | every text of up to 4 characters and 4 documents of several pages, sizes 2 and 3 with every overlap; a second document; 3 similarities, `top_k` 1 and 2 | no passage is lost, sources are the best, citations are sources |
| `Adapters` | 2 tool calls of 2 tool names, up to 2 fragments each; 1 text delta; 2 usage reports | tool calls, outcome, usage and failures are reported as they were sent, in the common order |

Why these bounds are enough. Three candidates are the least with a first, a
middle and a last one, and one of them is unusable; one retry tells "may retry"
from "retries used up"; two deltas tell the first from a later one, and shown from
accumulated. A second upload is any other upload, since uploads
share nothing but the tables; three pieces are a first, a middle and a last. Three
turns over two connections are the least in which a turn waits for a connection while one that
has none to give waits for the row lock. A room of 7 takes every message of the
three turns, one of 2 drops some of them, and one of 1 keeps a single message, which may exceed it. The histories of `ContextWindow`
include an empty message (which costs one token), lengths that round down, exact
fits, and budgets from the floor of 1 upwards. Two calls of `Adapters` interleave and may share a tool name, two
fragments tell a cut call from a whole one and show an order, two reports tell the last from
the first; tool names are symmetric, since no definition tells them apart.

Two messages in `Browser` are the least of which the first is still running, or unseen, when the second is
sent; two requests besides the first list overtake each other; three events are the least with a text, its end and what
may follow an end (an error, or after a done without text the text of a retry and its done), and a read may take any number of bytes
of them; a reply of two leaves one to the second message. With three processes in `Migrations`
two can be overtaken by one, with three files one is done, one is half done and one is not begun. In
`TenantScope` two requests of two tenants use a connection one after the other, and both hold one when
they wait for another. A window of 2 or 3 on texts of 1 to 5 characters is shorter, as long as and longer than its
page; blanks at the start, in the middle and at the end are all there. What is proved
(section 5) holds without bounds.

The passing runs check under weak fairness where they check liveness
(`FairSpec`); safety does not depend on it.

### Runs that disagree with the documentation

Each checks one sentence of the documentation, which TLC refutes.

| run | what happens |
|---|---|
| `ChatTurn_StoredModelIsAuthor` | a turn cancelled while a fallback streams is stored under the requested model |
| `ChatTurn_FailureIsShielded` | the write after a mid-stream failure is not shielded; a disconnect loses the partial reply |
| `Ingestion_NeverStuck` | an exception outside the three caught types, or a restart, leaves a document at `processing` |

## 4. Fairness

*ChatTurn.* Weak fairness of what the event loop, the timers and the
database do: starting, settling, delivering an event, the end of a sleep, the expiry
of the attempt's timer, the statements of a write, noticing a disconnect. None
for the provider (it may hang or repeat usage events for ever), none for the
browser, none for failures and crashes. `TurnEnds` therefore rests on the timer, which
`_stream_one_attempt` sets for every attempt (`TimeIsUp`: the deadline is fixed when the
attempt starts and is met in either kind of await), and on the bound of retries and candidates.

*Ingestion.* Weak fairness of each request: the event loop runs it, and
the embedding SDK has a time-out of its own.

*Conversation.* Strong fairness of each turn's steps: asyncpg's pool and
PostgreSQL's row lock serve their waiters in turn, so a connection that is
free again and again is had in the end, which weak fairness does not say. That a
generation ends is what ChatTurn shows.

*Browser.* Weak fairness of the server's answer to a message (that is ChatTurn's `TurnEnds`
and Conversation's `TurnsEnd`) and of reading a response that has ended to its end. None for the user, lists, loads or
deltas.

*Migrations.* Weak fairness of each process: a server that has ended is started again (the
container's restart), and PostgreSQL answers. Deaths are bounded; without a bound they could go on for ever.

*TenantScope.* Weak fairness of each request; the pool gives an idle connection to one that waits.

*Evidence.* Weak fairness of ingestion: the loop is synchronous, and the embedding SDK has a time-out.

## 5. Proofs

| module | theorems |
|---|---|
| `ChatTurnProofs` | `TypeCorrect`, `OneAuthorHolds`, `StoredCoversSeenHolds`, `NoSecondTryHolds`, `ReplyIsAccountedHolds`, `AtMostOneReplyHolds`, `FallbackIsToldHolds`, `ErrorsAreExhaustedHolds`, `RetriesAreBoundedHolds`, `CancelledIsInterruptedHolds`, `TurnKeepsPromise` |
| `IngestionProofs` | `TypeCorrect`, `ReadyIsCompleteHolds`, `AnswerIsStoredHolds`, `OutcomeIsFinalHolds` |
| `AdaptersProofs` | `TypeCorrect`, `AdaptersKeepToStream`, `ToolCallsAreMatchedHolds`, `OutcomeIsReportedHolds`, `LastUsageIsFinalHolds` |
| `HistoryProofs` (ContextWindow) | `TrimTypeCorrect`, `NewestInOrderHolds`, `KeptFitsHolds`, `MatchesReferenceHolds` |
| `HistoryProofs` (Conversation) | `TypeCorrect`, `RequestIsNewestHolds`, `OnlyOverlapsDisplaceHolds`, `RequestIsStoredHolds`, `ReplyFollowsQuestionHolds` |
| `BrowserProofs` | `TypeCorrect`, `NothingUnseen`, `SentIsGiven`, `ShownIsSelectedHolds`, `CompleteIsWholeHolds`, `NoCursorIsLeftHolds` |
| `MigrationsProofs` | `TypeCorrect`, `LedgerIsTrue`, `ServedWhenComplete`, `FailureIsRaced` |
| `TenantScopeProofs` | `TypeCorrect`, `ClosedOutside`, `ReadsAreIsolated`, `ReferencesAreIsolated`, `OwnersFind` |
| `EvidenceProofs` | `TypeCorrect`, `PassagesSurvive`, `ReadingOrder`, `DocumentsAreWhole`, `TopAreBestHolds`, `CitationsAreSourcesHolds` |

Every invariant and every action property a passing run checks, and both refinements, are theorems.

Assumptions are those the modules name: `TurnAssumption` (the requested model
and its provider are known, as `prepare_turn` has checked; the fallbacks are a
sequence of models; retries are a number), `IngestionAssumption`,
`WindowAssumption`, `AdaptersAssumption` (the bounds are numbers), `BrowserAssumption` (conversations have tenants, and App may ask for
a list at least once), `MigrationsAssumption`, `ScopeAssumption`
(the special values are none of the others), `ChunkingAssumption` and `EvidenceAssumption` (sizes are positive numbers).

*ChatTurn.* None of the properties is inductive. `IInv` has four parts:
`PlaceInv` (in which places a reply is pending, and what may be in flight),
`TextInv` (everything accumulated is by the current attempt), `SeenInv` (what
the browser has seen, with the delta in `send()`, is a prefix of what was
written) and `StoreInv` (a write in progress excludes a stored reply; both
contain the whole text). The key step is that a change of candidate or attempt requires
that no text was accumulated, so `TextInv` survives it. `AccountInv` adds that rows
of the two tables come in pairs, which with `StoreInv` gives at most one of each. The
refinement maps `ProviderText` to a stutter, `Deliver` of a delta to `Hear`, `Commit` to `Keep`, the
ends of the generator to `End`.

*Ingestion.* `UploadInv` ties the status of the row, the chunks and the
open transaction of an upload to the place of its request; steps of other uploads leave it
alone (`OthersUntouched`).

*Adapters.* Type correctness needs `Remembered`: an adapter that looks a call up by its index or
item has an entry for it. The refinement first reduces every action to what it adds to the
stream (`StepsOfTheStream`: content, usage, done, an error or nothing), then shows
`Order`, the invariant that ties what was sent to how far the provider has closed
(`upstream`); each of the five kinds of step is then a step of `ProviderStream` or a stutter.
The three properties of content need what an adapter remembers to be true of what the provider did:
`Declared` (the remembered reason and usage, and `saw_function_call`, are the declared outcome, the last report and whether a
call was begun), `Ending` (a done carries the reason that is right for it, a failure a kind that fits its
exception, and the usage before them is the last) and `Booked` (the entry of a call holds its own id, name and
fragments). `Matched` says of what was yielded what `ToolCallsAreMatched` does, but only of calls that
have stopped, which no later step changes; a fragment of one call moves no position of another's (`SamePositions`).

*ContextWindow.* `TrimInv` says that `kept` is the newest part of the history in reverse
while the loop runs and in order afterwards, that its cost is within the budget once it
holds more than one message, and that the message before it would not have fitted. `UsedIsSum` adds that `used` is the sum
of the costs of what is kept; sums of positive costs grow (by induction over their length), so no longer suffix fits,
which is `MatchesReference`.

*Conversation.* Besides the types and `ReplyFollowsQuestion`, `IInv` has four parts. `Times`: each transaction has a time of its own, so no two committed rows are
equally old and `ORDER BY created_at` has one outcome. `Written` and `Committed`: which rows of a turn are in its open
transaction and which in the table, by its place. `Requested`: what was settled when the turn began is older than its
question, and a request once read is the newest that fits of what could be seen then (`HoldsNewest`). Later commits do not change that, since
it speaks only of what was settled and of the question (`RequestStays`). That `Trim` yields such a request is
`HistoryIsNewest`: the longest fitting end exists and is unique (`LongestFitIsUnique`), the row before it is the one there was no room for,
and every row left out is that one or older. A query's
result is defined by ranks (the number of older rows); `Ordered` is shown to be a sequence of exactly the given rows, in
order, for any finite set of them with distinct times. The type invariant needs in addition `OneToucher` (the row lock is
held by one transaction) and `ClockInv` (the clock counts transactions, of which each turn has two at most).

*Browser.* Five layers, each using those before it. `IInv`: a running turn is one of the mounted Chat's own (`mine`), and
`abortRef` always names one of those, so the cleanup of an unmounted Chat reaches whatever runs. `Streams`: what Chat was
given is the start of what the server wrote, and the parser and the bytes still to be read go on from there. The parser
is described by the number of bytes it has seen of the current record (`Partial`); `ByteByByte` shows what one byte does to
it, in all ten positions, and `Path` strings positions along the bytes to come, so that a read of any length (`FedAlong`) leaves the
parser where the bytes left lead on (`Framed`). `Loading`: what a load has read belongs to
the selected conversation and may be shown, whatever has been selected or sent since it was asked for. `Screen`: every message on the screen
is of a turn sent to the selected conversation; a reply shows the text of what its turn was given, and is complete only if that contains a
done and no error. For `CompleteIsWhole`, `Streams` also knows the order of what is written (`Script`): nothing after an error, and
nothing but an error after a done that comes after text. So what is written beyond such a done has no text (`TextIsOver`). `Desk` is App's lists.

*Migrations.* `RecordedIffApplied` is not inductive without `Place` (a process in its loop has passed only files
that are applied, and the file in its transaction is not) and `OneRunner` (no two transactions run one file).

*TenantScope.* `Reset` (outside a transaction the setting is `Null` or `Blank`), `ContextInv` (within one it
is the tenant the request named) and `DataInv` (what was read and inserted is that tenant's, and the
parent was found before the first later transaction); rows are never deleted, so the parent is still there.

*Evidence.* While a document is cut everything holds up to the cursor: each passage that begins behind it is
in a piece (`HeldBehind`), each piece begins behind it (`PiecesBehind`), in order. `Slide` moves
the cursor by `chunk_size - overlap`, so a passage of at most `overlap + 1` characters that begins in between
ends within the window; a dropped window is blank and holds the beginning of none. `AllOrNone` is what
a question's candidates are of a document. For `TopAreBest`, `Better` is a strict order of the candidates, of which there are
finitely many (`Ranking`), so each has a rank and the ranks are the places of `Sorted`; the threshold and the cut keep a beginning of it. For
`CitationsAreSources`, the list after each mark (`Collected`) is duplicate-free, valid and in order.

*Recursion.* The models write a loop over a sequence as a recursive function, and such a definition says something only if a function
of that form exists. It is shown for each of them (`SumsExist`, `ReadsExist`, `TextsExist`, ...), by induction on a set
of numbers (`NatSetInduction`, from the well-foundedness of `<` on the naturals); the values are then read off step by step.

Some invariants are proved and not repeated by a run: `TrimTypeOK` and the `TypeOK` of the modules other than Browser, `OneAuthor`, `StoredCoversSeen`, `AtMostOneReply`, `RetriesAreBounded`, `CancelledIsInterrupted` (ChatTurn), `AnswerIsStored` (Ingestion),
`NewestInOrder` and `KeptFits` (ContextWindow), `SpansAreWhole` (Evidence). TLC checked each before it was proved; most
follow from what a run does check, for instance from `KeepsPromise` or `MatchesReference`. TLC also checked the inductive
invariants of Adapters, Conversation and, but for `Streams`, Browser on the instances of the runs; `Streams` speaks of functions along
the bytes to come, too many to enumerate.

Only model-checked is liveness: `TurnEnds`, `UploadsEnd`, `TurnsEnd`, `GenerationEnds`, `StartupSettles`, `RequestsEnd` and
`IngestionEnds`. Fairness and ENABLED are outside what the prover handles.

## 6. Not modelled, and what could be added

Data that no property speaks about is left out: wording, latencies, prices (`services/cost.py`), vectors and their
cosine, the prompt, the translation of messages for each provider, the JSON of the model, usage and health routes.
Configuration and schemas hold no state. `CollectionPanel` keeps its own list and detail, whose late answers have the
same shape as those of `Browser`. That status and usage outlive an attempt (`chat.py:273`) is modelled as the code has it, and no document says
otherwise; a property watches what the browser shows of it (`CompleteIsWhole`), none what is stored. That a fallback without a key ends the turn (`chat.py:255`) is modelled as well.

What could be added: the roles of the messages in ContextWindow, and the late answers of `CollectionPanel`.
