------------------------------ MODULE ChatTurn ------------------------------
(***************************************************************************)
(* One chat turn after prepare_turn has committed the user's message: the  *)
(* asynchronous generator ChatService.stream_reply, the provider stream it *)
(* reads under a timer, the HTTP response that carries its events to the   *)
(* browser, and the transaction that stores the reply and its usage        *)
(* record.                                                                 *)
(*                                                                         *)
(* A step of the specification runs from one await of the generator to the *)
(* next.  There are two kinds of await, and the difference between them is *)
(* what makes this code hard:                                              *)
(*   - the generator itself awaits (sending = NoEvent): the provider's     *)
(*     next event, the back-off sleep, the database.  A cancellation       *)
(*     arrives as CancelledError inside stream_reply;                      *)
(*   - the generator is suspended at a yield (sending # NoEvent) while the *)
(*     response task awaits send().  A cancellation, or the expiry of the  *)
(*     attempt's timer, is raised in the response task, and the generator  *)
(*     is closed with GeneratorExit, which none of its handlers catches.   *)
(*                                                                         *)
(* A text delta is abstracted to its author, the attempt that produced it. *)
(***************************************************************************)
EXTENDS Integers, Sequences

CONSTANTS
    Models,       \* internal model ids
    Providers,    \* provider ids
    Known,        \* the ids ModelRegistry holds
    Configured,   \* the providers whose API key is set (wiring.py)
    ProviderOf,   \* ModelConfig.provider
    Requested,    \* the model the browser asked for
    Fallbacks,    \* its ModelConfig.fallback_model_ids
    MaxRetries,   \* RetryConfig.max_retries
    MaxDeltas     \* bound: text deltas of a turn

\* prepare_turn has looked the requested model and its provider up.
ASSUME TurnAssumption ==
    /\ Known \subseteq Models
    /\ Configured \subseteq Providers
    /\ ProviderOf \in [Models -> Providers]
    /\ Requested \in Known
    /\ ProviderOf[Requested] \in Configured
    /\ Fallbacks \in Seq(Models)
    /\ MaxRetries \in Nat
    /\ MaxDeltas \in Nat \ {0}

-----------------------------------------------------------------------------
(* What the turn is about: candidates, error kinds, events, stored rows.   *)

candidate_ids == <<Requested>> \o Fallbacks

Usable(m) == m \in Known /\ ProviderOf[m] \in Configured

ProviderErrorKind ==
    {"auth", "rate_limit", "context_length", "content_filter", "timeout",
     "server_error", "bad_request", "unknown", "unsupported"}

RETRYABLE_KINDS == {"rate_limit", "server_error"}

FALLBACK_ELIGIBLE_KINDS == {"rate_limit", "server_error", "timeout"}

\* An attempt of a candidate, and the application itself for the canned reply.
Author == [candidate : 1..Len(candidate_ids), attempt : 0..MaxRetries]
Canned == [candidate |-> 0, attempt |-> 0]
Nobody == [candidate |-> -1, attempt |-> 0]

Event ==
    [type : {"sources"}]
        \cup [type : {"text", "usage", "done"}, by : Author \cup {Canned}]
        \cup [type : {"fallback"}, to : Models]
        \cup [type : {"error"}, kind : ProviderErrorKind]

NoEvent == [type |-> "none"]
Sources == [type |-> "sources"]
TextDelta(a) == [type |-> "text", by |-> a]
UsageReport(a) == [type |-> "usage", by |-> a]
Done(a) == [type |-> "done", by |-> a]
FallbackTo(m) == [type |-> "fallback", to |-> m]
Error(k) == [type |-> "error", kind |-> k]

Status == {"complete", "interrupted"}

Message == [text : Seq(Author \cup {Canned}), model_id : Models, status : Status]

UsageRecord ==
    [provider : Providers, requested_model_id : Models,
     final_model_id : Models, tokens : Author \cup {Nobody},
     finish_reason : Author \cup {Nobody}, retry_count : Nat,
     fallback_used : BOOLEAN]

NoRecord == [provider |-> "none"]
NoJob == [step |-> "none"]

Job == [step : {"acquire", "message", "usage", "commit"}, message : Message,
        record : UsageRecord \cup {NoRecord}, shielded : BOOLEAN]

-----------------------------------------------------------------------------
VARIABLES
    mode,           \* plain chat, grounded chat, or a collection without evidence
    pc,             \* where the generator is
    sending,        \* the event the response task is sending, or NoEvent
    cand,           \* candidate_index + 1
    attempt,        \* retries made with this candidate
    stage,          \* how far the current provider stream has come
    text,           \* accumulated_text
    usage,          \* the attempt whose UsageEvent came last, or Nobody
    finish_reason,  \* the attempt whose DoneEvent came last, or Nobody
    status,         \* the status the reply would be stored with
    retry_count, fallback_used, final_model_id,
    job,            \* the transaction of _persist_turn_results, or NoJob
    messages,       \* this turn's committed assistant messages
    usage_records,  \* this turn's committed usage records
    client,         \* the browser's connection
    seen,           \* the text deltas the browser received
    told            \* the other events it received

account == <<usage, finish_reason, status, retry_count, fallback_used, final_model_id>>
attempts == <<cand, attempt, stage>>
database == <<messages, usage_records>>
browser == <<client, seen, told>>
generator == <<pc, sending, attempts, text, account>>
vars == <<mode, generator, job, database, browser>>

Running == {"open", "canned", "canned_done", "candidate", "streaming",
            "sleeping", "settle", "saving"}
Ended == {"returned", "cancelled", "abandoned", "raised", "crashed"}

Over == pc \in Ended /\ job = NoJob

Model == candidate_ids[cand]
Me == [candidate |-> cand, attempt |-> attempt]
Idle == sending = NoEvent

Init ==
    /\ mode \in {"plain", "grounded", "no_evidence"}
    /\ pc = "open"
    /\ sending = NoEvent
    /\ cand = 1 /\ attempt = 0 /\ stage = "open"
    /\ text = <<>>
    /\ usage = Nobody
    /\ finish_reason = Nobody
    /\ status = "interrupted"
    /\ retry_count = 0
    /\ fallback_used = FALSE
    /\ final_model_id = Requested
    /\ job = NoJob
    /\ messages = <<>>
    /\ usage_records = <<>>
    /\ client = "reading"
    /\ seen = <<>>
    /\ told = {}

Yield(e, next) == sending' = e /\ pc' = next

-----------------------------------------------------------------------------
(* stream_reply up to its first provider call.                             *)

Begin ==
    /\ pc = "open"
    /\ Yield(IF mode = "plain" THEN NoEvent ELSE Sources,
             IF mode = "no_evidence" THEN "canned" ELSE "candidate")
    /\ UNCHANGED <<mode, attempts, text, account, job, database, browser>>

\* The deterministic reply: its text, then its done.
SendCanned ==
    /\ Idle
    /\ \/ pc = "canned" /\ Yield(TextDelta(Canned), "canned_done")
       \/ pc = "canned_done" /\ Yield(Done(Canned), "settle")
    /\ UNCHANGED <<mode, attempts, text, account, job, database, browser>>

Announcement_OfPrevious ==
    IF cand > 1 THEN FallbackTo(candidate_ids[cand - 1]) ELSE NoEvent
Announcement == IF cand > 1 THEN FallbackTo(Model) ELSE NoEvent

\* The lookups come before the FallbackEvent; one that raises ends the turn
\* with an UNKNOWN error, whatever the failure that led to this candidate.
OpenCandidate ==
    /\ pc = "candidate" /\ Idle
    /\ IF Usable(Model)
         THEN /\ Yield(Announcement, "streaming")
              /\ attempt' = 0
              /\ stage' = "open"
         ELSE /\ Yield(Error("unknown"), "settle")
              /\ UNCHANGED <<attempt, stage>>
    /\ UNCHANGED <<mode, cand, text, account, job, database, browser>>

-----------------------------------------------------------------------------
(* The provider's stream.  Whatever the provider, its adapter sends text,  *)
(* then usage events (Anthropic's one per message_delta), then at most one *)
(* done; it may fail or simply end at any point.                           *)

Listening == pc = "streaming" /\ Idle

SendsText == stage = "open"
SendsUsage == stage \in {"open", "metered"}
SendsDone == stage \in {"open", "metered"}

Accumulated_Overwritten == <<Me>>
Accumulated == Append(text, Me)

ProviderText ==
    /\ Listening /\ SendsText /\ Len(text) < MaxDeltas
    /\ text' = Accumulated
    /\ Yield(TextDelta(Me), "streaming")
    /\ UNCHANGED <<mode, attempts, account, job, database, browser>>

ProviderUsage ==
    /\ Listening /\ SendsUsage
    /\ stage' = "metered"
    /\ usage' = Me
    /\ Yield(UsageReport(Me), "streaming")
    /\ UNCHANGED <<mode, cand, attempt, text, finish_reason, status, retry_count,
                   fallback_used, final_model_id, job, database, browser>>

ProviderDone ==
    /\ Listening /\ SendsDone
    /\ stage' = "closed"
    /\ finish_reason' = Me
    /\ status' = "complete"
    /\ Yield(Done(Me), "streaming")
    /\ UNCHANGED <<mode, cand, attempt, text, usage, retry_count, fallback_used,
                   final_model_id, job, database, browser>>

ProviderEnds ==
    /\ Listening
    /\ pc' = "settle"
    /\ final_model_id' = Model
    /\ UNCHANGED <<mode, sending, attempts, text, usage, finish_reason, status,
                   retry_count, fallback_used, job, database, browser>>

\* What the handler of ProviderError decides.  (Each definition named
\* X_Something is X with a plausible bug: the properties are tried against it.)
MayRetry_AfterOutput(kind) == kind \in RETRYABLE_KINDS /\ attempt < MaxRetries
MayRetry(kind) ==
    text = <<>> /\ kind \in RETRYABLE_KINDS /\ attempt < MaxRetries

MayFallBack_AfterOutput(kind) ==
    ~MayRetry(kind) /\ kind \in FALLBACK_ELIGIBLE_KINDS /\ cand < Len(candidate_ids)
MayFallBack_NotToLast(kind) ==
    /\ text = <<>> /\ ~MayRetry(kind)
    /\ kind \in FALLBACK_ELIGIBLE_KINDS /\ cand + 1 < Len(candidate_ids)
MayFallBack(kind) ==
    /\ text = <<>> /\ ~MayRetry(kind)
    /\ kind \in FALLBACK_ELIGIBLE_KINDS /\ cand < Len(candidate_ids)

Retry ==
    /\ attempt' = attempt + 1
    /\ retry_count' = retry_count + 1
    /\ pc' = "sleeping"
    /\ UNCHANGED <<sending, cand, stage, usage, finish_reason, status,
                   fallback_used, final_model_id>>

FallBack_Unrecorded ==
    /\ cand' = cand + 1
    /\ pc' = "candidate"
    /\ UNCHANGED <<sending, attempt, stage, account>>
FallBack ==
    /\ fallback_used' = TRUE
    /\ cand' = cand + 1
    /\ pc' = "candidate"
    /\ UNCHANGED <<sending, attempt, stage, usage, finish_reason, status,
                   retry_count, final_model_id>>

GiveUp(kind) ==
    /\ Yield(Error(kind), "settle")
    /\ final_model_id' = Model
    /\ UNCHANGED <<attempts, usage, finish_reason, status, retry_count, fallback_used>>

HandleFailure(kind) ==
    /\ \/ MayRetry(kind) /\ Retry
       \/ MayFallBack(kind) /\ FallBack
       \/ ~MayRetry(kind) /\ ~MayFallBack(kind) /\ GiveUp(kind)
    /\ UNCHANGED <<mode, text, job, database, browser>>

ProviderFails(kind) == Listening /\ HandleFailure(kind)

\* asyncio.timeout expires while the attempt awaits the provider.
TimerExpires_Never == FALSE
TimerExpires == Listening /\ HandleFailure("timeout")

Wake ==
    /\ pc = "sleeping"
    /\ pc' = "streaming"
    /\ stage' = "open"
    /\ UNCHANGED <<mode, sending, cand, attempt, text, account, job, database, browser>>

-----------------------------------------------------------------------------
(* Storing the reply.  The two inserts of a job become visible together,   *)
(* when it commits.                                                        *)

TurnJob(st, protect) ==
    [step |-> "acquire", shielded |-> protect,
     message |-> [text |-> text, model_id |-> final_model_id, status |-> st],
     record |-> [provider |-> ProviderOf[final_model_id],
                 requested_model_id |-> Requested,
                 final_model_id |-> final_model_id,
                 tokens |-> usage, finish_reason |-> finish_reason,
                 retry_count |-> retry_count, fallback_used |-> fallback_used]]

CannedJob ==
    [step |-> "acquire", shielded |-> FALSE, record |-> NoRecord,
     message |-> [text |-> <<Canned>>, model_id |-> Requested, status |-> "complete"]]

\* The generator leaves its loop: it stores what it has, or has nothing to store.
Settle ==
    /\ pc = "settle" /\ Idle
    /\ CASE mode = "no_evidence" -> pc' = "saving" /\ job' = CannedJob
         [] mode # "no_evidence" /\ text # <<>> ->
              pc' = "saving" /\ job' = TurnJob(status, FALSE)
         [] OTHER -> pc' = "returned" /\ job' = job
    /\ UNCHANGED <<mode, sending, attempts, text, account, database, browser>>

SaveGoesTo(step) == job' = [job EXCEPT !.step = step]

Acquire ==
    /\ job.step = "acquire"
    /\ SaveGoesTo("message")
    /\ UNCHANGED <<mode, generator, database, browser>>

InsertMessage_Committed ==
    /\ job.step = "message"
    /\ SaveGoesTo(IF job.record = NoRecord THEN "commit" ELSE "usage")
    /\ messages' = Append(messages, job.message)
    /\ UNCHANGED <<mode, generator, usage_records, browser>>
InsertMessage ==
    /\ job.step = "message"
    /\ SaveGoesTo(IF job.record = NoRecord THEN "commit" ELSE "usage")
    /\ UNCHANGED <<mode, generator, database, browser>>

InsertUsage ==
    /\ job.step = "usage"
    /\ SaveGoesTo("commit")
    /\ UNCHANGED <<mode, generator, database, browser>>

\* A shielded job runs in a task of its own; the generator has already ended.
SaveEnds(outcome) ==
    /\ job' = NoJob
    /\ pc' = IF job.shielded THEN pc ELSE outcome

\* The database has executed COMMIT.  If its answer is lost, to a cancellation
\* or a broken connection, this is the step and only the response differs.
Commit ==
    /\ job.step = "commit"
    /\ messages' = Append(messages, job.message)
    /\ usage_records' = IF job.record = NoRecord THEN usage_records
                        ELSE Append(usage_records, job.record)
    /\ SaveEnds("returned")
    /\ UNCHANGED <<mode, sending, attempts, text, account, browser>>

\* The database refuses or the connection breaks: the transaction rolls back.
SaveFails ==
    /\ job # NoJob
    /\ SaveEnds("raised")
    /\ UNCHANGED <<mode, sending, attempts, text, account, database, browser>>

-----------------------------------------------------------------------------
(* The response, the browser, and what goes wrong around the generator.    *)

\* send() returns; it drops the event if the browser has disconnected.
Deliver ==
    /\ ~Idle
    /\ sending' = NoEvent
    /\ IF client = "reading" /\ sending.type = "text"
         THEN seen' = Append(seen, sending.by)
         ELSE seen' = seen
    /\ IF client = "reading" /\ sending.type # "text"
         THEN told' = told \cup {sending}
         ELSE told' = told
    /\ UNCHANGED <<mode, pc, attempts, text, account, job, database, client>>

\* Stop, a closed tab, an unmounted Chat component, a lost network.
Leave ==
    /\ pc \in Running
    /\ client = "reading"
    /\ client' = "gone"
    /\ UNCHANGED <<mode, generator, job, database, seen, told>>

CancelPoints_AfterReturn == {"streaming", "sleeping", "returned"}
CancelPoints == {"streaming", "sleeping"}

CancelStatus_AsReported == status
CancelStatus == "interrupted"

\* The response's cancel scope reaches an await of the generator.
CancelAwaiting ==
    /\ client = "gone" /\ Idle /\ pc \in CancelPoints
    /\ pc' = "cancelled"
    /\ job' = IF text # <<>> THEN TurnJob(CancelStatus, TRUE) ELSE job
    /\ UNCHANGED <<mode, sending, attempts, text, account, database, browser>>

\* It reaches the final write, which no shield protects.
CancelSaving ==
    /\ client = "gone" /\ pc = "saving"
    /\ pc' = "cancelled"
    /\ job' = NoJob
    /\ UNCHANGED <<mode, sending, attempts, text, account, database, browser>>

\* It, or the timer of the attempt, finds the response task in send().
UnderTimer == pc = "streaming" /\ sending.type # "fallback"

AbandonSending ==
    /\ ~Idle
    /\ client = "gone" \/ UnderTimer
    /\ pc' = "abandoned"
    /\ sending' = NoEvent
    /\ UNCHANGED <<mode, attempts, text, account, job, database, browser>>

\* The deadline of an attempt is fixed when it starts, and passes whether the
\* attempt awaits the provider or the browser.
TimeIsUp == TimerExpires \/ (UnderTimer /\ AbandonSending)

\* The server process dies; the database keeps what was committed.
Crash ==
    /\ ~Over
    /\ pc' = "crashed"
    /\ sending' = NoEvent
    /\ job' = NoJob
    /\ UNCHANGED <<mode, attempts, text, account, database, browser>>

Finished == Over /\ UNCHANGED vars

Next ==
    \/ Begin \/ SendCanned \/ OpenCandidate
    \/ ProviderText \/ ProviderUsage \/ ProviderDone \/ ProviderEnds
    \/ \E kind \in ProviderErrorKind : ProviderFails(kind)
    \/ TimerExpires \/ Wake \/ Settle
    \/ Acquire \/ InsertMessage \/ InsertUsage \/ Commit \/ SaveFails
    \/ Deliver \/ Leave
    \/ CancelAwaiting \/ CancelSaving \/ AbandonSending
    \/ Crash \/ Finished

\* The event loop runs what is ready, timers fire, the database answers and
\* a disconnect is noticed.  Nothing is assumed of the provider, and nobody
\* has to leave, fail or crash.
Fairness ==
    /\ WF_vars(Begin) /\ WF_vars(SendCanned) /\ WF_vars(OpenCandidate)
    /\ WF_vars(TimeIsUp) /\ WF_vars(Wake) /\ WF_vars(Settle)
    /\ WF_vars(Acquire) /\ WF_vars(InsertMessage) /\ WF_vars(InsertUsage)
    /\ WF_vars(Commit)
    /\ WF_vars(Deliver)
    /\ WF_vars(CancelAwaiting \/ CancelSaving \/ AbandonSending)

Spec == Init /\ [][Next]_vars
FairSpec == Spec /\ Fairness

-----------------------------------------------------------------------------
(* Properties.                                                             *)

TypeOK ==
    /\ mode \in {"plain", "grounded", "no_evidence"}
    /\ pc \in Running \cup Ended
    /\ sending \in Event \cup {NoEvent}
    /\ cand \in 1..Len(candidate_ids)
    /\ attempt \in 0..MaxRetries
    /\ stage \in {"open", "metered", "closed"}
    /\ text \in Seq(Author)
    /\ usage \in Author \cup {Nobody}
    /\ finish_reason \in Author \cup {Nobody}
    /\ status \in Status
    /\ retry_count \in Nat
    /\ fallback_used \in BOOLEAN
    /\ final_model_id \in Models
    /\ job \in Job \cup {NoJob}
    /\ messages \in Seq(Message)
    /\ usage_records \in Seq(UsageRecord)
    /\ client \in {"reading", "gone"}
    /\ seen \in Seq(Author \cup {Canned})
    /\ told \subseteq Event

AllBy(s, a) == \A i \in 1..Len(s) : s[i] = a

\* A reply is never spliced: the text the browser received, the text that is
\* accumulated and the text that is stored come from one attempt of one model,
\* however many attempts and candidates the turn went through.
OneAuthor ==
    \E a \in Author \cup {Canned} :
        /\ AllBy(seen, a) /\ AllBy(text, a)
        /\ \A i \in 1..Len(messages) : AllBy(messages[i].text, a)

\* The rule DESIGN.md calls the one it cannot compromise on: once a delta has
\* been accumulated no step retries, falls back or opens another candidate.
NoSecondTry ==
    [][text # <<>> => UNCHANGED <<cand, attempt, retry_count, fallback_used>>]_vars

\* The stored reply contains everything the browser was shown, in order,
\* whichever of the ways to end a turn stored it.
StoredCoversSeen ==
    \A i \in 1..Len(messages) :
        /\ Len(seen) <= Len(messages[i].text)
        /\ seen = SubSeq(messages[i].text, 1, Len(seen))

\* A turn stores at most one reply, although a cancellation may arrive at any
\* await and has a write of its own.
AtMostOneReply == Len(messages) <= 1 /\ Len(usage_records) <= 1

\* A provider's reply and its usage record are stored together or not at all,
\* through database failures, cancellations and crashes between the inserts;
\* the canned reply has no usage record.
ReplyIsAccounted ==
    Len(usage_records) = IF mode = "no_evidence" THEN 0 ELSE Len(messages)

\* The record says fallback_used exactly when another candidate than the
\* requested one wrote the stored text.
FallbackIsRecorded ==
    \A i \in 1..Len(usage_records) :
        usage_records[i].fallback_used <=> messages[i].text[1].candidate > 1

\* The browser is told of the fallback before it sees text of that model.
FallbackIsAnnounced ==
    \A i \in 1..Len(seen) :
        seen[i].candidate > 1 => FallbackTo(candidate_ids[seen[i].candidate]) \in told

\* No answer of another model than the requested one passes for that model's:
\* the screen is told of the fallback before its text, and fallback_used is set
\* in its usage record (chat.py:255-259, 295, 300).  The model such a record
\* names may still be the requested one (StoredModelIsAuthor).
FallbackIsTold == FallbackIsRecorded /\ FallbackIsAnnounced

\* A failure the turn could still have retried or handed to a fallback is
\* never shown in place of an answer.
ErrorsAreExhausted ==
    \A e \in told : e.type = "error" /\ text = <<>> =>
        /\ e.kind \in RETRYABLE_KINDS => attempt = MaxRetries
        /\ e.kind \in FALLBACK_ELIGIBLE_KINDS => cand = Len(candidate_ids)

\* Retries are bounded per candidate and for the whole turn.
RetriesAreBounded ==
    /\ retry_count <= cand * MaxRetries
    /\ retry_count >= attempt

\* What a cancelled turn still stores is marked interrupted, even if the
\* provider had already reported the end of its answer.
CancelledIsInterrupted ==
    [][pc = "cancelled" => \A i \in DOMAIN messages' \ DOMAIN messages :
                              messages'[i].status = "interrupted"]_vars

\* Every turn ends, and with it the write of its reply, whatever the provider
\* and the browser do.
TurnEnds == <>Over

KeptOf(rows) ==
    [i \in 1..Len(rows) |-> [text |-> rows[i].text, status |-> rows[i].status]]

\* stream_reply keeps the promise of a turn: the abstract TurnPromise, with the
\* browser's text as what is heard and the message table as what is kept.
Promise == INSTANCE TurnPromise WITH
    Writers <- Author \cup {Canned},
    MaxPieces <- MaxDeltas,
    heard <- seen,
    kept <- KeptOf(messages),
    over <- pc \in Ended

KeepsPromise == Promise!Spec

-----------------------------------------------------------------------------
(* What the documentation says and the code does not do.                   *)

\* DESIGN.md, Fallback, and 004_messages.sql: the stored model is the one that
\* generated the text.
StoredModelIsAuthor ==
    \A i \in 1..Len(messages) :
        mode # "no_evidence" =>
            messages[i].model_id = candidate_ids[messages[i].text[1].candidate]

\* DESIGN.md, Cancellation: the shield also covers a provider's failure after
\* partial output, so a disconnect cannot lose that partial reply.
FailureIsShielded ==
    pc = "cancelled" /\ (\E e \in told : e.type = "error") /\ text # <<>> =>
        job # NoJob \/ messages # <<>>
=============================================================================
