------------------------------ MODULE Adapters ------------------------------
(***************************************************************************)
(* The stream() generators of AnthropicAdapter, OpenAIAdapter and          *)
(* GeminiAdapter: each reads the typed events of its SDK and yields the    *)
(* application's StreamEvents.  A behaviour is one call of one adapter.    *)
(*                                                                         *)
(* The provider and its SDK are the environment.  It emits its events in   *)
(* the order docs/PROVIDER_NOTES.md gives for it, raises any exception at  *)
(* any point, or simply stops.  What the provider meant (made, declared,   *)
(* tokens) is kept apart from what the adapter remembers (book, reason,    *)
(* usage, saw_function_call): the properties compare the two through the   *)
(* events yielded.                                                         *)
(*                                                                         *)
(* The argument text of a tool call is a sequence of fragments, and is     *)
(* JSON when it is whole.  Text is not told apart.                         *)
(***************************************************************************)
EXTENDS Integers, Sequences

CONSTANTS
    Names,        \* tool names
    MaxCalls,     \* bound: tool calls of a stream
    MaxSize,      \* bound: fragments of the arguments of a call
    MaxText,      \* bound: text deltas
    MaxReports    \* bound: reports of usage

ASSUME AdaptersAssumption ==
    /\ MaxCalls \in Nat
    /\ MaxSize \in Nat
    /\ MaxText \in Nat
    /\ MaxReports \in Nat

Adapter == {"anthropic", "openai", "gemini"}

FinishReason == {"stop", "length", "tool_use", "content_filter", "error", "unknown"}

\* How a provider says its turn ended; "other" is what no table lists.
Outcome == {"natural", "tool", "length", "filter", "failed", "other"}

Calls == 1..MaxCalls

Fragment == [call : Calls, part : 1..MaxSize]
Arguments(i, n) == [k \in 1..n |-> [call |-> i, part |-> k]]

\* The provider's id of a call, OpenAI's id of the item that carries it, and a
\* tool name standing in for an id.
CallId(i) == [kind |-> "call", of |-> i]
ItemId(i) == [kind |-> "item", of |-> i]
NameId(n) == [kind |-> "name", of |-> n]
Id == [kind : {"call", "item"}, of : Calls] \cup [kind : {"name"}, of : Names]

Call == [name : Names, size : 0..MaxSize, sent : 0..MaxSize,
         id : {"given", "absent"}, state : {"arriving", "stopped"}]
NoCall == [name |-> "none"]
Entry == [id : Id, name : Names, buffer : Seq(Fragment)]
NoEntry == [id |-> "none"]

-----------------------------------------------------------------------------
VARIABLES
    adapter,            \* the adapter whose stream() runs
    upstream,           \* the SDK's stream: "open", "closing" or "over"
    made,               \* the tool calls the provider makes
    declared,           \* the outcome it has declared last, or "none"
    tokens,             \* the output tokens it has reported last
    texts,              \* the number of text deltas it has sent
    book,               \* block_id, block_name and json_buffer; call_id_by_item
                        \* and name_by_item
    reason,             \* stop_reason, raw_finish_reason, or "none"
    usage,              \* Gemini's last usage_metadata; 0 is None
    saw_function_call,
    out,                \* the StreamEvents yielded
    cause,              \* the exception or error code behind an ErrorEvent
    pc                  \* "streaming" or "returned"

provider == <<made, declared, tokens, texts>>
memory == <<book, reason, usage, saw_function_call>>
vars == <<adapter, upstream, provider, memory, out, cause, pc>>

Text == [type |-> "text"]
ToolStart(id, name) == [type |-> "tool_start", id |-> id, name |-> name]
ToolDelta(id, fragment) == [type |-> "tool_delta", id |-> id, fragment |-> fragment]
ToolComplete(id, name, input) ==
    [type |-> "tool_complete", id |-> id, name |-> name, input |-> input]
Usage(n) == [type |-> "usage", tokens |-> n]
Done(r) == [type |-> "done", reason |-> r]
Error(kind) == [type |-> "error", kind |-> kind]

Init ==
    /\ adapter \in Adapter
    /\ upstream = "open"
    /\ made = [i \in Calls |-> NoCall]
    /\ declared = "none" /\ tokens = 0 /\ texts = 0
    /\ book = [i \in Calls |-> NoEntry]
    /\ reason = "none" /\ usage = 0 /\ saw_function_call = FALSE
    /\ out = <<>>
    /\ cause = "none"
    /\ pc = "streaming"

\* The caller leaves stream() at its first ErrorEvent.
Streaming(a) == adapter = a /\ pc = "streaming"
Open(a) == Streaming(a) /\ upstream = "open"

Yield(events) == out' = out \o events

Begun == {i \in Calls : made[i] # NoCall}
Unfinished == {i \in Begun : made[i].state = "arriving"}

-----------------------------------------------------------------------------
(* Failures: from an SDK's exception to a ProviderErrorKind.               *)

\* HTTP 401 and 403, 429, 413, 408, 504, the bad requests (400, 404, 409, 422),
\* the other 5xx and the other 4xx; then what is no answer of the server.
Exceptions ==
    {"credentials", "rate_limited", "too_large", "request_timeout",
     "gateway_timeout", "invalid", "server", "client_other", "sdk_timeout",
     "connection", "other"}

\* (Each definition named X_Something is X with a plausible bug: the properties
\* are tried against it.)
AnthropicKind_TooLargeUnlisted(e) ==
    CASE e = "credentials" -> "auth"
      [] e = "rate_limited" -> "rate_limit"
      [] e \in {"sdk_timeout", "gateway_timeout"} -> "timeout"
      [] e = "invalid" -> "bad_request"
      [] e = "other" -> "unknown"
      [] OTHER -> "server_error"
AnthropicKind(e) ==
    CASE e = "credentials" -> "auth"
      [] e = "rate_limited" -> "rate_limit"
      [] e = "too_large" -> "context_length"
      [] e \in {"sdk_timeout", "gateway_timeout"} -> "timeout"
      [] e = "invalid" -> "bad_request"
      [] e = "other" -> "unknown"
      [] OTHER -> "server_error"

OpenAIKind(e) ==
    CASE e = "credentials" -> "auth"
      [] e = "rate_limited" -> "rate_limit"
      [] e = "sdk_timeout" -> "timeout"
      [] e = "invalid" -> "bad_request"
      [] e = "other" -> "unknown"
      [] OTHER -> "server_error"

GeminiKind(e) ==
    CASE e = "credentials" -> "auth"
      [] e = "rate_limited" -> "rate_limit"
      [] e = "too_large" -> "context_length"
      [] e \in {"request_timeout", "gateway_timeout"} -> "timeout"
      [] e = "server" -> "server_error"
      [] e \in {"invalid", "client_other"} -> "bad_request"
      [] OTHER -> "unknown"

KindOf(e) ==
    CASE adapter = "anthropic" -> AnthropicKind(e)
      [] adapter = "openai" -> OpenAIKind(e)
      [] adapter = "gemini" -> GeminiKind(e)

\* The code of OpenAI's own error event: absent, or a text that contains ...
ErrorCodes == {"no_code", "code_rate_limit", "code_moderation", "code_context", "code_other"}

CodeKind(c) ==
    CASE c = "no_code" -> "unknown"
      [] c = "code_rate_limit" -> "rate_limit"
      [] c = "code_moderation" -> "content_filter"
      [] c = "code_context" -> "context_length"
      [] c = "code_other" -> "server_error"

Fails(c, kind) ==
    /\ Yield(<<Error(kind)>>)
    /\ cause' = c
    /\ pc' = "returned"

SdkRaises(e) ==
    /\ pc = "streaming"
    /\ Fails(e, KindOf(e))
    /\ UNCHANGED <<adapter, upstream, provider, memory>>

\* The SDK's stream is exhausted, at its proper end or before.
SdkEnds ==
    /\ Streaming("anthropic") \/ Streaming("openai")
    /\ pc' = "returned"
    /\ UNCHANGED <<adapter, upstream, provider, memory, out, cause>>

-----------------------------------------------------------------------------
(* Content: text, and the three ways a tool call arrives.                  *)

TextDelta ==
    /\ pc = "streaming" /\ upstream = "open" /\ texts < MaxText
    /\ texts' = texts + 1
    /\ Yield(<<Text>>)
    /\ UNCHANGED <<adapter, upstream, made, declared, tokens, memory, cause, pc>>

\* A provider numbers the calls of a stream as it begins them.
Begins(i, call) ==
    /\ i \notin Begun /\ 1..(i - 1) \subseteq Begun
    /\ made' = [made EXCEPT ![i] = call]

Sends(i) ==
    /\ i \in Unfinished /\ made[i].sent < made[i].size
    /\ made' = [made EXCEPT ![i].sent = @ + 1]

Stops(i) ==
    /\ i \in Unfinished
    /\ made' = [made EXCEPT ![i].state = "stopped"]

NewCalls(id) ==
    [name : Names, size : 0..MaxSize, sent : {0}, id : {id}, state : {"arriving"}]

NextFragment(i) == [call |-> i, part |-> made[i].sent + 1]
Sent(i) == Arguments(i, made[i].sent)
Whole(i) == Arguments(i, made[i].size)

\* json.loads(raw) if raw else {}
Parses_Anything(raw) == TRUE
Parses(raw) == raw = <<>> \/ \E i \in Begun : raw = Whole(i)

Completes(raw, event) ==
    IF Parses(raw)
      THEN Yield(<<event>>) /\ UNCHANGED <<cause, pc>>
      ELSE Fails("other", KindOf("other"))

Remember(i, entry) == book' = [book EXCEPT ![i] = entry]

\* Anthropic: content_block_start, content_block_delta and content_block_stop
\* of a tool_use block, which keep its index.
ToolBlockStart(i, call) ==
    /\ Open("anthropic") /\ Begins(i, call)
    /\ Remember(i, [id |-> CallId(i), name |-> call.name, buffer |-> <<>>])
    /\ Yield(<<ToolStart(CallId(i), call.name)>>)
    /\ UNCHANGED <<adapter, upstream, declared, tokens, texts, reason, usage,
                   saw_function_call, cause, pc>>

InputJsonDelta(i) ==
    /\ Open("anthropic") /\ Sends(i)
    /\ book' = [book EXCEPT ![i].buffer = Append(@, NextFragment(i))]
    /\ Yield(<<ToolDelta(book[i].id, NextFragment(i))>>)
    /\ UNCHANGED <<adapter, upstream, declared, tokens, texts, reason, usage,
                   saw_function_call, cause, pc>>

ContentBlockStop(i) ==
    /\ Open("anthropic") /\ Stops(i)
    /\ Completes(book[i].buffer,
                 ToolComplete(book[i].id, book[i].name, book[i].buffer))
    /\ UNCHANGED <<adapter, upstream, declared, tokens, texts, memory>>

\* OpenAI: the events after output_item.added name the item, not the call, and
\* the last of them carries the whole text again.
OutputItemAdded(i, call) ==
    /\ Open("openai") /\ Begins(i, call)
    /\ Remember(i, [id |-> CallId(i), name |-> call.name, buffer |-> <<>>])
    /\ Yield(<<ToolStart(CallId(i), call.name)>>)
    /\ UNCHANGED <<adapter, upstream, declared, tokens, texts, reason, usage,
                   saw_function_call, cause, pc>>

CallIdOf_TheItem(i) == ItemId(i)
CallIdOf(i) == IF book[i] = NoEntry THEN ItemId(i) ELSE book[i].id

ArgumentsDelta(i) ==
    /\ Open("openai") /\ Sends(i)
    /\ Yield(<<ToolDelta(CallIdOf(i), NextFragment(i))>>)
    /\ UNCHANGED <<adapter, upstream, declared, tokens, texts, memory, cause, pc>>

ArgumentsDone(i) ==
    /\ Open("openai") /\ Stops(i)
    /\ Completes(Sent(i), ToolComplete(CallIdOf(i), book[i].name, Sent(i)))
    /\ UNCHANGED <<adapter, upstream, declared, tokens, texts, memory>>

-----------------------------------------------------------------------------
(* How a stream ends.  A call that is still being sent was cut.            *)

Declares(o) ==
    /\ o \in {"natural", "tool"} => Unfinished = {}
    /\ declared' = o

Reports == tokens < MaxReports /\ tokens' = tokens + 1

AnthropicFinish(o) ==
    CASE o = "natural" -> "stop"
      [] o = "length" -> "length"
      [] o = "tool" -> "tool_use"
      [] o = "filter" -> "content_filter"
      [] OTHER -> "unknown"

\* message_delta: one of them declares the outcome.
StopReason_OfThisEvent(o) == o
StopReason(o) == IF o = "none" THEN reason ELSE o

MessageDelta(o) ==
    /\ Streaming("anthropic") /\ upstream # "over" /\ Reports
    /\ upstream' = "closing"
    /\ \/ o = "none" /\ UNCHANGED declared
       \/ declared = "none" /\ o \in Outcome \ {"failed"} /\ Declares(o)
    /\ o = "tool" => Begun # {}
    /\ o = "natural" => Begun = {}
    /\ reason' = StopReason(o)
    /\ Yield(<<Usage(tokens')>>)
    /\ UNCHANGED <<adapter, made, texts, book, usage, saw_function_call, cause, pc>>

MessageStop ==
    /\ Streaming("anthropic") /\ upstream = "closing"
    /\ upstream' = "over"
    /\ Yield(<<Done(AnthropicFinish(reason))>>)
    /\ UNCHANGED <<adapter, provider, memory, cause, pc>>

OpenAIFinish(o) ==
    CASE o = "failed" -> "error"
      [] o = "length" -> "length"
      [] o = "filter" -> "content_filter"
      [] o = "other" -> "unknown"
      [] o = "natural" /\ Begun # {} -> "tool_use"
      [] o = "natural" /\ Begun = {} -> "stop"

\* response.completed, response.failed and response.incomplete; the response may
\* come without usage, which is yielded as an empty one.
ResponseEnds(o) ==
    /\ Open("openai")
    /\ Reports \/ UNCHANGED tokens
    /\ o \in Outcome \ {"tool"} /\ Declares(o)
    /\ upstream' = "over"
    /\ Yield(<<Usage(tokens'), Done(OpenAIFinish(o))>>)
    /\ UNCHANGED <<adapter, made, texts, memory, cause, pc>>

StreamError(c) ==
    /\ Open("openai")
    /\ Fails(c, CodeKind(c))
    /\ UNCHANGED <<adapter, upstream, provider, memory>>

-----------------------------------------------------------------------------
(* Gemini: chunks, each with usage, a finish reason and parts, or without. *)

GeminiFinish_Unlisted(o) ==
    CASE saw_function_call -> "tool_use"
      [] ~saw_function_call /\ o = "natural" -> "stop"
      [] ~saw_function_call /\ o = "length" -> "length"
      [] ~saw_function_call /\ o = "filter" -> "content_filter"
      [] OTHER -> o
GeminiFinish(o) ==
    CASE saw_function_call -> "tool_use"
      [] ~saw_function_call /\ o = "natural" -> "stop"
      [] ~saw_function_call /\ o = "length" -> "length"
      [] ~saw_function_call /\ o = "filter" -> "content_filter"
      [] OTHER -> "unknown"

UsageSeen_First(reported) == IF usage = 0 THEN reported ELSE usage
UsageSeen(reported) == reported

CallIdOrName_Name(i, call) == NameId(call.name)
CallIdOrName(i, call) == IF call.id = "given" THEN CallId(i) ELSE NameId(call.name)

\* A chunk with a part that is a call: its arguments are a parsed object.
FunctionCallPart(i, call) ==
    /\ Open("gemini")
    /\ Begins(i, [call EXCEPT !.sent = call.size, !.state = "stopped"])
    /\ saw_function_call' = TRUE
    /\ Yield(<<ToolStart(CallIdOrName(i, call), call.name),
               ToolComplete(CallIdOrName(i, call), call.name, Arguments(i, call.size))>>)
    /\ UNCHANGED <<adapter, upstream, declared, tokens, texts, book, reason,
                   usage, cause, pc>>

UsageChunk_Yielded ==
    /\ Streaming("gemini") /\ Reports
    /\ usage' = tokens'
    /\ Yield(<<Usage(tokens')>>)
    /\ UNCHANGED <<adapter, upstream, made, declared, texts, book, reason,
                   saw_function_call, cause, pc>>
UsageChunk ==
    /\ Streaming("gemini") /\ Reports
    /\ usage' = UsageSeen(tokens')
    /\ UNCHANGED <<adapter, upstream, made, declared, texts, book, reason,
                   saw_function_call, out, cause, pc>>

FinishChunk(o) ==
    /\ Open("gemini")
    /\ o \in Outcome \ {"tool", "failed"} /\ Declares(o)
    /\ reason' = o
    /\ upstream' = "closing"
    /\ UNCHANGED <<adapter, made, tokens, texts, book, usage, saw_function_call,
                   out, cause, pc>>

EndOfChunks ==
    /\ Streaming("gemini")
    /\ Yield((IF usage = 0 THEN <<>> ELSE <<Usage(usage)>>)
             \o <<Done(GeminiFinish(reason))>>)
    /\ pc' = "returned"
    /\ UNCHANGED <<adapter, upstream, provider, memory, cause>>

Finished == pc = "returned" /\ UNCHANGED vars

Next ==
    \/ TextDelta
    \/ \E i \in Calls :
         \/ \E call \in NewCalls("given") : ToolBlockStart(i, call) \/ OutputItemAdded(i, call)
         \/ \E call \in NewCalls("given") \cup NewCalls("absent") : FunctionCallPart(i, call)
         \/ InputJsonDelta(i) \/ ContentBlockStop(i)
         \/ ArgumentsDelta(i) \/ ArgumentsDone(i)
    \/ \E o \in Outcome \cup {"none"} : MessageDelta(o)
    \/ \E o \in Outcome : ResponseEnds(o) \/ FinishChunk(o)
    \/ MessageStop \/ UsageChunk \/ EndOfChunks
    \/ \E e \in Exceptions : SdkRaises(e)
    \/ \E c \in ErrorCodes : StreamError(c)
    \/ SdkEnds \/ Finished

Spec == Init /\ [][Next]_vars

-----------------------------------------------------------------------------
(* Properties.                                                             *)

Event ==
    {Text}
        \cup [type : {"tool_start"}, id : Id, name : Names]
        \cup [type : {"tool_delta"}, id : Id, fragment : Fragment]
        \cup [type : {"tool_complete"}, id : Id, name : Names, input : Seq(Fragment)]
        \cup [type : {"usage"}, tokens : 0..MaxReports]
        \cup [type : {"done"}, reason : FinishReason]
        \cup [type : {"error"}, kind : {"auth", "rate_limit", "context_length",
              "content_filter", "timeout", "server_error", "bad_request", "unknown"}]

\* Every event yielded is one of the contract's: in particular a reason no table
\* lists has become UNKNOWN.
TypeOK ==
    /\ adapter \in Adapter
    /\ upstream \in {"open", "closing", "over"}
    /\ made \in [Calls -> Call \cup {NoCall}]
    /\ declared \in Outcome \cup {"none"}
    /\ tokens \in 0..MaxReports
    /\ texts \in 0..MaxText
    /\ book \in [Calls -> Entry \cup {NoEntry}]
    /\ reason \in Outcome \cup {"none"}
    /\ usage \in 0..MaxReports
    /\ saw_function_call \in BOOLEAN
    /\ out \in Seq(Event)
    /\ cause \in Exceptions \cup ErrorCodes \cup {"none"}
    /\ pc \in {"streaming", "returned"}

Positions(type) == {k \in 1..Len(out) : out[k].type = type}

\* The id by which a call is reported: only Gemini can lack one.
ReportedId(i) == IF made[i].id = "given" THEN CallId(i) ELSE NameId(made[i].name)

\* A completed tool call is a call the provider made, under its own id and name,
\* announced before, with all of its arguments; one that was cut before its
\* first fragment completes without any, and one cut later never completes.
CallsAreReal ==
    \A k \in Positions("tool_complete") :
        /\ \E j \in 1..(k - 1) : out[j] = ToolStart(out[k].id, out[k].name)
        /\ \E i \in Begun :
             /\ out[k].id = ReportedId(i) /\ out[k].name = made[i].name
             /\ out[k].input = Sent(i) /\ out[k].input \in {<<>>, Whole(i)}

\* However the fragments of concurrent calls are interleaved, those that are
\* streamed under one id are the argument text of that call, in order.
FragmentsReachTheirCall ==
    \A i \in Begun : adapter # "gemini" =>
        LET deltas == {k \in Positions("tool_delta") : out[k].id = CallId(i)}
        IN  /\ {out[k].fragment : k \in deltas} = {Sent(i)[p] : p \in 1..made[i].sent}
            /\ \A j, k \in deltas : j < k => out[j].fragment.part < out[k].fragment.part

\* No two calls complete under one id, unless Gemini gave no id and the name of
\* the tool stands in for it.
IdsTellCallsApart ==
    \A j, k \in Positions("tool_complete") :
        j # k /\ out[j].id = out[k].id => \E i \in Begun : made[i].id = "absent"

\* Concurrent tool calls are never mixed up: neither their ids, nor their names,
\* nor the fragments of their arguments, in any order of the provider's events.
ToolCallsAreMatched ==
    CallsAreReal /\ FragmentsReachTheirCall /\ IdsTellCallsApart

Expected(o) ==
    CASE o = "natural" -> IF Begun = {} THEN "stop" ELSE "tool_use"
      [] o = "tool" -> "tool_use"
      [] o = "length" -> "length"
      [] o = "filter" -> "content_filter"
      [] o = "failed" -> "error"
      [] OTHER -> "unknown"

\* The reason a stream is done is the outcome its provider declared, whenever in
\* the stream it did so.  Gemini's adapter calls every turn with a tool call
\* TOOL_USE, one that was cut or filtered too.
ReasonIsDeclared ==
    \A k \in Positions("done") :
        IF adapter = "gemini" /\ Begun # {}
          THEN out[k].reason = "tool_use"
          ELSE out[k].reason = Expected(declared)

\* When a stream is done, the usage the turn keeps (the last it was told) is the
\* provider's last cumulative count; without one, the provider reported none.
LastUsageIsFinal ==
    \A d \in Positions("done") :
        LET reports == {k \in Positions("usage") : k < d}
        IN  IF reports = {}
              THEN tokens = 0
              ELSE \E k \in reports :
                      out[k].tokens = tokens /\ \A j \in reports : j <= k

\* The turn repeats a request whose failure may pass, and only such a one, save
\* for what the adapters leave to their last case: OpenAI's 413 and the codes of
\* its error event, Anthropic's and OpenAI's unlisted 4xx.
MayPass == {"rate_limited", "server", "connection", "request_timeout",
            "gateway_timeout", "code_rate_limit"}
LeftOver == IF adapter = "openai" THEN {"too_large", "client_other", "code_other"}
                                  ELSE {"client_other"}
RepeatsOnlyWhatMayPass ==
    \A k \in Positions("error") :
        /\ out[k].kind \in {"rate_limit", "server_error"}
             => cause \in MayPass \cup LeftOver
        /\ cause \in {"rate_limited", "server", "code_rate_limit"}
             => out[k].kind \in {"rate_limit", "server_error"}

\* How a stream ended reaches the turn as it was: the reason it is done, and
\* whether the failure that ended it is worth repeating.
OutcomeIsReported == ReasonIsDeclared /\ RepeatsOnlyWhatMayPass

KindOfEvent(e) ==
    IF e.type \in {"usage", "done", "error"} THEN e.type ELSE "content"

\* Whatever its provider does, each adapter keeps to the stream a chat turn
\* relies on: content, then usage, then done, and silence after an error.
Common == INSTANCE ProviderStream WITH
    sent <- [k \in 1..Len(out) |-> KindOfEvent(out[k])]
KeepsToStream == Common!Spec
=============================================================================
