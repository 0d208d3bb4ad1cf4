--------------------------- MODULE AdaptersProofs ---------------------------
(***************************************************************************)
(* Theorems about the three adapters, for every number of tool calls,      *)
(* fragments, text deltas and reports of usage.                            *)
(***************************************************************************)
EXTENDS Adapters, SequenceTheorems, TLAPS

\* The fragments of a call, as many as it has sent, are a sequence of fragments.
LEMMA ArgumentsAreFragments ==
    ASSUME NEW i \in Calls, NEW n \in 0..MaxSize
    PROVE  Arguments(i, n) \in Seq(Fragment)
  <1>1. \A k \in 1..n : [call |-> i, part |-> k] \in Fragment
    BY AdaptersAssumption DEF Fragment
  <1> QED
    BY <1>1, AdaptersAssumption DEF Arguments

\* Whatever is raised, its kind is one of the contract's.
ErrorKind == {"auth", "rate_limit", "context_length", "content_filter", "timeout",
              "server_error", "bad_request", "unknown"}

LEMMA KindsOfErrors ==
    ASSUME adapter \in Adapter
    PROVE  /\ \A e \in Exceptions : KindOf(e) \in ErrorKind
           /\ \A c \in ErrorCodes : CodeKind(c) \in ErrorKind
  <1>1. \A e \in Exceptions : AnthropicKind(e) \in ErrorKind
    BY DEF Exceptions, AnthropicKind, ErrorKind
  <1>2. \A e \in Exceptions : OpenAIKind(e) \in ErrorKind
    BY DEF Exceptions, OpenAIKind, ErrorKind
  <1>3. \A e \in Exceptions : GeminiKind(e) \in ErrorKind
    BY DEF Exceptions, GeminiKind, ErrorKind
  <1>4. \A e \in Exceptions : KindOf(e) \in ErrorKind
    BY <1>1, <1>2, <1>3 DEF KindOf, Adapter
  <1>5. \A c \in ErrorCodes : CodeKind(c) \in ErrorKind
    BY DEF ErrorCodes, CodeKind, ErrorKind
  <1> QED
    BY <1>4, <1>5

LEMMA FinishReasons ==
    /\ \A o \in Outcome \cup {"none"} : AnthropicFinish(o) \in FinishReason
    /\ \A o \in Outcome \cup {"none"} : GeminiFinish(o) \in FinishReason
    /\ \A o \in Outcome \ {"tool"} : OpenAIFinish(o) \in FinishReason
  BY DEF Outcome, FinishReason, AnthropicFinish, GeminiFinish, OpenAIFinish

LEMMA EventsAreEvents ==
    /\ Text \in Event
    /\ \A id \in Id, n \in Names : ToolStart(id, n) \in Event
    /\ \A id \in Id, f \in Fragment : ToolDelta(id, f) \in Event
    /\ \A id \in Id, n \in Names, s \in Seq(Fragment) : ToolComplete(id, n, s) \in Event
    /\ \A n \in 0..MaxReports : Usage(n) \in Event
    /\ \A r \in FinishReason : Done(r) \in Event
    /\ \A k \in ErrorKind : Error(k) \in Event
  BY DEF Event, Text, ToolStart, ToolDelta, ToolComplete, Usage, Done, Error, ErrorKind

\* What the adapters of Anthropic and OpenAI remember of a call they remember
\* from its beginning: this is why their look-ups never miss.
Remembered ==
    adapter # "gemini" => \A i \in Calls : made[i] # NoCall => book[i] # NoEntry

TypeInv == TypeOK /\ Remembered

\* An entry, and a call, are told from their absence by what they carry.
LEMMA EntriesAndCalls ==
    /\ \A e \in Entry \cup {NoEntry} : e # NoEntry => e \in Entry
    /\ \A c \in Call \cup {NoCall} : c # NoCall => c \in Call
    /\ NoEntry \notin Entry /\ NoCall \notin Call
  BY DEF Entry, NoEntry, Call, NoCall

LEMMA TypeInit == Init => TypeInv
  <1> SUFFICES ASSUME Init PROVE TypeInv
    OBVIOUS
  <1>1. /\ tokens \in 0..MaxReports /\ texts \in 0..MaxText
        /\ usage \in 0..MaxReports
    BY AdaptersAssumption DEF Init
  <1>2. saw_function_call \in BOOLEAN
    BY Zenon DEF Init
  <1>3. /\ made \in [Calls -> Call \cup {NoCall}]
        /\ book \in [Calls -> Entry \cup {NoEntry}]
    BY DEF Init
  <1>4. /\ out \in Seq(Event)
        /\ adapter \in Adapter
        /\ upstream \in {"open", "closing", "over"}
        /\ declared \in Outcome \cup {"none"}
        /\ reason \in Outcome \cup {"none"}
        /\ cause \in Exceptions \cup ErrorCodes \cup {"none"}
        /\ pc \in {"streaming", "returned"}
    BY DEF Init
  <1>5. Remembered
    BY DEF Init, Remembered
  <1> QED
    BY <1>1, <1>2, <1>3, <1>4, <1>5 DEF TypeInv, TypeOK

LEMMA FailsType ==
    ASSUME TypeInv, NEW c \in Exceptions \cup ErrorCodes, NEW k \in ErrorKind,
           Fails(c, k)
    PROVE  /\ out' \in Seq(Event)
           /\ cause' \in Exceptions \cup ErrorCodes \cup {"none"}
           /\ pc' \in {"streaming", "returned"}
  BY EventsAreEvents DEF Fails, Yield, TypeInv, TypeOK

\* One event more, or two, and the stream is still one of events.
LEMMA YieldType ==
    ASSUME TypeOK, NEW a \in Event, NEW b \in Event,
           Yield(<<a>>) \/ Yield(<<a, b>>)
    PROVE  out' \in Seq(Event)
  <1>1. /\ out \in Seq(Event)
        /\ <<a>> \in Seq(Event) /\ <<a, b>> \in Seq(Event)
    BY DEF TypeOK
  <1>2. out' = out \o <<a>> \/ out' = out \o <<a, b>>
    BY DEF Yield
  <1>3. \A s \in Seq(Event), t \in Seq(Event) : s \o t \in Seq(Event)
    OBVIOUS
  <1> QED
    BY <1>1, <1>2, <1>3

LEMMA EmptyFirst == \A b : <<>> \o <<b>> = <<b>>
  <1>1. \A b : <<b>> \in Seq({b})
    OBVIOUS
  <1> QED
    BY <1>1, ConcatEmptySeq

\* What Gemini's adapter yields last.
LEMMA EndYields ==
    ASSUME EndOfChunks
    PROVE  \/ Yield(<<Done(GeminiFinish(reason))>>)
           \/ Yield(<<Usage(usage), Done(GeminiFinish(reason))>>)
  <1>2. CASE usage = 0
    BY <1>2, EmptyFirst DEF EndOfChunks, Yield
  <1>3. CASE usage # 0
    BY <1>3 DEF EndOfChunks, Yield
  <1> QED
    BY <1>2, <1>3

LEMMA TypeNext == TypeInv /\ [Next]_vars => TypeInv'
  <1> SUFFICES ASSUME TypeInv, [Next]_vars PROVE TypeInv'
    OBVIOUS
  <1> USE DEF TypeInv
  <1>1. CASE UNCHANGED vars
    BY <1>1 DEF vars, provider, memory, TypeOK, Remembered
  <1>2. CASE TextDelta
    <2>1. out' \in Seq(Event)
      BY <1>2, YieldType, EventsAreEvents DEF TextDelta
    <2>2. texts' \in 0..MaxText
      BY <1>2, AdaptersAssumption DEF TextDelta, TypeOK
    <2> QED
      BY <1>2, <2>1, <2>2 DEF TextDelta, memory, TypeOK, Remembered
  <1>3. ASSUME NEW i \in Calls, NEW call \in NewCalls("given"),
               ToolBlockStart(i, call) \/ OutputItemAdded(i, call)
        PROVE  TypeInv'
    <2>1. call \in Call /\ call.name \in Names
      BY AdaptersAssumption DEF NewCalls, Call
    <2>2. CallId(i) \in Id
      BY DEF CallId, Id
    <2> DEFINE entry == [id |-> CallId(i), name |-> call.name, buffer |-> <<>>]
    <2>3. entry \in Entry
      BY <2>1, <2>2 DEF Entry
    <2>4. /\ made' = [made EXCEPT ![i] = call]
          /\ book' = [book EXCEPT ![i] = entry]
          /\ Yield(<<ToolStart(CallId(i), call.name)>>)
          /\ UNCHANGED <<adapter, upstream, declared, tokens, texts, reason, usage,
                         saw_function_call, cause, pc>>
      BY <1>3 DEF ToolBlockStart, OutputItemAdded, Begins, Remember
    <2>5. out' \in Seq(Event)
      BY <2>1, <2>2, <2>4, YieldType, EventsAreEvents
    <2>6. /\ made' \in [Calls -> Call \cup {NoCall}]
          /\ book' \in [Calls -> Entry \cup {NoEntry}]
      BY <2>1, <2>3, <2>4 DEF TypeOK
    <2>7. Remembered'
      BY <2>3, <2>4 DEF Remembered, TypeOK, Entry, NoEntry
    <2> QED
      BY <2>4, <2>5, <2>6, <2>7 DEF TypeOK
  <1>4. ASSUME NEW i \in Calls,
               NEW call \in NewCalls("given") \cup NewCalls("absent"), FunctionCallPart(i, call)
        PROVE  TypeInv'
    <2> DEFINE begun == [call EXCEPT !.sent = call.size, !.state = "stopped"]
    <2>1. begun \in Call /\ call.name \in Names /\ call.size \in 0..MaxSize
      BY AdaptersAssumption DEF NewCalls, Call
    <2>2. CallIdOrName(i, call) \in Id
      BY <2>1 DEF CallIdOrName, CallId, NameId, Id
    <2>3. Arguments(i, call.size) \in Seq(Fragment)
      BY <2>1, ArgumentsAreFragments
    <2>4. out' \in Seq(Event)
      BY <1>4, <2>1, <2>2, <2>3, YieldType, EventsAreEvents DEF FunctionCallPart
    <2>5. made' \in [Calls -> Call \cup {NoCall}]
      BY <1>4, <2>1 DEF FunctionCallPart, Begins, TypeOK
    <2>6. saw_function_call' \in BOOLEAN
      BY <1>4, Zenon DEF FunctionCallPart
    <2>7. Remembered'
      BY <1>4 DEF FunctionCallPart, Open, Streaming, Remembered
    <2> QED
      BY <1>4, <2>4, <2>5, <2>6, <2>7 DEF FunctionCallPart, TypeOK
  <1>5. ASSUME NEW i \in Calls, InputJsonDelta(i) \/ ArgumentsDelta(i)
        PROVE  TypeInv'
    <2>1. i \in Unfinished /\ made[i].sent < made[i].size /\ adapter # "gemini"
      BY <1>5 DEF InputJsonDelta, ArgumentsDelta, Sends, Open, Streaming
    <2>2. made[i] \in Call /\ made[i] # NoCall
      BY <2>1 DEF Unfinished, Begun, TypeOK
    <2>3. book[i] \in Entry /\ book[i] # NoEntry
      BY <2>1, <2>2 DEF Remembered, TypeOK
    <2>4. NextFragment(i) \in Fragment
      BY <2>1, <2>2, AdaptersAssumption DEF NextFragment, Fragment, Call
    <2>5. made' \in [Calls -> Call \cup {NoCall}]
      <3>1. made' = [made EXCEPT ![i].sent = @ + 1]
        BY <1>5 DEF InputJsonDelta, ArgumentsDelta, Sends
      <3>2. [made[i] EXCEPT !.sent = @ + 1] \in Call
        BY <2>1, <2>2, AdaptersAssumption DEF Call
      <3> QED
        BY <3>1, <3>2 DEF TypeOK
    <2>6. made'[i] # NoCall /\ \A j \in Calls : j # i => made'[j] = made[j]
      <3>1. made' = [made EXCEPT ![i].sent = @ + 1]
        BY <1>5 DEF InputJsonDelta, ArgumentsDelta, Sends
      <3>2. \A j \in Calls : j # i => made'[j] = made[j]
        BY <3>1 DEF TypeOK
      <3>3. made'[i] = [made[i] EXCEPT !.sent = @ + 1]
        BY <3>1 DEF TypeOK
      <3>4. made'[i] \in Call
        BY <3>3, <2>1, <2>2, AdaptersAssumption DEF Call
      <3> QED
        BY <3>2, <3>4, EntriesAndCalls
    <2>7. out' \in Seq(Event)
      <3>1. CASE InputJsonDelta(i)
        BY <3>1, <2>3, <2>4, YieldType, EventsAreEvents DEF InputJsonDelta, Entry
      <3>2. CASE ArgumentsDelta(i)
        <4>1. CallIdOf(i) \in Id
          BY <2>3 DEF CallIdOf, Entry
        <4> QED
          BY <3>2, <4>1, <2>4, YieldType, EventsAreEvents DEF ArgumentsDelta
      <3> QED
        BY <1>5, <3>1, <3>2
    <2>8. /\ book' \in [Calls -> Entry \cup {NoEntry}]
          /\ \A j \in Calls : book[j] # NoEntry => book'[j] # NoEntry
      <3>1. CASE InputJsonDelta(i)
        <4>1. [book[i] EXCEPT !.buffer = Append(@, NextFragment(i))] \in Entry
          BY SMTT(30), <2>3, <2>4 DEF Entry
        <4>2. book' = [book EXCEPT ![i] = [book[i] EXCEPT !.buffer = Append(@, NextFragment(i))]]
          BY <3>1 DEF InputJsonDelta, TypeOK
        <4> QED
          BY <4>1, <4>2 DEF TypeOK, Entry, NoEntry
      <3>2. CASE ArgumentsDelta(i)
        BY <3>2 DEF ArgumentsDelta, memory, TypeOK
      <3> QED
        BY <1>5, <3>1, <3>2
    <2>9. UNCHANGED <<adapter, upstream, declared, tokens, texts, reason, usage,
                      saw_function_call, cause, pc>>
      BY <1>5 DEF InputJsonDelta, ArgumentsDelta, memory
    <2>10. Remembered'
      BY <2>2, <2>3, <2>6, <2>8, <2>9 DEF Remembered
    <2> QED
      BY <2>5, <2>7, <2>8, <2>9, <2>10 DEF TypeOK
  <1>6. ASSUME NEW i \in Calls, ContentBlockStop(i) \/ ArgumentsDone(i)
        PROVE  TypeInv'
    <2>1. i \in Unfinished /\ adapter # "gemini"
      BY <1>6 DEF ContentBlockStop, ArgumentsDone, Stops, Open, Streaming
    <2>2. made[i] \in Call /\ made[i] # NoCall
      BY <2>1 DEF Unfinished, Begun, TypeOK
    <2>3. book[i] \in Entry /\ book[i] # NoEntry
      BY <2>1, <2>2, EntriesAndCalls DEF Remembered, TypeOK
    <2>4. made' = [made EXCEPT ![i].state = "stopped"]
      BY <1>6 DEF ContentBlockStop, ArgumentsDone, Stops
    <2>5. made'[i] = [made[i] EXCEPT !.state = "stopped"]
      BY <2>4 DEF TypeOK
    <2>6. made'[i] \in Call
      BY <2>2, <2>5 DEF Call
    <2>7. made' \in [Calls -> Call \cup {NoCall}]
      BY <2>4, <2>5, <2>6 DEF TypeOK
    <2>8. UNCHANGED <<adapter, upstream, declared, tokens, texts, memory>>
      BY <1>6 DEF ContentBlockStop, ArgumentsDone
    <2>9. Sent(i) \in Seq(Fragment)
      BY <2>2, ArgumentsAreFragments DEF Sent, Call
    <2>10. PICK raw \in Seq(Fragment), event \in Event : Completes(raw, event)
      <3>1. CASE ContentBlockStop(i)
        BY <3>1, <2>3, EventsAreEvents DEF ContentBlockStop, Entry
      <3>2. CASE ArgumentsDone(i)
        <4>1. CallIdOf(i) \in Id /\ book[i].name \in Names
          BY <2>3 DEF CallIdOf, Entry
        <4> QED
          BY <3>2, <4>1, <2>9, EventsAreEvents DEF ArgumentsDone
      <3> QED
        BY <1>6, <3>1, <3>2
    <2>11. /\ out' \in Seq(Event)
           /\ cause' \in Exceptions \cup ErrorCodes \cup {"none"}
           /\ pc' \in {"streaming", "returned"}
      <3>1. CASE Parses(raw)
        BY <2>10, <3>1, YieldType DEF Completes, TypeOK
      <3>2. CASE ~Parses(raw)
        <4>1. KindOf("other") \in ErrorKind /\ "other" \in Exceptions
          BY KindsOfErrors DEF TypeOK, Exceptions
        <4> QED
          BY <2>10, <3>2, <4>1, FailsType DEF Completes
      <3> QED
        BY <3>1, <3>2
    <2>12. Remembered'
      BY <2>2, <2>3, <2>4, <2>8 DEF Remembered, TypeOK, memory
    <2> QED
      BY <2>7, <2>8, <2>11, <2>12 DEF TypeOK, memory
  <1>7. ASSUME NEW o \in Outcome \cup {"none"}, MessageDelta(o)
        PROVE  TypeInv'
    <2>1. tokens' \in 0..MaxReports
      BY <1>7, AdaptersAssumption DEF MessageDelta, Reports, TypeOK
    <2>2. out' \in Seq(Event)
      BY <1>7, <2>1, YieldType, EventsAreEvents DEF MessageDelta
    <2>3. declared' \in Outcome \cup {"none"} /\ reason' \in Outcome \cup {"none"}
      BY <1>7 DEF MessageDelta, Declares, StopReason, TypeOK
    <2> QED
      BY <1>7, <2>1, <2>2, <2>3 DEF MessageDelta, TypeOK, Remembered
  <1>8. CASE MessageStop
    <2>1. AnthropicFinish(reason) \in FinishReason
      BY FinishReasons DEF TypeOK
    <2>2. out' \in Seq(Event)
      BY <1>8, <2>1, YieldType, EventsAreEvents DEF MessageStop
    <2> QED
      BY <1>8, <2>2 DEF MessageStop, provider, memory, TypeOK, Remembered
  <1>9. ASSUME NEW o \in Outcome, ResponseEnds(o)
        PROVE  TypeInv'
    <2>1. tokens' \in 0..MaxReports
      BY <1>9, AdaptersAssumption DEF ResponseEnds, Reports, TypeOK
    <2>2. OpenAIFinish(o) \in FinishReason
      BY <1>9, FinishReasons DEF ResponseEnds
    <2>3. out' \in Seq(Event)
      BY <1>9, <2>1, <2>2, YieldType, EventsAreEvents DEF ResponseEnds
    <2> QED
      BY <1>9, <2>1, <2>3 DEF ResponseEnds, Declares, memory, TypeOK, Remembered
  <1>10. CASE UsageChunk
    <2>1. tokens' \in 0..MaxReports /\ usage' \in 0..MaxReports
      BY <1>10, AdaptersAssumption DEF UsageChunk, UsageSeen, Reports, TypeOK
    <2> QED
      BY <1>10, <2>1 DEF UsageChunk, TypeOK, Remembered
  <1>11. ASSUME NEW o \in Outcome, FinishChunk(o)
         PROVE  TypeInv'
    BY <1>11 DEF FinishChunk, Declares, TypeOK, Remembered
  <1>12. CASE EndOfChunks
    <2>1. Done(GeminiFinish(reason)) \in Event /\ Usage(usage) \in Event
      BY FinishReasons, EventsAreEvents DEF TypeOK
    <2>2. \/ Yield(<<Done(GeminiFinish(reason))>>)
          \/ Yield(<<Usage(usage), Done(GeminiFinish(reason))>>)
      BY <1>12, EndYields
    <2>3. out' \in Seq(Event)
      BY <2>1, <2>2, YieldType
    <2> QED
      BY <1>12, <2>3 DEF EndOfChunks, provider, memory, TypeOK, Remembered
  <1>13. ASSUME NEW e \in Exceptions, SdkRaises(e)
         PROVE  TypeInv'
    <2>1. KindOf(e) \in ErrorKind
      BY KindsOfErrors DEF TypeOK
    <2>2. /\ out' \in Seq(Event)
          /\ cause' \in Exceptions \cup ErrorCodes \cup {"none"}
          /\ pc' \in {"streaming", "returned"}
      BY <1>13, <2>1, FailsType DEF SdkRaises
    <2> QED
      BY <1>13, <2>2 DEF SdkRaises, provider, memory, TypeOK, Remembered
  <1>14. ASSUME NEW c \in ErrorCodes, StreamError(c)
         PROVE  TypeInv'
    <2>1. CodeKind(c) \in ErrorKind
      BY KindsOfErrors DEF TypeOK
    <2>2. /\ out' \in Seq(Event)
          /\ cause' \in Exceptions \cup ErrorCodes \cup {"none"}
          /\ pc' \in {"streaming", "returned"}
      BY <1>14, <2>1, FailsType DEF StreamError
    <2> QED
      BY <1>14, <2>2 DEF StreamError, provider, memory, TypeOK, Remembered
  <1>15. CASE SdkEnds
    BY <1>15 DEF SdkEnds, provider, memory, TypeOK, Remembered
  <1>16. CASE Finished
    BY <1>1, <1>16 DEF Finished
  <1> QED
    BY <1>1, <1>2, <1>3, <1>4, <1>5, <1>6, <1>7, <1>8, <1>9, <1>10, <1>11, <1>12,
       <1>13, <1>14, <1>15, <1>16 DEF Next

\* Every event the three adapters yield is one of the contract's, with a finish
\* reason and an error kind the contract knows.
THEOREM TypeCorrect == Spec => []TypeOK
  <1>1. Spec => []TypeInv
    BY TypeInit, TypeNext, PTL DEF Spec
  <1> QED
    BY <1>1, PTL DEF TypeInv

-----------------------------------------------------------------------------
(* The order of the events.                                                *)

Kinds(events) == [k \in 1..Len(events) |-> KindOfEvent(events[k])]

StreamKind == {"content", "usage", "done", "error"}

LEMMA KindsAreKinds ==
    ASSUME NEW S, NEW s \in Seq(S)
    PROVE  Kinds(s) \in Seq(StreamKind) /\ Len(Kinds(s)) = Len(s)
  BY DEF Kinds, KindOfEvent, StreamKind

\* What is yielded is added to the kinds of the stream.
LEMMA KindsGrow ==
    ASSUME NEW S, NEW s \in Seq(S), NEW t \in Seq(S)
    PROVE  Kinds(s \o t) = Kinds(s) \o Kinds(t)
  <1>1. /\ Kinds(s) \in Seq(StreamKind) /\ Len(Kinds(s)) = Len(s)
        /\ Kinds(t) \in Seq(StreamKind) /\ Len(Kinds(t)) = Len(t)
        /\ Len(s) \in Nat /\ Len(t) \in Nat
    BY KindsAreKinds, LenProperties
  <1>2. /\ s \o t \in Seq(S)
        /\ Len(s \o t) = Len(s) + Len(t)
        /\ \A k \in 1..(Len(s) + Len(t)) :
              (s \o t)[k] = IF k <= Len(s) THEN s[k] ELSE t[k - Len(s)]
    BY ConcatProperties
  <1>3. Kinds(s \o t) \in Seq(StreamKind) /\ Len(Kinds(s \o t)) = Len(s) + Len(t)
    BY <1>2, KindsAreKinds
  <1>4. /\ Kinds(s) \o Kinds(t) \in Seq(StreamKind)
        /\ Len(Kinds(s) \o Kinds(t)) = Len(s) + Len(t)
        /\ \A k \in 1..(Len(s) + Len(t)) :
              (Kinds(s) \o Kinds(t))[k]
                = IF k <= Len(s) THEN Kinds(s)[k] ELSE Kinds(t)[k - Len(s)]
    <2> DEFINE a == Kinds(s)
               b == Kinds(t)
    <2>1. a \in Seq(StreamKind) /\ b \in Seq(StreamKind) /\ Len(a) = Len(s)
      BY <1>1
    <2>2. Len(b) = Len(t)
      BY <1>1
    <2> HIDE DEF a, b
    <2>3. /\ a \o b \in Seq(StreamKind)
          /\ Len(a \o b) = Len(a) + Len(b)
          /\ \A k \in 1..(Len(a) + Len(b)) :
                (a \o b)[k] = IF k <= Len(a) THEN a[k] ELSE b[k - Len(a)]
      BY <2>1, ConcatProperties
    <2>4. /\ a \o b \in Seq(StreamKind)
          /\ Len(a \o b) = Len(s) + Len(t)
          /\ \A k \in 1..(Len(s) + Len(t)) :
                (a \o b)[k] = IF k <= Len(s) THEN a[k] ELSE b[k - Len(s)]
      BY <2>1, <2>2, <2>3, Zenon
    <2> QED
      BY <2>4 DEF a, b
  <1>5. ASSUME NEW k \in 1..(Len(s) + Len(t))
        PROVE  Kinds(s \o t)[k] = (Kinds(s) \o Kinds(t))[k]
    <2>1. Kinds(s \o t)[k] = KindOfEvent((s \o t)[k])
      BY <1>2 DEF Kinds
    <2>2. CASE k <= Len(s)
      <3>1. k \in 1..Len(s)
        BY <1>1, <2>2
      <3>2. Kinds(s)[k] = KindOfEvent(s[k])
        BY <3>1 DEF Kinds
      <3> QED
        BY <1>2, <1>4, <2>1, <2>2, <3>2
    <2>3. CASE ~(k <= Len(s))
      <3>1. k - Len(s) \in 1..Len(t)
        BY <1>1, <2>3
      <3>2. Kinds(t)[k - Len(s)] = KindOfEvent(t[k - Len(s)])
        BY <3>1 DEF Kinds
      <3> QED
        BY <1>2, <1>4, <2>1, <2>3, <3>2
    <2> QED
      BY <2>2, <2>3
  <1> QED
    BY <1>3, <1>4, <1>5, SeqEqual

LEMMA OneMore ==
    ASSUME NEW s \in Seq(Event), NEW a, NEW b
    PROVE  /\ Kinds(s \o <<a>>) = Kinds(s) \o <<KindOfEvent(a)>>
           /\ Kinds(s \o <<a, b>>) = Kinds(s) \o <<KindOfEvent(a), KindOfEvent(b)>>
  <1> DEFINE S == Event \cup {a, b}
  <1>1. s \in Seq(S)
    BY SeqMonotonic
  <1>2. a \in S /\ b \in S
    OBVIOUS
  <1> HIDE DEF S
  <1>3. <<a>> \in Seq(S) /\ <<a, b>> \in Seq(S)
    BY <1>2
  <1>4. /\ Kinds(s \o <<a>>) = Kinds(s) \o Kinds(<<a>>)
        /\ Kinds(s \o <<a, b>>) = Kinds(s) \o Kinds(<<a, b>>)
    BY <1>1, <1>3, KindsGrow
  <1>5. Kinds(<<a>>) = <<KindOfEvent(a)>>
    BY DEF Kinds
  <1>6. Kinds(<<a, b>>) = <<KindOfEvent(a), KindOfEvent(b)>>
    BY DEF Kinds
  <1> QED
    BY <1>4, <1>5, <1>6

LEMMA KindsOfEvents ==
    /\ KindOfEvent(Text) = "content"
    /\ \A id, n : KindOfEvent(ToolStart(id, n)) = "content"
    /\ \A id, f : KindOfEvent(ToolDelta(id, f)) = "content"
    /\ \A id, n, input : KindOfEvent(ToolComplete(id, n, input)) = "content"
    /\ \A n : KindOfEvent(Usage(n)) = "usage"
    /\ \A r : KindOfEvent(Done(r)) = "done"
    /\ \A k : KindOfEvent(Error(k)) = "error"
  BY DEF KindOfEvent, Text, ToolStart, ToolDelta, ToolComplete, Usage, Done, Error

Adds(kinds) == Kinds(out') = Kinds(out) \o kinds

LEMMA YieldAdds ==
    ASSUME TypeInv, NEW a, NEW b
    PROVE  /\ Yield(<<a>>) => Adds(<<KindOfEvent(a)>>)
           /\ Yield(<<a, b>>) => Adds(<<KindOfEvent(a), KindOfEvent(b)>>)
  <1>1. out \in Seq(Event)
    BY DEF TypeInv, TypeOK
  <1> QED
    BY <1>1, OneMore DEF Yield, Adds

\* What a step does to the stream, and what of the state it depends on.
Showing ==
    /\ pc = "streaming" /\ upstream = "open"
    /\ UNCHANGED <<adapter, upstream, pc>>
    /\ Adds(<<"content">>) \/ Adds(<<"content", "content">>)

Metering ==
    /\ pc = "streaming" /\ adapter = "anthropic" /\ upstream # "over"
    /\ adapter' = adapter /\ upstream' = "closing"
    /\ Adds(<<"usage">>)

Closing ==
    /\ pc = "streaming"
    /\ upstream # "over" \/ adapter = "gemini"
    /\ pc' = "returned" \/ (upstream' = "over" /\ adapter' # "gemini")
    /\ Adds(<<"done">>) \/ Adds(<<"usage", "done">>)

Failing == pc = "streaming" /\ pc' = "returned" /\ Adds(<<"error">>)

Silent ==
    /\ out' = out
    /\ \/ pc' = "returned"
       \/ UNCHANGED <<adapter, upstream, pc>>
       \/ /\ adapter = "gemini" /\ pc = "streaming"
          /\ UNCHANGED <<adapter, pc>> /\ upstream' = "closing"

LEMMA FailsFails ==
    ASSUME TypeInv, NEW c, NEW k, Fails(c, k), pc = "streaming"
    PROVE  Failing
  BY YieldAdds, KindsOfEvents DEF Fails, Failing

\* What a completed call yields: itself, or an error when it does not parse.
LEMMA CompletesShowsOrFails ==
    ASSUME TypeInv, Streaming(adapter), upstream = "open",
           UNCHANGED <<adapter, upstream>>,
           NEW raw, NEW id, NEW n, Completes(raw, ToolComplete(id, n, raw))
    PROVE  Showing \/ Failing
  <1>1. CASE Parses(raw)
    BY <1>1, YieldAdds, KindsOfEvents DEF Completes, Showing, Streaming
  <1>2. CASE ~Parses(raw)
    BY <1>2, FailsFails DEF Completes, Streaming
  <1> QED
    BY <1>1, <1>2

LEMMA StepsOfTheStream ==
    ASSUME TypeInv, [Next]_vars
    PROVE  Showing \/ Metering \/ Closing \/ Failing \/ Silent
  <1>1. CASE UNCHANGED vars
    BY <1>1 DEF vars, Silent
  <1>2. CASE TextDelta
    BY <1>2, YieldAdds, KindsOfEvents DEF TextDelta, Showing
  <1>3. ASSUME NEW i \in Calls, NEW call \in NewCalls("given"),
               ToolBlockStart(i, call) \/ OutputItemAdded(i, call)
        PROVE  Showing
    BY <1>3, YieldAdds, KindsOfEvents
    DEF ToolBlockStart, OutputItemAdded, Open, Streaming, Showing
  <1>4. ASSUME NEW i \in Calls, NEW call, FunctionCallPart(i, call)
        PROVE  Showing
    BY <1>4, YieldAdds, KindsOfEvents DEF FunctionCallPart, Open, Streaming, Showing
  <1>5. ASSUME NEW i \in Calls, InputJsonDelta(i) \/ ArgumentsDelta(i)
        PROVE  Showing
    <2>1. \E id : Yield(<<ToolDelta(id, NextFragment(i))>>)
      BY <1>5, Zenon DEF InputJsonDelta, ArgumentsDelta
    <2>2. Adds(<<"content">>)
      BY <2>1, YieldAdds, KindsOfEvents
    <2>3. /\ pc = "streaming" /\ upstream = "open"
          /\ UNCHANGED <<adapter, upstream, pc>>
      BY <1>5, Zenon DEF InputJsonDelta, ArgumentsDelta, Open, Streaming
    <2> QED
      BY <2>2, <2>3 DEF Showing
  <1>6. ASSUME NEW i \in Calls, ContentBlockStop(i) \/ ArgumentsDone(i)
        PROVE  Showing \/ Failing
    <2>1. /\ Streaming(adapter) /\ upstream = "open"
          /\ UNCHANGED <<adapter, upstream>>
      BY <1>6 DEF ContentBlockStop, ArgumentsDone, Open, Streaming
    <2> QED
      BY <1>6, <2>1, CompletesShowsOrFails DEF ContentBlockStop, ArgumentsDone
  <1>7. ASSUME NEW o, MessageDelta(o)
        PROVE  Metering
    BY <1>7, YieldAdds, KindsOfEvents DEF MessageDelta, Streaming, Metering
  <1>8. CASE MessageStop
    BY <1>8, YieldAdds, KindsOfEvents DEF MessageStop, Streaming, Closing
  <1>9. ASSUME NEW o, ResponseEnds(o)
        PROVE  Closing
    BY <1>9, YieldAdds, KindsOfEvents DEF ResponseEnds, Open, Streaming, Closing
  <1>10. CASE EndOfChunks
    <2>1. \/ Yield(<<Done(GeminiFinish(reason))>>)
          \/ Yield(<<Usage(usage), Done(GeminiFinish(reason))>>)
      BY <1>10, EndYields
    <2>2. Adds(<<"done">>) \/ Adds(<<"usage", "done">>)
      BY <2>1, YieldAdds, KindsOfEvents
    <2> QED
      BY <1>10, <2>2 DEF EndOfChunks, Streaming, Closing
  <1>11. ASSUME NEW e, SdkRaises(e)
         PROVE  Failing
    BY <1>11, FailsFails DEF SdkRaises
  <1>12. ASSUME NEW c, StreamError(c)
         PROVE  Failing
    BY <1>12, FailsFails DEF StreamError, Open, Streaming
  <1>13. CASE UsageChunk \/ SdkEnds \/ Finished
    BY <1>13 DEF UsageChunk, SdkEnds, Finished, vars, Silent
  <1>14. ASSUME NEW o, FinishChunk(o)
         PROVE  Silent
    BY <1>14 DEF FinishChunk, Open, Streaming, Silent
  <1> QED
    BY <1>1, <1>2, <1>3, <1>4, <1>5, <1>6, <1>7, <1>8, <1>9, <1>10, <1>11, <1>12,
       <1>13, <1>14 DEF Next

\* An error or the end silences an adapter, and only content comes before the
\* provider begins to close: what the refinement needs to know of the state.
OnlyKinds(kinds) == \A k \in 1..Len(Kinds(out)) : Kinds(out)[k] \in kinds

Order ==
    pc = "streaming" =>
        /\ OnlyKinds({"content", "usage", "done"})
        /\ upstream = "open" \/ adapter = "gemini" => OnlyKinds({"content"})
        /\ upstream = "closing" => OnlyKinds({"content", "usage"})

LEMMA OnlyKindsGrow ==
    ASSUME TypeInv, NEW kinds, NEW more \in Seq(StreamKind),
           OnlyKinds(kinds), \A k \in 1..Len(more) : more[k] \in kinds, Adds(more)
    PROVE  OnlyKinds(kinds)'
  <1> DEFINE before == Kinds(out)
             after == Kinds(out')
  <1>1. before \in Seq(StreamKind)
    BY KindsAreKinds DEF TypeInv, TypeOK
  <1>2. \A k \in 1..Len(before) : before[k] \in kinds
    BY DEF OnlyKinds
  <1>3. after = before \o more
    BY DEF Adds
  <1> HIDE DEF before, after
  <1>4. \A k \in 1..Len(after) : after[k] \in kinds
    <2>1. /\ Len(after) = Len(before) + Len(more)
          /\ \A k \in 1..(Len(before) + Len(more)) :
                after[k] = IF k <= Len(before) THEN before[k] ELSE more[k - Len(before)]
      BY <1>1, <1>3, ConcatProperties
    <2>2. Len(before) \in Nat /\ Len(more) \in Nat
      BY <1>1, LenProperties
    <2> QED
      BY <1>2, <2>1, <2>2
  <1> QED
    BY <1>4 DEF after, OnlyKinds

LEMMA OneOrTwoMore ==
    ASSUME TypeInv, NEW kinds \in SUBSET StreamKind, OnlyKinds(kinds),
           NEW a \in kinds, NEW b \in kinds, Adds(<<a>>) \/ Adds(<<a, b>>)
    PROVE  OnlyKinds(kinds)'
  <1>1. /\ <<a>> \in Seq(StreamKind) /\ <<a, b>> \in Seq(StreamKind)
        /\ \A k \in 1..Len(<<a>>) : <<a>>[k] \in kinds
        /\ \A k \in 1..Len(<<a, b>>) : <<a, b>>[k] \in kinds
    OBVIOUS
  <1>2. CASE Adds(<<a>>)
    BY <1>1, <1>2, OnlyKindsGrow
  <1>3. CASE Adds(<<a, b>>)
    BY <1>1, <1>3, OnlyKindsGrow
  <1> QED
    BY <1>2, <1>3

LEMMA OrderNext == TypeInv /\ Order /\ [Next]_vars => Order'
  <1> SUFFICES ASSUME TypeInv, Order, [Next]_vars, pc' = "streaming"
               PROVE  Order'
    BY DEF Order
  <1>1. CASE Showing
    <2>1. OnlyKinds({"content"})
      BY <1>1 DEF Showing, Order
    <2>2. OnlyKinds({"content"})'
      BY <1>1, <2>1, OneOrTwoMore DEF Showing, StreamKind
    <2> QED
      BY <1>1, <2>2 DEF Showing, Order, OnlyKinds
  <1>2. CASE Metering
    <2>1. OnlyKinds({"content", "usage"})
      BY <1>2 DEF Metering, Order, OnlyKinds, TypeInv, TypeOK
    <2>2. OnlyKinds({"content", "usage"})'
      BY <1>2, <2>1, OneOrTwoMore DEF Metering, StreamKind
    <2> QED
      BY <1>2, <2>2 DEF Metering, Order, OnlyKinds
  <1>3. CASE Closing
    <2>1. OnlyKinds({"content", "usage", "done"})
      BY <1>3 DEF Closing, Order
    <2>2. OnlyKinds({"content", "usage", "done"})'
      BY <1>3, <2>1, OneOrTwoMore DEF Closing, StreamKind
    <2> QED
      BY <1>3, <2>2 DEF Closing, Order
  <1>4. CASE Failing
    BY <1>4 DEF Failing
  <1>5. CASE Silent
    <2>1. \A kinds : OnlyKinds(kinds)' <=> OnlyKinds(kinds)
      BY <1>5 DEF Silent, OnlyKinds
    <2> QED
      BY <1>5, <2>1 DEF Silent, Order, OnlyKinds
  <1> QED
    BY <1>1, <1>2, <1>3, <1>4, <1>5, StepsOfTheStream

\* Every step of an adapter is one of the common stream's, or leaves it as it is.
LEMMA StepImplements ==
    TypeInv /\ Order /\ [Next]_vars => [Common!Next]_(Kinds(out))
  <1> SUFFICES ASSUME TypeInv, Order, [Next]_vars
               PROVE  Common!Next \/ Kinds(out') = Kinds(out)
    BY DEF Kinds
  <1>0. \A kinds : Common!Only(kinds) <=> OnlyKinds(kinds)
    BY DEF Common!Only, OnlyKinds, Kinds
  <1>1. CASE Showing
    <2>1. Common!Only({"content"})
      BY <1>0, <1>1 DEF Showing, Order
    <2> QED
      BY <1>1, <2>1 DEF Showing, Adds, Kinds, Common!Show, Common!Next
  <1>2. CASE Metering
    <2>1. Common!Only({"content", "usage"})
      BY <1>0, <1>2 DEF Metering, Order, OnlyKinds, TypeInv, TypeOK
    <2> QED
      BY <1>2, <2>1 DEF Metering, Adds, Kinds, Common!Meter, Common!Next
  <1>3. CASE Closing
    <2>1. Common!Only({"content", "usage"})
      BY <1>0, <1>3 DEF Closing, Order, OnlyKinds, TypeInv, TypeOK
    <2> QED
      BY <1>3, <2>1 DEF Closing, Adds, Kinds, Common!Close, Common!Next
  <1>4. CASE Failing
    <2>1. Common!Only({"content", "usage", "done"})
      BY <1>0, <1>4 DEF Failing, Order
    <2> QED
      BY <1>4, <2>1 DEF Failing, Adds, Kinds, Common!Fail, Common!Next
  <1>5. CASE Silent
    BY <1>5 DEF Silent
  <1> QED
    BY <1>1, <1>2, <1>3, <1>4, <1>5, StepsOfTheStream

LEMMA StreamInvariance == Spec => [](TypeInv /\ Order)
  <1>1. Init => Order
    <2> SUFFICES ASSUME Init PROVE Order
      OBVIOUS
    <2>1. Kinds(out) = <<>>
      BY DEF Init, Kinds
    <2> QED
      BY <2>1 DEF Order, OnlyKinds
  <1> QED
    BY <1>1, TypeInit, TypeNext, OrderNext, PTL DEF Spec

\* Each adapter implements the stream a chat turn relies on.
THEOREM AdaptersKeepToStream == Spec => KeepsToStream
  <1>1. Init => Common!Init
    BY DEF Init, Common!Init
  <1> QED
    BY <1>1, StepImplements, StreamInvariance, PTL DEF Spec, KeepsToStream, Common!Spec, Kinds

-----------------------------------------------------------------------------
(* How a stream ended, and what it cost.                                   *)

\* What a step yields comes after all that was yielded before.
LEMMA Grown ==
    ASSUME TypeInv, NEW a, NEW b
    PROVE  /\ Len(out) \in Nat
           /\ Yield(<<a>>) =>
                /\ Len(out') = Len(out) + 1 /\ out'[Len(out) + 1] = a
                /\ \A k \in 1..Len(out) : out'[k] = out[k]
           /\ Yield(<<a, b>>) =>
                /\ Len(out') = Len(out) + 2
                /\ out'[Len(out) + 1] = a /\ out'[Len(out) + 2] = b
                /\ \A k \in 1..Len(out) : out'[k] = out[k]
  <1> DEFINE S == Event \cup {a, b}
  <1>1. out \in Seq(S)
    BY SeqMonotonic DEF TypeInv, TypeOK
  <1>2. a \in S /\ b \in S
    OBVIOUS
  <1> HIDE DEF S
  <1>3. /\ <<a>> \in Seq(S) /\ <<a, b>> \in Seq(S)
        /\ Len(<<a>>) = 1 /\ Len(<<a, b>>) = 2
        /\ <<a>>[1] = a /\ <<a, b>>[1] = a /\ <<a, b>>[2] = b
    BY <1>2
  <1>4. ASSUME NEW more \in Seq(S), out' = out \o more
        PROVE  /\ Len(out') = Len(out) + Len(more)
               /\ \A k \in 1..Len(out) : out'[k] = out[k]
               /\ \A k \in 1..Len(more) : out'[Len(out) + k] = more[k]
    <2>1. Len(out) \in Nat /\ Len(more) \in Nat
      BY <1>1, LenProperties
    <2>2. /\ Len(out') = Len(out) + Len(more)
          /\ \A k \in 1..(Len(out) + Len(more)) :
                out'[k] = IF k <= Len(out) THEN out[k] ELSE more[k - Len(out)]
      BY <1>1, <1>4, ConcatProperties
    <2>3. \A k \in 1..Len(more) :
            Len(out) + k \in 1..(Len(out) + Len(more)) /\ ~ (Len(out) + k <= Len(out))
            /\ (Len(out) + k) - Len(out) = k
      BY <2>1
    <2>4. \A k \in 1..Len(out) : k \in 1..(Len(out) + Len(more)) /\ k <= Len(out)
      BY <2>1
    <2> QED
      BY <2>2, <2>3, <2>4
  <1>5. Len(out) \in Nat
    BY <1>1, LenProperties
  <1>6. Yield(<<a>>) =>
          /\ Len(out') = Len(out) + 1 /\ out'[Len(out) + 1] = a
          /\ \A k \in 1..Len(out) : out'[k] = out[k]
    <2> SUFFICES ASSUME out' = out \o <<a>>
                 PROVE  /\ Len(out') = Len(out) + 1 /\ out'[Len(out) + 1] = a
                        /\ \A k \in 1..Len(out) : out'[k] = out[k]
      BY DEF Yield
    <2>1. 1 \in 1..Len(<<a>>)
      BY <1>3
    <2> QED
      BY <1>3, <1>4, <2>1
  <1>7. Yield(<<a, b>>) =>
          /\ Len(out') = Len(out) + 2
          /\ out'[Len(out) + 1] = a /\ out'[Len(out) + 2] = b
          /\ \A k \in 1..Len(out) : out'[k] = out[k]
    <2> SUFFICES ASSUME out' = out \o <<a, b>>
                 PROVE  /\ Len(out') = Len(out) + 2
                        /\ out'[Len(out) + 1] = a /\ out'[Len(out) + 2] = b
                        /\ \A k \in 1..Len(out) : out'[k] = out[k]
      BY DEF Yield
    <2>1. 1 \in 1..Len(<<a, b>>) /\ 2 \in 1..Len(<<a, b>>)
      BY <1>3
    <2> QED
      BY <1>3, <1>4, <2>1
  <1> QED
    BY <1>5, <1>6, <1>7

LEMMA PositionsGrow ==
    ASSUME TypeInv, NEW a, NEW b, NEW t
    PROVE  /\ Yield(<<a>>) => \A k : k \in Positions(t)' <=>
                \/ k \in Positions(t)
                \/ k = Len(out) + 1 /\ a.type = t
           /\ Yield(<<a, b>>) => \A k : k \in Positions(t)' <=>
                \/ k \in Positions(t)
                \/ k = Len(out) + 1 /\ a.type = t
                \/ k = Len(out) + 2 /\ b.type = t
           /\ \A k \in Positions(t) :
                k \in Nat /\ k \in 1..Len(out) /\ k <= Len(out) /\ out[k].type = t
  <1>1. Len(out) \in Nat
    BY Grown
  <1>2. \A k : k \in Positions(t) <=> k \in 1..Len(out) /\ out[k].type = t
    BY DEF Positions
  <1>3. \A k : k \in Positions(t)' <=> k \in 1..Len(out') /\ out'[k].type = t
    BY DEF Positions
  <1>4. ASSUME Yield(<<a>>), NEW k
        PROVE  k \in Positions(t)' <=>
                 \/ k \in Positions(t)
                 \/ k = Len(out) + 1 /\ a.type = t
    <2>1. /\ Len(out') = Len(out) + 1 /\ out'[Len(out) + 1] = a
          /\ \A j \in 1..Len(out) : out'[j] = out[j]
      BY <1>4, Grown
    <2>2. k \in 1..Len(out') <=> k \in 1..Len(out) \/ k = Len(out) + 1
      BY <1>1, <2>1
    <2>3. k = Len(out) + 1 => k \notin 1..Len(out)
      BY <1>1
    <2> QED
      BY <1>2, <1>3, <2>1, <2>2, <2>3
  <1>5. ASSUME Yield(<<a, b>>), NEW k
        PROVE  k \in Positions(t)' <=>
                 \/ k \in Positions(t)
                 \/ k = Len(out) + 1 /\ a.type = t
                 \/ k = Len(out) + 2 /\ b.type = t
    <2>1. /\ Len(out') = Len(out) + 2
          /\ out'[Len(out) + 1] = a /\ out'[Len(out) + 2] = b
          /\ \A j \in 1..Len(out) : out'[j] = out[j]
      BY <1>5, Grown
    <2>2. k \in 1..Len(out') <=> k \in 1..Len(out) \/ k = Len(out) + 1 \/ k = Len(out) + 2
      BY <1>1, <2>1
    <2>3. k = Len(out) + 1 \/ k = Len(out) + 2 => k \notin 1..Len(out)
      BY <1>1
    <2> QED
      BY <1>2, <1>3, <2>1, <2>2, <2>3
  <1> QED
    BY <1>1, <1>2, <1>4, <1>5

\* An adapter that still streams has yielded no error, and none but Anthropic's
\* has yielded usage.
LEMMA NotYet ==
    ASSUME TypeInv, Order, pc = "streaming"
    PROVE  /\ Positions("error") = {}
           /\ upstream = "open" \/ adapter = "gemini" =>
                Positions("done") = {} /\ Positions("usage") = {}
           /\ upstream = "closing" => Positions("done") = {}
  <1>1. /\ Len(Kinds(out)) = Len(out)
        /\ \A k \in 1..Len(out) : Kinds(out)[k] = KindOfEvent(out[k])
    BY KindsAreKinds DEF Kinds, TypeInv, TypeOK
  <1>2. \A k \in 1..Len(out) :
          out[k].type \in {"usage", "done", "error"} => Kinds(out)[k] = out[k].type
    BY <1>1 DEF KindOfEvent
  <1>3. ASSUME NEW t \in {"usage", "done", "error"}, NEW kinds, OnlyKinds(kinds), t \notin kinds
        PROVE  Positions(t) = {}
    BY <1>1, <1>2, <1>3 DEF OnlyKinds, Positions
  <1>4. Positions("error") = {}
    BY <1>3 DEF Order
  <1>5. ASSUME upstream = "open" \/ adapter = "gemini"
        PROVE  Positions("done") = {} /\ Positions("usage") = {}
    BY <1>3, <1>5 DEF Order
  <1>6. ASSUME upstream = "closing"
        PROVE  Positions("done") = {}
    BY <1>3, <1>6 DEF Order
  <1> QED
    BY <1>4, <1>5, <1>6

\* What each adapter remembers of the end and the cost, against what its
\* provider declared and reported.
Declared ==
    /\ adapter = "anthropic" =>
        /\ reason = declared /\ declared # "failed"
        /\ declared = "tool" => Begun # {}
        /\ declared = "natural" => Begun = {}
        /\ upstream = "open" => declared = "none"
    /\ adapter = "gemini" =>
        /\ reason = declared /\ declared \notin {"tool", "failed"} /\ usage = tokens
        /\ saw_function_call <=> Begun # {}
    /\ adapter = "openai" /\ pc = "streaming" /\ upstream = "open" => tokens = 0

\* A provider's calls only grow in number.
LEMMA CallsGrow ==
    ASSUME TypeInv, NEW i \in Calls
    PROVE  /\ \A call \in Call : Begins(i, call) => Begun' = Begun \cup {i}
           /\ Sends(i) \/ Stops(i) =>
                /\ i \in Begun /\ Begun' = Begun
                /\ made'[i].id = made[i].id /\ made'[i].name = made[i].name
                /\ made'[i].size = made[i].size
                /\ \A j \in Calls \ {i} : made'[j] = made[j]
  <1>1. made \in [Calls -> Call \cup {NoCall}]
    BY DEF TypeInv, TypeOK
  <1>2. ASSUME NEW call \in Call, Begins(i, call)
        PROVE  Begun' = Begun \cup {i}
    BY <1>1, <1>2, EntriesAndCalls DEF Begins, Begun
  <1>3. ASSUME Sends(i)
        PROVE  /\ i \in Begun /\ Begun' = Begun
               /\ made'[i].id = made[i].id /\ made'[i].name = made[i].name
               /\ made'[i].size = made[i].size
               /\ \A j \in Calls \ {i} : made'[j] = made[j]
    <2>1. i \in Begun /\ made[i] \in Call /\ made[i].sent < made[i].size
      BY <1>1, <1>3, EntriesAndCalls DEF Sends, Unfinished, Begun
    <2>2. made'[i] = [made[i] EXCEPT !.sent = @ + 1] /\ \A j \in Calls \ {i} : made'[j] = made[j]
      BY <1>1, <1>3 DEF Sends
    <2>3. made'[i] \in Call
      BY <2>1, <2>2, AdaptersAssumption DEF Call
    <2>4. made'[i] # NoCall
      BY <2>3, EntriesAndCalls
    <2> QED
      BY <2>1, <2>2, <2>4 DEF Begun, Call
  <1>4. ASSUME Stops(i)
        PROVE  /\ i \in Begun /\ Begun' = Begun
               /\ made'[i].id = made[i].id /\ made'[i].name = made[i].name
               /\ made'[i].size = made[i].size
               /\ \A j \in Calls \ {i} : made'[j] = made[j]
    <2>1. i \in Begun /\ made[i] \in Call
      BY <1>1, <1>4, EntriesAndCalls DEF Stops, Unfinished, Begun
    <2>2. made'[i] = [made[i] EXCEPT !.state = "stopped"]
          /\ \A j \in Calls \ {i} : made'[j] = made[j]
      BY <1>1, <1>4 DEF Stops
    <2>3. made'[i] \in Call
      BY <2>1, <2>2 DEF Call
    <2>4. made'[i] # NoCall
      BY <2>3, EntriesAndCalls
    <2> QED
      BY <2>1, <2>2, <2>4 DEF Begun, Call
  <1> QED
    BY <1>2, <1>3, <1>4

LEMMA DeclaredInit == Init => Declared
  BY EntriesAndCalls DEF Init, Declared, Begun

LEMMA DeclaredNext == TypeInv /\ Declared /\ [Next]_vars => Declared'
  <1> SUFFICES ASSUME TypeInv, Declared, [Next]_vars PROVE Declared'
    OBVIOUS
  <1>0. /\ adapter \in Adapter /\ saw_function_call \in BOOLEAN
        /\ declared \in Outcome \cup {"none"}
    BY DEF TypeInv, TypeOK
  <1>1. CASE UNCHANGED vars
    BY <1>1 DEF vars, provider, memory, Declared, Begun
  <1>2. CASE TextDelta \/ SdkEnds
    BY <1>2 DEF TextDelta, SdkEnds, provider, memory, Declared, Begun
  <1>3. ASSUME NEW i \in Calls, NEW call \in NewCalls("given"),
               ToolBlockStart(i, call) \/ OutputItemAdded(i, call)
        PROVE  Declared'
    BY <1>0, <1>3 DEF ToolBlockStart, OutputItemAdded, Open, Streaming, Declared, Adapter
  <1>4. ASSUME NEW i \in Calls,
               NEW call \in NewCalls("given") \cup NewCalls("absent"), FunctionCallPart(i, call)
        PROVE  Declared'
    <2>1. [call EXCEPT !.sent = call.size, !.state = "stopped"] \in Call
      BY AdaptersAssumption DEF NewCalls, Call
    <2>2. Begun' = Begun \cup {i}
      BY <1>4, <2>1, CallsGrow DEF FunctionCallPart
    <2> QED
      BY <1>0, <1>4, <2>2 DEF FunctionCallPart, Open, Streaming, Declared
  <1>5. ASSUME NEW i \in Calls, InputJsonDelta(i) \/ ArgumentsDelta(i)
        PROVE  Declared'
    BY <1>0, <1>5 DEF InputJsonDelta, ArgumentsDelta, Open, Streaming, memory, Declared
  <1>6. ASSUME NEW i \in Calls, ContentBlockStop(i) \/ ArgumentsDone(i)
        PROVE  Declared'
    <2>1. /\ adapter # "gemini" /\ upstream = "open" /\ pc = "streaming"
          /\ UNCHANGED <<adapter, upstream, declared, tokens, memory>>
      BY <1>6 DEF ContentBlockStop, ArgumentsDone, Open, Streaming
    <2> QED
      BY <1>0, <2>1 DEF memory, Declared
  <1>7. ASSUME NEW o \in Outcome \cup {"none"}, MessageDelta(o)
        PROVE  Declared'
    <2>1. Begun' = Begun
      BY <1>7 DEF MessageDelta, Begun
    <2> QED
      BY <1>7, <2>1 DEF MessageDelta, Declares, StopReason, Streaming, Declared, Outcome
  <1>8. CASE MessageStop
    BY <1>8 DEF MessageStop, Streaming, provider, memory, Declared, Begun
  <1>9. ASSUME NEW o \in Outcome, ResponseEnds(o)
        PROVE  Declared'
    BY <1>9 DEF ResponseEnds, Open, Streaming, Declared
  <1>10. CASE UsageChunk
    BY <1>10 DEF UsageChunk, UsageSeen, Streaming, Declared, Begun
  <1>11. ASSUME NEW o \in Outcome, FinishChunk(o)
         PROVE  Declared'
    BY <1>11 DEF FinishChunk, Open, Streaming, Declares, Declared, Begun
  <1>12. CASE EndOfChunks
    BY <1>12 DEF EndOfChunks, Streaming, provider, memory, Declared, Begun
  <1>13. ASSUME NEW e, NEW k, Fails(e, k), UNCHANGED <<adapter, upstream, provider, memory>>
         PROVE  Declared'
    BY <1>13 DEF Fails, provider, memory, Declared, Begun
  <1> QED
    BY <1>1, <1>2, <1>3, <1>4, <1>5, <1>6, <1>7, <1>8, <1>9, <1>10, <1>11, <1>12, <1>13
    DEF Next, SdkRaises, StreamError, Finished

LastUsage ==
    IF Positions("usage") = {}
      THEN tokens = 0
      ELSE \E k \in Positions("usage") :
              out[k].tokens = tokens /\ \A j \in Positions("usage") : j <= k

Ending ==
    /\ ReasonIsDeclared /\ RepeatsOnlyWhatMayPass /\ LastUsageIsFinal
    /\ adapter = "anthropic" => LastUsage

Ends == {"usage", "done", "error"}

\* A step that yields at most content, once nothing has ended or nothing the
\* provider said has changed.
LEMMA EndingStays ==
    ASSUME Ending, adapter' = adapter,
           \A t \in Ends : \A k : k \in Positions(t)' <=> k \in Positions(t),
           \A t \in Ends : \A k \in Positions(t) : out'[k] = out[k],
           \/ Positions("done") = {}
           \/ (Begun' = {} <=> Begun = {}) /\ declared' = declared /\ tokens' = tokens,
           Positions("error") = {} \/ cause' = cause,
           adapter = "anthropic" => tokens' = tokens
    PROVE  Ending'
  <1>1. /\ Positions("usage")' = Positions("usage")
        /\ Positions("done")' = Positions("done")
        /\ Positions("error")' = Positions("error")
        /\ \A k \in Positions("usage") : out'[k] = out[k]
        /\ \A k \in Positions("done") : out'[k] = out[k]
        /\ \A k \in Positions("error") : out'[k] = out[k]
    BY DEF Ends
  <1>2. ReasonIsDeclared'
    BY <1>1 DEF Ending, ReasonIsDeclared, Expected
  <1>3. RepeatsOnlyWhatMayPass'
    BY <1>1 DEF Ending, RepeatsOnlyWhatMayPass, LeftOver, MayPass
  <1>4. LastUsageIsFinal'
    BY <1>1 DEF Ending, LastUsageIsFinal
  <1>5. adapter' = "anthropic" => LastUsage'
    BY <1>1 DEF Ending, LastUsage
  <1> QED
    BY <1>2, <1>3, <1>4, <1>5 DEF Ending

LEMMA ContentEndsNothing ==
    ASSUME TypeInv, NEW a, NEW b, a.type \notin Ends, b.type \notin Ends,
           Yield(<<a>>) \/ Yield(<<a, b>>)
    PROVE  /\ \A t \in Ends : \A k : k \in Positions(t)' <=> k \in Positions(t)
           /\ \A t \in Ends : \A k \in Positions(t) : out'[k] = out[k]
  <1>1. ASSUME NEW t \in Ends
        PROVE  /\ \A k : k \in Positions(t)' <=> k \in Positions(t)
               /\ \A k \in Positions(t) : out'[k] = out[k]
    <2>1. \A k : k \in Positions(t)' <=> k \in Positions(t)
      BY PositionsGrow
    <2>2. \A k \in Positions(t) : k \in 1..Len(out)
      BY PositionsGrow
    <2>3. \A k \in 1..Len(out) : out'[k] = out[k]
      BY Grown
    <2> QED
      BY <2>1, <2>2, <2>3
  <1> QED
    BY <1>1

LEMMA ContentIsContent ==
    /\ Text.type \notin Ends
    /\ \A id, n : ToolStart(id, n).type \notin Ends
    /\ \A id, f : ToolDelta(id, f).type \notin Ends
    /\ \A id, n, s : ToolComplete(id, n, s).type \notin Ends
  BY DEF Text, ToolStart, ToolDelta, ToolComplete, Ends

\* A failure whose kind fits its cause.
Fitting(c, kind) ==
    /\ kind \in {"rate_limit", "server_error"} => c \in MayPass \cup LeftOver
    /\ c \in {"rate_limited", "server", "code_rate_limit"} => kind \in {"rate_limit", "server_error"}

LEMMA KindsFit ==
    ASSUME adapter \in Adapter
    PROVE  /\ \A e \in Exceptions : Fitting(e, KindOf(e))
           /\ adapter = "openai" => \A c \in ErrorCodes : Fitting(c, CodeKind(c))
  <1>1. CASE adapter = "anthropic"
    BY <1>1 DEF Exceptions, KindOf, AnthropicKind, Fitting, MayPass, LeftOver
  <1>2. CASE adapter = "openai"
    BY <1>2 DEF Exceptions, KindOf, OpenAIKind, Fitting, MayPass, LeftOver, ErrorCodes, CodeKind
  <1>3. CASE adapter = "gemini"
    BY <1>3 DEF Exceptions, KindOf, GeminiKind, Fitting, MayPass, LeftOver
  <1> QED
    BY <1>1, <1>2, <1>3 DEF Adapter

LEMMA EndingFails ==
    ASSUME TypeInv, Order, Ending, pc = "streaming", NEW c, NEW kind, Fails(c, kind),
           Fitting(c, kind), UNCHANGED <<adapter, declared, tokens>>, Begun' = Begun
    PROVE  Ending'
  <1> DEFINE e == Error(kind)
  <1>1. Yield(<<e>>) /\ cause' = c
    BY DEF Fails
  <1>2. e.type = "error" /\ e.kind = kind
    BY DEF Error
  <1> HIDE DEF e
  <1>3. /\ Len(out) \in Nat /\ out'[Len(out) + 1] = e
        /\ \A k \in 1..Len(out) : out'[k] = out[k]
    BY <1>1, Grown
  <1>4. /\ \A k : k \in Positions("usage")' <=> k \in Positions("usage")
        /\ \A k : k \in Positions("done")' <=> k \in Positions("done")
        /\ \A k : k \in Positions("error")' <=> k \in Positions("error") \/ k = Len(out) + 1
        /\ \A k \in Positions("usage") : k \in 1..Len(out)
        /\ \A k \in Positions("done") : k \in 1..Len(out)
    BY <1>1, <1>2, PositionsGrow
  <1>5. /\ Positions("usage")' = Positions("usage") /\ Positions("done")' = Positions("done")
        /\ \A k \in Positions("usage") : out'[k] = out[k]
        /\ \A k \in Positions("done") : out'[k] = out[k]
    BY <1>3, <1>4
  <1>6. Positions("error") = {}
    BY NotYet
  <1>7. ReasonIsDeclared'
    BY <1>5 DEF Ending, ReasonIsDeclared, Expected
  <1>8. RepeatsOnlyWhatMayPass'
    BY <1>1, <1>2, <1>3, <1>4, <1>6 DEF RepeatsOnlyWhatMayPass, Fitting, LeftOver, MayPass
  <1>9. LastUsageIsFinal'
    BY <1>5 DEF Ending, LastUsageIsFinal
  <1>10. adapter' = "anthropic" => LastUsage'
    BY <1>5 DEF Ending, LastUsage
  <1> QED
    BY <1>7, <1>8, <1>9, <1>10 DEF Ending

\* The provider reports usage, or the stream is done: the first Done of it.
LEMMA EndingMeters ==
    ASSUME TypeInv, Positions("done") = {}, Positions("error") = {}, Yield(<<Usage(tokens')>>)
    PROVE  Ending'
  <1> DEFINE e == Usage(tokens')
  <1>1. e.type = "usage" /\ e.tokens = tokens'
    BY DEF Usage
  <1>2. Yield(<<e>>)
    OBVIOUS
  <1> HIDE DEF e
  <1>3. Len(out) \in Nat /\ out'[Len(out) + 1] = e
    BY <1>2, Grown
  <1>4. /\ Positions("done")' = {} /\ Positions("error")' = {}
        /\ \A k : k \in Positions("usage")' <=> k \in Positions("usage") \/ k = Len(out) + 1
        /\ \A k \in Positions("usage") : k \in Nat /\ k <= Len(out)
    BY <1>1, <1>2, PositionsGrow
  <1>5. LastUsage'
    BY <1>1, <1>3, <1>4 DEF LastUsage
  <1> QED
    BY <1>4, <1>5 DEF Ending, ReasonIsDeclared, RepeatsOnlyWhatMayPass, LastUsageIsFinal

RightReason(r) ==
    IF adapter = "gemini" /\ Begun # {} THEN r = "tool_use" ELSE r = Expected(declared)

LEMMA EndingIsDone ==
    ASSUME TypeInv, Positions("done") = {}, Positions("error") = {}, LastUsage,
           NEW r, Yield(<<Done(r)>>), RightReason(r)', tokens' = tokens
    PROVE  Ending'
  <1> DEFINE e == Done(r)
  <1>1. e.type = "done" /\ e.reason = r
    BY DEF Done
  <1>2. Yield(<<e>>)
    OBVIOUS
  <1> HIDE DEF e
  <1>3. /\ Len(out) \in Nat /\ out'[Len(out) + 1] = e
        /\ \A k \in 1..Len(out) : out'[k] = out[k]
    BY <1>2, Grown
  <1>4. /\ \A k : k \in Positions("done")' <=> k = Len(out) + 1
        /\ Positions("error")' = {}
        /\ \A k : k \in Positions("usage")' <=> k \in Positions("usage")
        /\ \A k \in Positions("usage") : k \in Nat /\ k \in 1..Len(out) /\ k <= Len(out)
    BY <1>1, <1>2, PositionsGrow
  <1>5. /\ Positions("usage")' = Positions("usage")
        /\ \A k \in Positions("usage") : out'[k] = out[k] /\ k < Len(out) + 1
    BY <1>3, <1>4
  <1>6. LastUsage'
    BY <1>5 DEF LastUsage
  <1>7. LastUsageIsFinal'
    <2>1. {k \in Positions("usage")' : k < Len(out) + 1} = Positions("usage")'
      BY <1>5
    <2> QED
      BY <1>4, <1>6, <2>1 DEF LastUsage, LastUsageIsFinal
  <1>8. ReasonIsDeclared'
    BY <1>1, <1>3, <1>4 DEF ReasonIsDeclared, RightReason
  <1> QED
    BY <1>4, <1>6, <1>7, <1>8 DEF Ending, RepeatsOnlyWhatMayPass

LEMMA EndingIsMeteredAndDone ==
    ASSUME TypeInv, Positions("done") = {}, Positions("error") = {},
           NEW r, Yield(<<Usage(tokens'), Done(r)>>), RightReason(r)'
    PROVE  Ending'
  <1> DEFINE u == Usage(tokens')
             e == Done(r)
  <1>1. u.type = "usage" /\ u.tokens = tokens' /\ e.type = "done" /\ e.reason = r
    BY DEF Done, Usage
  <1>2. Yield(<<u, e>>)
    OBVIOUS
  <1> HIDE DEF e, u
  <1>3. /\ Len(out) \in Nat /\ out'[Len(out) + 1] = u /\ out'[Len(out) + 2] = e
    BY <1>2, Grown
  <1>4. /\ \A k : k \in Positions("done")' <=> k = Len(out) + 2
        /\ Positions("error")' = {}
        /\ \A k : k \in Positions("usage")' <=> k \in Positions("usage") \/ k = Len(out) + 1
        /\ \A k \in Positions("usage") : k \in Nat /\ k <= Len(out)
    <2>1. ASSUME NEW t
          PROVE  /\ \A k : k \in Positions(t)' <=>
                        \/ k \in Positions(t)
                        \/ k = Len(out) + 1 /\ u.type = t
                        \/ k = Len(out) + 2 /\ e.type = t
                 /\ \A k \in Positions(t) : k \in Nat /\ k <= Len(out)
      BY <1>2, PositionsGrow
    <2> QED
      BY <1>1, <2>1
  <1>5. /\ Len(out) + 1 \in Positions("usage")' /\ out'[Len(out) + 1].tokens = tokens'
        /\ \A k \in Positions("usage")' : k <= Len(out) + 1 /\ k < Len(out) + 2
    BY <1>1, <1>3, <1>4
  <1>6. LastUsage'
    BY <1>5 DEF LastUsage
  <1>7. LastUsageIsFinal'
    <2>1. {k \in Positions("usage")' : k < Len(out) + 2} = Positions("usage")'
      BY <1>5
    <2> QED
      BY <1>4, <1>6, <2>1 DEF LastUsage, LastUsageIsFinal
  <1>8. ReasonIsDeclared'
    BY <1>1, <1>3, <1>4 DEF ReasonIsDeclared, RightReason
  <1> QED
    BY <1>4, <1>6, <1>7, <1>8 DEF Ending, RepeatsOnlyWhatMayPass

LEMMA EndingNext == TypeInv /\ Order /\ Declared /\ Ending /\ [Next]_vars => Ending'
  <1> SUFFICES ASSUME TypeInv, Order, Declared, Ending, [Next]_vars PROVE Ending'
    OBVIOUS
  <1>0. /\ adapter \in Adapter /\ declared \in Outcome \cup {"none"}
        /\ saw_function_call \in BOOLEAN
    BY DEF TypeInv, TypeOK
  <1>1. ASSUME out' = out, adapter' = adapter, cause' = cause,
               \/ Positions("done") = {}
               \/ Begun' = Begun /\ declared' = declared /\ tokens' = tokens,
               adapter = "anthropic" => tokens' = tokens
        PROVE  Ending'
    <2>1. \A t : Positions(t)' = Positions(t)
      BY <1>1 DEF Positions
    <2> QED
      BY <1>1, <2>1, EndingStays
  <1>2. CASE UNCHANGED vars \/ SdkEnds
    BY <1>1, <1>2 DEF vars, SdkEnds, provider, Begun
  <1>3. ASSUME NEW a, NEW b, a.type \notin Ends, b.type \notin Ends,
               Yield(<<a>>) \/ Yield(<<a, b>>), pc = "streaming", upstream = "open",
               UNCHANGED <<adapter, tokens>>
        PROVE  Ending'
    BY <1>3, NotYet, ContentEndsNothing, EndingStays
  <1>4. CASE TextDelta
    BY <1>3, <1>4, ContentIsContent DEF TextDelta
  <1>5. ASSUME NEW i \in Calls, NEW call,
               ToolBlockStart(i, call) \/ OutputItemAdded(i, call) \/ FunctionCallPart(i, call)
        PROVE  Ending'
    BY <1>3, <1>5, ContentIsContent
    DEF ToolBlockStart, OutputItemAdded, FunctionCallPart, Open, Streaming
  <1>6. ASSUME NEW i \in Calls, InputJsonDelta(i) \/ ArgumentsDelta(i)
        PROVE  Ending'
    <2>1. \E id : Yield(<<ToolDelta(id, NextFragment(i))>>)
      BY <1>6, Zenon DEF InputJsonDelta, ArgumentsDelta
    <2>2. pc = "streaming" /\ upstream = "open" /\ UNCHANGED <<adapter, tokens>>
      BY <1>6, Zenon DEF InputJsonDelta, ArgumentsDelta, Open, Streaming
    <2> QED
      BY <1>3, <2>1, <2>2, ContentIsContent
  <1>7. ASSUME NEW i \in Calls, ContentBlockStop(i) \/ ArgumentsDone(i)
        PROVE  Ending'
    <2>1. /\ pc = "streaming" /\ upstream = "open" /\ UNCHANGED <<adapter, tokens, declared>>
          /\ Stops(i)
      BY <1>7 DEF ContentBlockStop, ArgumentsDone, Open, Streaming
    <2>2. Begun' = Begun
      BY <2>1, CallsGrow
    <2>3. \E raw, id, n : Completes(raw, ToolComplete(id, n, raw))
      BY <1>7, Zenon DEF ContentBlockStop, ArgumentsDone
    <2>4. \/ \E id, n, raw : Yield(<<ToolComplete(id, n, raw)>>)
          \/ Fails("other", KindOf("other"))
      BY <2>3 DEF Completes
    <2>5. Fitting("other", KindOf("other"))
      BY <1>0, KindsFit DEF Exceptions
    <2> QED
      BY <1>3, <2>1, <2>2, <2>4, <2>5, ContentIsContent, EndingFails
  <1>8. ASSUME NEW o \in Outcome \cup {"none"}, MessageDelta(o)
        PROVE  Ending'
    <2>1. Positions("done") = {} /\ Positions("error") = {}
      BY <1>8, NotYet DEF MessageDelta, Streaming, TypeInv, TypeOK
    <2> QED
      BY <1>8, <2>1, EndingMeters DEF MessageDelta
  <1>9. CASE MessageStop
    <2>1. Positions("done") = {} /\ Positions("error") = {}
      BY <1>9, NotYet DEF MessageStop, Streaming
    <2>2. /\ Yield(<<Done(AnthropicFinish(reason))>>)
          /\ UNCHANGED <<adapter, declared, made, tokens>> /\ adapter = "anthropic"
      BY <1>9 DEF MessageStop, Streaming, provider
    <2>3. AnthropicFinish(reason) = Expected(declared)
      BY <1>0, <2>2 DEF Declared, AnthropicFinish, Expected, Outcome
    <2>4. PICK r : r = AnthropicFinish(reason)
      OBVIOUS
    <2>5. RightReason(r)'
      BY <2>2, <2>3, <2>4 DEF RightReason, Expected, Begun
    <2> QED
      BY <2>1, <2>2, <2>4, <2>5, EndingIsDone DEF Ending
  <1>10. ASSUME NEW o \in Outcome, ResponseEnds(o)
         PROVE  Ending'
    <2>1. Positions("done") = {} /\ Positions("error") = {}
      BY <1>10, NotYet DEF ResponseEnds, Open, Streaming
    <2>2. /\ Yield(<<Usage(tokens'), Done(OpenAIFinish(o))>>)
          /\ UNCHANGED <<adapter, made>> /\ adapter = "openai" /\ declared' = o /\ o # "tool"
      BY <1>10 DEF ResponseEnds, Open, Streaming, Declares
    <2>3. PICK r : r = OpenAIFinish(o)
      OBVIOUS
    <2>4. RightReason(r)'
      BY <2>2, <2>3 DEF RightReason, Expected, OpenAIFinish, Begun, Outcome
    <2> QED
      BY <2>1, <2>2, <2>3, <2>4, EndingIsMeteredAndDone
  <1>11. CASE EndOfChunks
    <2>1. /\ Positions("done") = {} /\ Positions("error") = {} /\ Positions("usage") = {}
      BY <1>11, NotYet DEF EndOfChunks, Streaming
    <2>2. UNCHANGED <<adapter, declared, made, tokens>> /\ adapter = "gemini" /\ usage = tokens
      BY <1>11 DEF EndOfChunks, Streaming, provider, Declared
    <2> PICK r : r = GeminiFinish(reason)
      OBVIOUS
    <2>3. RightReason(r)'
      BY <1>0, <2>2 DEF Declared, RightReason, Expected, GeminiFinish, Begun, Outcome
    <2>4. CASE usage = 0
      <3>1. Yield(<<Done(r)>>)
        BY <1>11, <2>4, EmptyFirst DEF EndOfChunks, Yield
      <3>2. LastUsage
        BY <2>1, <2>2, <2>4 DEF LastUsage
      <3> QED
        BY <2>1, <2>2, <2>3, <3>1, <3>2, EndingIsDone
    <2>5. CASE usage # 0
      <3>1. Yield(<<Usage(tokens'), Done(r)>>)
        BY <1>11, <2>2, <2>5 DEF EndOfChunks, Yield
      <3> QED
        BY <2>1, <2>3, <3>1, EndingIsMeteredAndDone
    <2> QED
      BY <2>4, <2>5
  <1>12. ASSUME NEW o, UsageChunk \/ FinishChunk(o)
         PROVE  Ending'
    <2>1. Positions("done") = {}
      BY <1>12, NotYet DEF UsageChunk, FinishChunk, Open, Streaming
    <2> QED
      BY <1>1, <1>12, <2>1 DEF UsageChunk, FinishChunk, Open, Streaming
  <1>13. ASSUME NEW e \in Exceptions, SdkRaises(e)
         PROVE  Ending'
    BY <1>0, <1>13, KindsFit, EndingFails DEF SdkRaises, provider, Begun
  <1>14. ASSUME NEW c \in ErrorCodes, StreamError(c)
         PROVE  Ending'
    BY <1>0, <1>14, KindsFit, EndingFails DEF StreamError, Open, Streaming, provider, Begun
  <1> QED
    BY <1>2, <1>4, <1>5, <1>6, <1>7, <1>8, <1>9, <1>10, <1>11, <1>12, <1>13, <1>14
    DEF Next, Finished

LEMMA EndingInit == Init => Ending
  <1> SUFFICES ASSUME Init PROVE Ending
    OBVIOUS
  <1>1. \A t : Positions(t) = {}
    BY DEF Init, Positions
  <1> QED
    BY <1>1 DEF Init, Ending, ReasonIsDeclared, RepeatsOnlyWhatMayPass, LastUsageIsFinal, LastUsage

LEMMA EndingInvariance == Spec => []Ending
  BY TypeInit, TypeNext, DeclaredInit, DeclaredNext, EndingInit, EndingNext, StreamInvariance,
     PTL DEF Spec

\* How a stream ended reaches the turn as it was, from all three adapters: the
\* reason it is done, and whether its failure is worth repeating.
THEOREM OutcomeIsReportedHolds == Spec => []OutcomeIsReported
  <1>1. Ending => OutcomeIsReported
    BY DEF Ending, OutcomeIsReported
  <1> QED
    BY <1>1, EndingInvariance, PTL

\* When a stream is done, the last usage it told is its provider's last count.
THEOREM LastUsageIsFinalHolds == Spec => []LastUsageIsFinal
  <1>1. Ending => LastUsageIsFinal
    BY DEF Ending
  <1> QED
    BY <1>1, EndingInvariance, PTL

-----------------------------------------------------------------------------
(* Which call an event belongs to.                                         *)

LEMMA ArgumentsGrow ==
    ASSUME NEW i, NEW n \in Nat
    PROVE  /\ Len(Arguments(i, n)) = n
           /\ Arguments(i, 0) = <<>>
           /\ \A p \in 1..n : Arguments(i, n)[p] = [call |-> i, part |-> p]
           /\ Append(Arguments(i, n), [call |-> i, part |-> n + 1]) = Arguments(i, n + 1)
  <1> DEFINE S == {[call |-> i, part |-> p] : p \in Nat}
             args(m) == Arguments(i, m)
             new == [call |-> i, part |-> n + 1]
  <1>1. \A m \in Nat : /\ args(m) \in Seq(S) /\ Len(args(m)) = m
                       /\ \A p \in 1..m : args(m)[p] = [call |-> i, part |-> p]
    BY DEF Arguments
  <1>2. args(0) = <<>>
    BY DEF Arguments
  <1>3. new \in S
    OBVIOUS
  <1>4. Append(args(n), new) = args(n + 1)
    <2> HIDE DEF args, S, new
    <2>0. n + 1 \in Nat
      OBVIOUS
    <2>1. args(n) \in Seq(S) /\ Len(args(n)) = n /\ args(n + 1) \in Seq(S) /\ Len(args(n + 1)) = n + 1
      BY <1>1, <2>0
    <2>2. \A p \in 1..(n + 1) : args(n + 1)[p] = IF p <= n THEN args(n)[p] ELSE new
      <3>1. \A p \in 1..(n + 1) : p <= n => p \in 1..n
        OBVIOUS
      <3>2. \A p \in 1..(n + 1) : ~ (p <= n) => p = n + 1
        OBVIOUS
      <3> QED
        BY ZenonT(60), <1>1, <2>0, <3>1, <3>2 DEF new
    <2>3. /\ Append(args(n), new) \in Seq(S) /\ Len(Append(args(n), new)) = n + 1
          /\ \A p \in 1..n : Append(args(n), new)[p] = args(n)[p]
          /\ Append(args(n), new)[n + 1] = new
      BY <1>3, <2>1, AppendProperties
    <2>4. \A p \in 1..(n + 1) : Append(args(n), new)[p] = args(n + 1)[p]
      BY <2>2, <2>3
    <2> QED
      BY <2>1, <2>3, <2>4, SeqEqual
  <1> QED
    BY <1>1, <1>2, <1>4

\* What parses is nothing at all, or all that the call had to send: the fragments
\* of one call are not another's.
LEMMA WholeOrNothing ==
    ASSUME TypeInv, NEW i \in Begun, Parses(Sent(i))
    PROVE  Sent(i) \in {<<>>, Whole(i)}
  <1> SUFFICES ASSUME Sent(i) # <<>> PROVE Sent(i) = Whole(i)
    OBVIOUS
  <1>1. PICK j \in Begun : Sent(i) = Whole(j)
    BY DEF Parses
  <1>2. /\ made[i] \in Call /\ made[j] \in Call
        /\ made[i].sent \in Nat /\ made[j].size \in Nat
    BY EntriesAndCalls, AdaptersAssumption DEF Begun, TypeInv, TypeOK, Call
  <1>3. Arguments(i, made[i].sent) = Arguments(j, made[j].size)
    BY <1>1 DEF Sent, Whole
  <1>4. made[i].sent # 0
    BY ArgumentsGrow DEF Sent
  <1>5. /\ 1 \in 1..made[i].sent /\ 1 \in 1..made[j].size
        /\ Arguments(i, made[i].sent)[1] = [call |-> i, part |-> 1]
        /\ Arguments(j, made[j].size)[1] = [call |-> j, part |-> 1]
    <2>1. made[i].sent = made[j].size
      <3>1. Len(Arguments(i, made[i].sent)) = made[i].sent
        BY <1>2, ArgumentsGrow
      <3>2. Len(Arguments(j, made[j].size)) = made[j].size
        BY <1>2, ArgumentsGrow
      <3> QED
        BY <1>3, <3>1, <3>2
    <2>2. 1 \in 1..made[i].sent
      BY <1>2, <1>4
    <2> QED
      BY <1>2, <2>1, <2>2, ArgumentsGrow
  <1>6. i = j
    BY <1>3, <1>5
  <1> QED
    BY <1>1, <1>6

\* What the adapters of Anthropic and OpenAI remember of a call is its own.
Booked ==
    adapter # "gemini" => \A i \in Begun :
        /\ made[i].id = "given"
        /\ book[i].id = CallId(i) /\ book[i].name = made[i].name
        /\ adapter = "anthropic" => book[i].buffer = Sent(i)

LEMMA BookedInit == Init => Booked
  BY DEF Init, Booked, Begun

LEMMA BookedNext == TypeInv /\ Booked /\ [Next]_vars => Booked'
  <1> SUFFICES ASSUME TypeInv, Booked, [Next]_vars, adapter' # "gemini" PROVE Booked'
    BY DEF Booked
  <1>0. /\ made \in [Calls -> Call \cup {NoCall}]
        /\ book \in [Calls -> Entry \cup {NoEntry}]
    BY DEF TypeInv, TypeOK
  <1>1. CASE UNCHANGED <<adapter, made, book>>
    BY <1>1 DEF Booked, Begun, Sent
  <1>2. ASSUME NEW i \in Calls, NEW call \in NewCalls("given"),
               ToolBlockStart(i, call) \/ OutputItemAdded(i, call)
        PROVE  Booked'
    <2>1. call \in Call /\ call.id = "given" /\ call.sent = 0
      BY AdaptersAssumption DEF NewCalls, Call
    <2>2. /\ Begins(i, call) /\ adapter' = adapter
          /\ book' = [book EXCEPT ![i] = [id |-> CallId(i), name |-> call.name, buffer |-> <<>>]]
      BY <1>2 DEF ToolBlockStart, OutputItemAdded, Remember
    <2>3. Begun' = Begun \cup {i} /\ made' = [made EXCEPT ![i] = call]
      BY <2>1, <2>2, CallsGrow DEF Begins
    <2>4. Sent(i)' = <<>>
      BY <1>0, <2>1, <2>3, ArgumentsGrow DEF Sent
    <2>5. \A j \in Begun \ {i} : made'[j] = made[j] /\ book'[j] = book[j] /\ j \in Calls
      BY <1>0, <2>2, <2>3 DEF Begun
    <2>6. made'[i] = call /\ book'[i] = [id |-> CallId(i), name |-> call.name, buffer |-> <<>>]
      BY <1>0, <2>2, <2>3
    <2> QED
      BY <2>1, <2>2, <2>3, <2>4, <2>5, <2>6 DEF Booked, Sent
  <1>3. ASSUME NEW i \in Calls, InputJsonDelta(i) \/ ArgumentsDelta(i)
        PROVE  Booked'
    <2>1. /\ Sends(i) /\ adapter' = adapter /\ adapter # "gemini"
          /\ made' = [made EXCEPT ![i].sent = @ + 1]
      BY <1>3, Zenon DEF InputJsonDelta, ArgumentsDelta, Sends, Open, Streaming
    <2>2. /\ i \in Begun /\ Begun' = Begun /\ made'[i].id = made[i].id
          /\ made'[i].name = made[i].name /\ \A j \in Calls \ {i} : made'[j] = made[j]
      BY <2>1, CallsGrow
    <2>3. made[i] \in Call /\ made'[i].sent = made[i].sent + 1 /\ made[i].sent \in Nat
      BY <1>0, <2>1, <2>2, EntriesAndCalls, AdaptersAssumption DEF Begun, Call
    <2>4. Append(Sent(i), NextFragment(i)) = Sent(i)'
      BY <2>3, ArgumentsGrow DEF Sent, NextFragment
    <2>5. book[i] \in Entry
      BY <1>0, <2>1, <2>2, EntriesAndCalls DEF Begun, Remembered, TypeInv
    <2>6. /\ book'[i].id = book[i].id /\ book'[i].name = book[i].name
          /\ adapter = "anthropic" => book'[i].buffer = Append(book[i].buffer, NextFragment(i))
          /\ \A j \in Calls \ {i} : book'[j] = book[j]
      <3>1. CASE InputJsonDelta(i)
        <4>1. book' = [book EXCEPT ![i] = [book[i] EXCEPT !.buffer = Append(@, NextFragment(i))]]
          BY <1>0, <3>1 DEF InputJsonDelta
        <4> QED
          BY <1>0, <2>5, <4>1 DEF Entry
      <3>2. CASE ArgumentsDelta(i)
        BY <3>2 DEF ArgumentsDelta, Open, Streaming, memory
      <3> QED
        BY <1>3, <3>1, <3>2
    <2>7. ASSUME NEW j \in Begun \ {i}
          PROVE  made'[j] = made[j] /\ book'[j] = book[j] /\ Sent(j)' = Sent(j)
      BY <2>2, <2>6 DEF Begun, Sent
    <2> QED
      BY ZenonT(60), <2>1, <2>2, <2>4, <2>6, <2>7 DEF Booked
  <1>4. ASSUME NEW i \in Calls, ContentBlockStop(i) \/ ArgumentsDone(i)
        PROVE  Booked'
    <2>1. Stops(i) /\ UNCHANGED <<adapter, book>>
      BY <1>4 DEF ContentBlockStop, ArgumentsDone, memory
    <2>2. /\ i \in Begun /\ Begun' = Begun /\ made'[i].id = made[i].id
          /\ made'[i].name = made[i].name /\ \A j \in Calls \ {i} : made'[j] = made[j]
      BY <2>1, CallsGrow
    <2>3. made'[i].sent = made[i].sent
      BY <1>0, <2>1, <2>2, EntriesAndCalls DEF Begun, Stops, Call
    <2>4. \A j \in Begun : /\ made'[j].id = made[j].id /\ made'[j].name = made[j].name
                           /\ Sent(j)' = Sent(j)
      BY <2>2, <2>3 DEF Begun, Sent
    <2> QED
      BY <2>1, <2>2, <2>4 DEF Booked
  <1>5. ASSUME NEW i, NEW call, FunctionCallPart(i, call)
        PROVE  FALSE
    BY <1>5 DEF FunctionCallPart, Open, Streaming
  <1>6. ASSUME NEW o, MessageDelta(o) \/ ResponseEnds(o) \/ FinishChunk(o)
        PROVE  UNCHANGED <<adapter, made, book>>
    BY <1>6 DEF MessageDelta, ResponseEnds, FinishChunk, memory
  <1>7. ASSUME NEW e, SdkRaises(e) \/ StreamError(e)
        PROVE  UNCHANGED <<adapter, made, book>>
    BY <1>7 DEF SdkRaises, StreamError, provider, memory
  <1>8. ASSUME TextDelta \/ MessageStop \/ UsageChunk \/ EndOfChunks \/ SdkEnds \/ UNCHANGED vars
        PROVE  UNCHANGED <<adapter, made, book>>
    BY <1>8 DEF TextDelta, MessageStop, UsageChunk, EndOfChunks, SdkEnds, provider, memory, vars
  <1> QED
    BY <1>1, <1>2, <1>3, <1>4, <1>5, <1>6, <1>7, <1>8 DEF Next, Finished

\* What no step undoes: a call keeps its id, name and size, and once it is
\* stopped all else; an event keeps its place.
MadeGrows ==
    /\ Begun \subseteq Begun'
    /\ \A i \in Begun :
        /\ made'[i].id = made[i].id /\ made'[i].name = made[i].name
        /\ made'[i].size = made[i].size
        /\ made[i].state = "stopped" => made'[i] = made[i]
OutGrows ==
    /\ Len(out) \in Nat /\ Len(out') \in Nat /\ Len(out) <= Len(out')
    /\ \A k \in 1..Len(out) : out'[k] = out[k]
SamePositions(t) == \A k : k \in Positions(t)' <=> k \in Positions(t)

\* CallsAreReal, of a call that has stopped and so will not change any more.
RealAt(k) ==
    /\ \E j \in 1..(k - 1) : out[j] = ToolStart(out[k].id, out[k].name)
    /\ \E i \in Begun :
        /\ made[i].state = "stopped"
        /\ out[k] = ToolComplete(ReportedId(i), made[i].name, Sent(i))
        /\ Sent(i) \in {<<>>, Whole(i)}
Announced(i) == \E j \in 1..Len(out) : out[j] = ToolStart(CallId(i), made[i].name)

\* FragmentsReachTheirCall, of every call: one not begun has sent nothing.
DeltasOf(i) == {k \in Positions("tool_delta") : out[k].id = CallId(i)}
SentBy(i) == IF i \in Begun THEN made[i].sent ELSE 0
StreamedAt(i) ==
    /\ \A k \in DeltasOf(i) :
        \E p \in 1..SentBy(i) : out[k].fragment = [call |-> i, part |-> p]
    /\ \A p \in 1..SentBy(i) :
        \E k \in DeltasOf(i) : out[k].fragment = [call |-> i, part |-> p]
    /\ \A j, k \in DeltasOf(i) : j < k => out[j].fragment.part < out[k].fragment.part

Matched ==
    /\ \A k \in Positions("tool_complete") : RealAt(k)
    /\ IdsTellCallsApart
    /\ adapter # "gemini" => \A i \in Begun : Announced(i)
    /\ adapter # "gemini" => \A i \in Calls : StreamedAt(i)

LEMMA IdsDiffer ==
    /\ \A i, j : CallId(i) = CallId(j) => i = j
    /\ \A id, n, s, id2, n2, s2 :
        ToolComplete(id, n, s) = ToolComplete(id2, n2, s2) => id = id2 /\ n = n2 /\ s = s2
    /\ \A id, n, s : /\ ToolComplete(id, n, s).id = id /\ ToolComplete(id, n, s).name = n
                     /\ ToolComplete(id, n, s).input = s
                     /\ ToolComplete(id, n, s).type = "tool_complete"
    /\ \A id, f : /\ ToolDelta(id, f).id = id /\ ToolDelta(id, f).fragment = f
                  /\ ToolDelta(id, f).type = "tool_delta"
    /\ \A id, n : ToolStart(id, n).type = "tool_start"
  BY DEF CallId, ToolComplete, ToolDelta, ToolStart

LEMMA RealStays ==
    ASSUME MadeGrows, OutGrows, NEW k \in 1..Len(out), RealAt(k)
    PROVE  RealAt(k)'
  <1>1. PICK j \in 1..(k - 1) : out[j] = ToolStart(out[k].id, out[k].name)
    BY DEF RealAt
  <1>2. out'[k] = out[k] /\ out'[j] = out[j]
    BY DEF OutGrows
  <1>3. PICK i \in Begun :
          /\ made[i].state = "stopped"
          /\ out[k] = ToolComplete(ReportedId(i), made[i].name, Sent(i))
          /\ Sent(i) \in {<<>>, Whole(i)}
    BY DEF RealAt
  <1>4. i \in Begun' /\ made'[i] = made[i]
    BY <1>3 DEF MadeGrows
  <1>5. ReportedId(i)' = ReportedId(i) /\ Sent(i)' = Sent(i) /\ Whole(i)' = Whole(i)
    BY <1>4 DEF ReportedId, Sent, Whole
  <1>6. \E x \in 1..(k - 1) : out'[x] = ToolStart(out'[k].id, out'[k].name)
    BY <1>1, <1>2
  <1>7. /\ made'[i].state = "stopped"
        /\ out'[k] = ToolComplete(ReportedId(i)', made'[i].name, Sent(i)')
        /\ Sent(i)' \in {<<>>, Whole(i)'}
    BY <1>2, <1>3, <1>4, <1>5
  <1> QED
    BY <1>4, <1>6, <1>7 DEF RealAt

LEMMA AnnouncedStays ==
    ASSUME MadeGrows, OutGrows, NEW i \in Begun, Announced(i)
    PROVE  Announced(i)'
  BY DEF MadeGrows, OutGrows, Announced

LEMMA StreamedStays ==
    ASSUME OutGrows, TypeInv, SamePositions("tool_delta"), NEW i, SentBy(i)' = SentBy(i), StreamedAt(i)
    PROVE  StreamedAt(i)'
  <1>1. \A k \in Positions("tool_delta") : k \in 1..Len(out) /\ out'[k] = out[k]
    BY PositionsGrow DEF OutGrows
  <1>2. DeltasOf(i)' = DeltasOf(i) /\ \A k \in DeltasOf(i) : out'[k] = out[k]
    BY <1>1 DEF SamePositions, DeltasOf
  <1>3. /\ \A k \in DeltasOf(i)' :
            \E p \in 1..SentBy(i)' : out'[k].fragment = [call |-> i, part |-> p]
        /\ \A p \in 1..SentBy(i)' :
            \E k \in DeltasOf(i)' : out'[k].fragment = [call |-> i, part |-> p]
    <2>1. /\ \A k \in DeltasOf(i) :
                \E p \in 1..SentBy(i) : out[k].fragment = [call |-> i, part |-> p]
          /\ \A p \in 1..SentBy(i) :
                \E k \in DeltasOf(i) : out[k].fragment = [call |-> i, part |-> p]
      BY Zenon DEF StreamedAt
    <2>2. \A k \in DeltasOf(i) : out'[k].fragment = out[k].fragment
      BY <1>2
    <2> QED
      BY <1>2, <2>1, <2>2
  <1>4. \A j, k \in DeltasOf(i)' : j < k => out'[j].fragment.part < out'[k].fragment.part
    <2>1. \A j, k \in DeltasOf(i) : j < k => out[j].fragment.part < out[k].fragment.part
      BY Zenon DEF StreamedAt
    <2> SUFFICES ASSUME NEW j \in DeltasOf(i), NEW k \in DeltasOf(i), j < k
                 PROVE  out'[j].fragment.part < out'[k].fragment.part
      BY <1>2
    <2>2. out'[j] = out[j] /\ out'[k] = out[k]
      BY <1>2
    <2>3. out[j].fragment.part < out[k].fragment.part
      BY <2>1
    <2> QED
      BY <2>2, <2>3
  <1> QED
    BY <1>3, <1>4 DEF StreamedAt

LEMMA ApartStays ==
    ASSUME TypeInv, MadeGrows, OutGrows, SamePositions("tool_complete"), IdsTellCallsApart
    PROVE  IdsTellCallsApart'
  <1>1. \A k \in Positions("tool_complete") : k \in 1..Len(out) /\ out'[k] = out[k]
    BY PositionsGrow DEF OutGrows
  <1>2. Positions("tool_complete")' = Positions("tool_complete")
    BY DEF SamePositions
  <1> QED
    BY <1>1, <1>2 DEF IdsTellCallsApart, MadeGrows

\* One call is completed, by the last event of the stream.
LEMMA OneCompletes ==
    ASSUME TypeInv, Matched, MadeGrows, OutGrows, Len(out) < Len(out'),
           \A x \in Begun' : made'[x].id \in {"given", "absent"},
           \A k : k \in Positions("tool_complete")'
                  <=> k \in Positions("tool_complete") \/ k = Len(out'),
           NEW i \in Begun', made'[i].state = "stopped",
           i \notin Begun \/ made[i].state # "stopped",
           out'[Len(out')] = ToolComplete(ReportedId(i)', made'[i].name, Sent(i)'),
           Sent(i)' \in {<<>>, Whole(i)'},
           \E j \in 1..(Len(out') - 1) : out'[j] = ToolStart(ReportedId(i)', made'[i].name)
    PROVE  (\A k \in Positions("tool_complete") : RealAt(k))' /\ IdsTellCallsApart'
  <1> PICK n \in Nat : n = Len(out')
    BY DEF OutGrows
  <1>1. \A k \in Positions("tool_complete") : k \in 1..Len(out) /\ out'[k] = out[k] /\ RealAt(k)'
    BY PositionsGrow, RealStays DEF OutGrows, Matched
  <1>2. n \notin Positions("tool_complete")
    BY <1>1 DEF OutGrows
  <1>3. out'[n].id = ReportedId(i)' /\ out'[n].name = made'[i].name
    BY IdsDiffer
  <1>4. RealAt(n)'
    BY <1>3 DEF RealAt
  <1>5. \A k \in Positions("tool_complete")' : RealAt(k)'
    BY <1>1, <1>4
  <1>6. ASSUME NEW k \in Positions("tool_complete"), out'[k].id = out'[n].id,
               \A x \in Begun' : made'[x].id # "absent"
        PROVE  FALSE
    <2>1. PICK x \in Begun :
            /\ made[x].state = "stopped"
            /\ out[k] = ToolComplete(ReportedId(x), made[x].name, Sent(x))
      BY DEF Matched, RealAt
    <2>2. x # i /\ x \in Begun' /\ made'[x] = made[x]
      BY <2>1 DEF MadeGrows
    <2>3. made'[x].id = "given" /\ made'[i].id = "given"
      BY <1>6, <2>2
    <2>4. out'[k].id = CallId(x) /\ out'[n].id = CallId(i)
      BY <1>1, <1>3, <2>1, <2>2, <2>3, IdsDiffer DEF ReportedId
    <2> QED
      BY <1>6, <2>2, <2>4, IdsDiffer
  <1>7. IdsTellCallsApart'
    <2> SUFFICES ASSUME NEW j \in Positions("tool_complete")',
                        NEW k \in Positions("tool_complete")',
                        j # k, out'[j].id = out'[k].id
                 PROVE  \E x \in Begun' : made'[x].id = "absent"
      BY DEF IdsTellCallsApart
    <2>1. CASE j \in Positions("tool_complete") /\ k \in Positions("tool_complete")
      BY <1>1, <2>1 DEF Matched, IdsTellCallsApart, MadeGrows
    <2>2. CASE j = n \/ k = n
      BY <1>6, <2>2
    <2> QED
      BY <2>1, <2>2
  <1> QED
    BY <1>5, <1>7

LEMMA MadeGrowsBy ==
    ASSUME TypeInv, NEW i \in Calls
    PROVE  /\ made' = made => MadeGrows /\ Begun' = Begun
           /\ \A call \in Call : Begins(i, call) =>
                MadeGrows /\ made'[i] = call /\ i \notin Begun
           /\ Sends(i) => MadeGrows /\ made'[i].sent = made[i].sent + 1
           /\ Stops(i) => /\ MadeGrows /\ made[i].state = "arriving"
                          /\ made'[i].state = "stopped" /\ made'[i].sent = made[i].sent
  <1>0. made \in [Calls -> Call \cup {NoCall}]
    BY DEF TypeInv, TypeOK
  <1>1. ASSUME made' = made
        PROVE  MadeGrows /\ Begun' = Begun
    BY <1>1 DEF MadeGrows, Begun
  <1>2. ASSUME NEW call \in Call, Begins(i, call)
        PROVE  MadeGrows /\ made'[i] = call /\ i \notin Begun
    <2>1. Begun' = Begun \cup {i} /\ i \notin Begun
      BY <1>2, CallsGrow DEF Begins
    <2>2. made'[i] = call /\ \A j \in Begun : made'[j] = made[j]
      BY <1>0, <1>2 DEF Begins, Begun
    <2> QED
      BY <2>1, <2>2 DEF MadeGrows
  <1>3. ASSUME Sends(i)
        PROVE  MadeGrows /\ made'[i].sent = made[i].sent + 1
    <2>1. made[i] \in Call /\ made[i].state = "arriving"
      BY <1>0, <1>3, EntriesAndCalls DEF Sends, Unfinished, Begun
    <2>2. made'[i] = [made[i] EXCEPT !.sent = @ + 1]
      BY <1>0, <1>3 DEF Sends
    <2>3. made'[i].sent = made[i].sent + 1
      BY <2>1, <2>2 DEF Call
    <2>4. /\ Begun' = Begun /\ made'[i].id = made[i].id /\ made'[i].name = made[i].name
          /\ made'[i].size = made[i].size /\ \A j \in Calls \ {i} : made'[j] = made[j]
      BY <1>3, CallsGrow
    <2> QED
      BY <2>1, <2>3, <2>4 DEF MadeGrows, Begun
  <1>4. ASSUME Stops(i)
        PROVE  /\ MadeGrows /\ made[i].state = "arriving"
               /\ made'[i].state = "stopped" /\ made'[i].sent = made[i].sent
    <2>1. made[i] \in Call /\ made[i].state = "arriving"
      BY <1>0, <1>4, EntriesAndCalls DEF Stops, Unfinished, Begun
    <2>2. made'[i] = [made[i] EXCEPT !.state = "stopped"]
      BY <1>0, <1>4 DEF Stops
    <2>3. made'[i].state = "stopped" /\ made'[i].sent = made[i].sent
      BY <2>1, <2>2 DEF Call
    <2>4. /\ Begun' = Begun /\ made'[i].id = made[i].id /\ made'[i].name = made[i].name
          /\ made'[i].size = made[i].size /\ \A j \in Calls \ {i} : made'[j] = made[j]
      BY <1>4, CallsGrow
    <2> QED
      BY <2>1, <2>3, <2>4 DEF MadeGrows, Begun
  <1> QED
    BY <1>1, <1>2, <1>3, <1>4

LEMMA OutGrowsBy ==
    ASSUME TypeInv, NEW a, NEW b
    PROVE  /\ out' = out => OutGrows /\ \A t : SamePositions(t)
           /\ Yield(<<a>>) => OutGrows /\ \A t : a.type # t => SamePositions(t)
           /\ Yield(<<a, b>>) =>
                OutGrows /\ \A t : a.type # t /\ b.type # t => SamePositions(t)
  <1>1. Len(out) \in Nat
    BY Grown
  <1>2. out' = out => OutGrows /\ \A t : SamePositions(t)
    BY <1>1 DEF OutGrows, SamePositions, Positions
  <1>3. ASSUME Yield(<<a>>) PROVE OutGrows
    <2>1. Len(out') = Len(out) + 1 /\ \A k \in 1..Len(out) : out'[k] = out[k]
      BY <1>3, Grown
    <2> QED
      BY <1>1, <2>1 DEF OutGrows
  <1>4. ASSUME Yield(<<a, b>>) PROVE OutGrows
    <2>1. Len(out') = Len(out) + 2 /\ \A k \in 1..Len(out) : out'[k] = out[k]
      BY <1>4, Grown
    <2> QED
      BY <1>1, <2>1 DEF OutGrows
  <1>5. ASSUME NEW t, a.type # t, Yield(<<a>>) PROVE SamePositions(t)
    BY <1>5, PositionsGrow DEF SamePositions
  <1>6. ASSUME NEW t, a.type # t, b.type # t, Yield(<<a, b>>) PROVE SamePositions(t)
    BY <1>6, PositionsGrow DEF SamePositions
  <1> QED
    BY <1>2, <1>3, <1>4, <1>5, <1>6

\* A step that completes no call and streams none of a call's arguments.
LEMMA MatchedStays ==
    ASSUME TypeInv, Matched, MadeGrows, OutGrows, adapter' = adapter,
           SamePositions("tool_complete"), SamePositions("tool_delta"),
           adapter # "gemini" => \A i \in Begun' \ Begun : Announced(i)',
           adapter # "gemini" => \A i \in Calls : SentBy(i)' = SentBy(i)
    PROVE  Matched'
  <1>1. \A k \in Positions("tool_complete")' : RealAt(k)'
    <2> TAKE k \in Positions("tool_complete")'
    <2>1. k \in Positions("tool_complete") /\ k \in 1..Len(out)
      BY PositionsGrow DEF SamePositions
    <2> QED
      BY <2>1, RealStays DEF Matched
  <1>2. IdsTellCallsApart'
    BY ApartStays DEF Matched
  <1>3. ASSUME adapter # "gemini", NEW i \in Begun' PROVE Announced(i)'
    BY <1>3, AnnouncedStays DEF Matched
  <1>4. ASSUME adapter # "gemini", NEW i \in Calls PROVE StreamedAt(i)'
    BY <1>4, StreamedStays DEF Matched
  <1> QED
    BY <1>1, <1>2, <1>3, <1>4 DEF Matched

\* A fragment reaches the call it is of, after those sent before it.
LEMMA FragmentMatched ==
    ASSUME TypeInv, Matched, NEW i \in Calls, Sends(i), adapter' = adapter, adapter # "gemini",
           Yield(<<ToolDelta(CallId(i), NextFragment(i))>>)
    PROVE  Matched'
  <1> PICK n \in Nat : n = made[i].sent
    BY EntriesAndCalls, AdaptersAssumption
    DEF Sends, Unfinished, Begun, TypeInv, TypeOK, Call
  <1> PICK last \in Nat : last = Len(out) + 1
    BY Grown
  <1> PICK e : e = ToolDelta(CallId(i), NextFragment(i))
    OBVIOUS
  <1>1. /\ Yield(<<e>>) /\ e.type = "tool_delta" /\ e.id = CallId(i)
        /\ e.fragment = [call |-> i, part |-> n + 1]
    BY IdsDiffer DEF NextFragment
  <1>2. /\ OutGrows /\ SamePositions("tool_complete") /\ out'[last] = e
        /\ \A k \in 1..Len(out) : out'[k] = out[k]
    BY <1>1, OutGrowsBy, Grown
  <1>3. /\ i \in Begun /\ Begun' = Begun /\ made'[i].sent = n + 1 /\ MadeGrows
        /\ \A j \in Calls \ {i} : made'[j] = made[j]
    BY CallsGrow, MadeGrowsBy
  <1>4. \A k : k \in Positions("tool_delta")' <=> k \in Positions("tool_delta") \/ k = last
    BY <1>1, PositionsGrow
  <1>5. \A k \in Positions("tool_delta") :
          k \in Nat /\ k < last /\ k \in 1..Len(out) /\ out'[k] = out[k]
    <2>1. \A k \in Positions("tool_delta") : k \in 1..Len(out)
      BY PositionsGrow
    <2>2. Len(out) \in Nat /\ last = Len(out) + 1
      BY Grown
    <2>3. \A k \in 1..Len(out) : k \in Nat /\ k < last
      BY <2>2
    <2> QED
      BY <1>2, <2>1, <2>3
  <1>6. \A k : k \in DeltasOf(i)' <=> k \in DeltasOf(i) \/ k = last
    BY <1>1, <1>2, <1>4, <1>5 DEF DeltasOf
  <1>7. \A k \in DeltasOf(i) : k \in Nat /\ k < last /\ out'[k] = out[k]
    BY <1>5 DEF DeltasOf
  <1>8. SentBy(i) = n /\ SentBy(i)' = n + 1
    BY <1>3 DEF SentBy
  <1>9. /\ \A k \in DeltasOf(i) : \E p \in 1..n : out'[k].fragment = [call |-> i, part |-> p]
        /\ \A p \in 1..n : \E k \in DeltasOf(i) : out'[k].fragment = [call |-> i, part |-> p]
        /\ \A j, k \in DeltasOf(i) : j < k => out'[j].fragment.part < out'[k].fragment.part
    <2>0. StreamedAt(i)
      BY DEF Matched
    <2>1. \A k \in DeltasOf(i) : \E p \in 1..n : out[k].fragment = [call |-> i, part |-> p]
      BY <2>0, <1>8 DEF StreamedAt
    <2>2. \A p \in 1..n : \E k \in DeltasOf(i) : out[k].fragment = [call |-> i, part |-> p]
      BY <2>0, <1>8 DEF StreamedAt
    <2>3. \A j, k \in DeltasOf(i) : j < k => out[j].fragment.part < out[k].fragment.part
      BY <2>0 DEF StreamedAt
    <2>4. \A j, k \in DeltasOf(i) : j < k => out'[j].fragment.part < out'[k].fragment.part
      BY <1>7, <2>3
    <2>5. \A k \in DeltasOf(i) : out'[k] = out[k]
      BY <1>7
    <2>6. \A k \in DeltasOf(i) : \E p \in 1..n : out'[k].fragment = [call |-> i, part |-> p]
      BY <2>1, <2>5
    <2>7. \A p \in 1..n : \E k \in DeltasOf(i) : out'[k].fragment = [call |-> i, part |-> p]
      BY <2>2, <2>5
    <2> QED
      BY <2>4, <2>6, <2>7
  <1>10. n + 1 \in 1..(n + 1) /\ \A p \in 1..(n + 1) : p \in 1..n \/ p = n + 1
    OBVIOUS
  <1>11. \A p \in 1..n : p \in 1..(n + 1) /\ p < n + 1
    OBVIOUS
  <1>12. \A k \in DeltasOf(i)' :
           \E p \in 1..SentBy(i)' : out'[k].fragment = [call |-> i, part |-> p]
    <2> TAKE k \in DeltasOf(i)'
    <2>1. CASE k \in DeltasOf(i)
      BY <1>8, <1>9, <1>11, <2>1
    <2>2. CASE k = last
      BY <1>1, <1>2, <1>8, <1>10, <2>2
    <2> QED
      BY <1>6, <2>1, <2>2
  <1>13. \A p \in 1..SentBy(i)' :
           \E k \in DeltasOf(i)' : out'[k].fragment = [call |-> i, part |-> p]
    BY <1>1, <1>2, <1>6, <1>8, <1>9, <1>10
  <1>14. \A j, k \in DeltasOf(i)' : j < k => out'[j].fragment.part < out'[k].fragment.part
    <2> SUFFICES ASSUME NEW j \in DeltasOf(i)', NEW k \in DeltasOf(i)', j < k
                 PROVE  out'[j].fragment.part < out'[k].fragment.part
      OBVIOUS
    <2>1. j \in DeltasOf(i)
      BY <1>6, <1>7
    <2>2. CASE k \in DeltasOf(i)
      BY <1>9, <2>1, <2>2
    <2>3. CASE k = last
      <3>1. PICK p \in 1..n : out'[j].fragment = [call |-> i, part |-> p]
        BY <1>9, <2>1
      <3>2. out'[j].fragment.part < n + 1
        BY <1>11, <3>1
      <3> QED
        BY <1>1, <1>2, <2>3, <3>2
    <2> QED
      BY <1>6, <2>2, <2>3
  <1>15. StreamedAt(i)'
    BY <1>12, <1>13, <1>14 DEF StreamedAt
  <1>16. ASSUME NEW j \in Calls \ {i} PROVE StreamedAt(j)'
    <2>1. \A k : k \in DeltasOf(j)' <=> k \in DeltasOf(j)
      BY <1>1, <1>2, <1>4, <1>5, <1>16, IdsDiffer DEF DeltasOf
    <2>2. DeltasOf(j)' = DeltasOf(j) /\ \A k \in DeltasOf(j) : out'[k] = out[k]
      BY <1>5, <2>1 DEF DeltasOf
    <2>3. SentBy(j)' = SentBy(j)
      BY <1>3, <1>16 DEF SentBy
    <2>4. StreamedAt(j)
      BY <1>16 DEF Matched
    <2>5. \A k \in DeltasOf(j)' :
            \E p \in 1..SentBy(j)' : out'[k].fragment = [call |-> j, part |-> p]
      BY <2>2, <2>3, <2>4 DEF StreamedAt
    <2>6. \A p \in 1..SentBy(j)' :
            \E k \in DeltasOf(j)' : out'[k].fragment = [call |-> j, part |-> p]
      BY <2>2, <2>3, <2>4 DEF StreamedAt
    <2>7. \A x, k \in DeltasOf(j)' : x < k => out'[x].fragment.part < out'[k].fragment.part
      <3>1. \A x, k \in DeltasOf(j) : x < k => out[x].fragment.part < out[k].fragment.part
        BY <2>4, Zenon DEF StreamedAt
      <3> QED
        BY <2>2, <3>1
    <2> QED
      BY <2>5, <2>6, <2>7 DEF StreamedAt
  <1>17. \A j \in Begun' : Announced(j)'
    BY <1>2, <1>3, AnnouncedStays DEF Matched
  <1>18. \A k \in Positions("tool_complete")' : RealAt(k)'
    <2> TAKE k \in Positions("tool_complete")'
    <2>1. k \in Positions("tool_complete") /\ k \in 1..Len(out)
      BY <1>2, PositionsGrow DEF SamePositions
    <2> QED
      BY <1>2, <1>3, <2>1, RealStays DEF Matched
  <1>19. IdsTellCallsApart'
    BY <1>2, <1>3, ApartStays DEF Matched
  <1> QED
    BY <1>15, <1>16, <1>17, <1>18, <1>19 DEF Matched

\* A call that ends is completed when its arguments parse, as it was announced.
LEMMA CompletionMatched ==
    ASSUME TypeInv, TypeInv', Matched, NEW i \in Calls, Stops(i),
           adapter' = adapter, adapter # "gemini",
           made[i].id = "given", Parses(Sent(i)),
           Yield(<<ToolComplete(CallId(i), made[i].name, Sent(i))>>)
    PROVE  Matched'
  <1> PICK last \in Nat : last = Len(out) + 1
    BY Grown
  <1> PICK e : e = ToolComplete(CallId(i), made[i].name, Sent(i))
    OBVIOUS
  <1>1. Yield(<<e>>) /\ e.type = "tool_complete"
    BY IdsDiffer
  <1>2. /\ OutGrows /\ SamePositions("tool_delta") /\ out'[last] = e /\ Len(out') = last
        /\ Len(out) < last /\ Len(out) = last - 1
    <2>1. OutGrows /\ SamePositions("tool_delta")
      BY <1>1, OutGrowsBy
    <2>2. Len(out) \in Nat /\ Len(out') = Len(out) + 1 /\ out'[Len(out) + 1] = e
      BY <1>1, Grown
    <2> QED
      BY <2>1, <2>2
  <1>3. \A k : k \in Positions("tool_complete")' <=> k \in Positions("tool_complete") \/ k = last
    BY <1>1, PositionsGrow
  <1>4. /\ i \in Begun /\ Begun' = Begun /\ MadeGrows
        /\ made'[i].id = made[i].id /\ made'[i].name = made[i].name
        /\ made'[i].size = made[i].size /\ made'[i].sent = made[i].sent
        /\ made[i].state # "stopped" /\ made'[i].state = "stopped"
        /\ \A j \in Calls \ {i} : made'[j] = made[j]
    BY CallsGrow, MadeGrowsBy
  <1>5. Sent(i)' = Sent(i) /\ Whole(i)' = Whole(i) /\ ReportedId(i)' = CallId(i)
    BY <1>4 DEF Sent, Whole, ReportedId
  <1>6. Sent(i)' \in {<<>>, Whole(i)'}
    BY <1>4, <1>5, WholeOrNothing
  <1>7. out'[Len(out')] = ToolComplete(ReportedId(i)', made'[i].name, Sent(i)')
    BY <1>2, <1>4, <1>5
  <1>8. \E j \in 1..(Len(out') - 1) : out'[j] = ToolStart(ReportedId(i)', made'[i].name)
    <2>1. PICK j \in 1..Len(out) : out[j] = ToolStart(CallId(i), made[i].name)
      BY <1>4 DEF Matched, Announced
    <2> QED
      BY <1>2, <1>4, <1>5, <2>1 DEF OutGrows
  <1>9. \A x \in Begun' : made'[x].id \in {"given", "absent"}
    BY EntriesAndCalls DEF TypeInv, TypeOK, Begun, Call
  <1>10. (\A k \in Positions("tool_complete") : RealAt(k))' /\ IdsTellCallsApart'
    BY <1>2, <1>3, <1>4, <1>6, <1>7, <1>8, <1>9, OneCompletes
  <1>11. \A j \in Begun' : Announced(j)'
    BY <1>2, <1>4, AnnouncedStays DEF Matched
  <1>12. ASSUME NEW j \in Calls PROVE StreamedAt(j)'
    <2>1. SentBy(j)' = SentBy(j)
      BY <1>4, <1>12 DEF SentBy
    <2> QED
      BY <1>2, <2>1, StreamedStays DEF Matched
  <1> QED
    BY <1>10, <1>11, <1>12 DEF Matched

\* Gemini's calls come whole: announced and completed by one part of a chunk.
LEMMA FunctionCallMatched ==
    ASSUME TypeInv, TypeInv', Matched, NEW i \in Calls,
           NEW call \in NewCalls("given") \cup NewCalls("absent"), FunctionCallPart(i, call)
    PROVE  Matched'
  <1> PICK n \in Nat : n = call.size
    BY AdaptersAssumption DEF NewCalls
  <1>id. PICK id : id = CallIdOrName(i, call)
    OBVIOUS
  <1>be. PICK begun : begun = [call EXCEPT !.sent = call.size, !.state = "stopped"]
    OBVIOUS
  <1>a. PICK a : a = ToolStart(id, call.name)
    OBVIOUS
  <1>b. PICK b : b = ToolComplete(id, call.name, Arguments(i, n))
    OBVIOUS
  <1>1. /\ Yield(<<a, b>>) /\ Begins(i, begun) /\ adapter' = adapter /\ adapter = "gemini"
        /\ a.type = "tool_start" /\ b.type = "tool_complete"
    BY <1>id, <1>be, <1>a, <1>b, IdsDiffer DEF FunctionCallPart, Open, Streaming
  <1>2. /\ begun \in Call /\ begun.id = call.id /\ begun.name = call.name
        /\ begun.size = n /\ begun.sent = n /\ begun.state = "stopped"
    BY <1>be, AdaptersAssumption DEF NewCalls, Call
  <1>3. /\ MadeGrows /\ i \notin Begun /\ made'[i] = begun /\ Begun' = Begun \cup {i}
    BY <1>1, <1>2, MadeGrowsBy, CallsGrow
  <1>4. /\ ReportedId(i)' = id /\ Sent(i)' = Arguments(i, n) /\ Whole(i)' = Arguments(i, n)
    BY <1>id, <1>2, <1>3 DEF ReportedId, CallIdOrName, Sent, Whole
  <1>5. /\ OutGrows /\ Len(out) \in Nat /\ Len(out') = Len(out) + 2
        /\ out'[Len(out) + 1] = a /\ out'[Len(out) + 2] = b
    BY <1>1, OutGrowsBy, Grown
  <1>6. \A k : k \in Positions("tool_complete")'
               <=> k \in Positions("tool_complete") \/ k = Len(out')
    <2>1. ASSUME NEW t
          PROVE  \A k : k \in Positions(t)' <=>
                    \/ k \in Positions(t)
                    \/ k = Len(out) + 1 /\ a.type = t
                    \/ k = Len(out) + 2 /\ b.type = t
      BY <1>1, PositionsGrow
    <2> QED
      BY <1>1, <1>5, <2>1
  <1>7. out'[Len(out')] = ToolComplete(ReportedId(i)', made'[i].name, Sent(i)')
    BY <1>b, <1>2, <1>3, <1>4, <1>5
  <1>8. \E j \in 1..(Len(out') - 1) : out'[j] = ToolStart(ReportedId(i)', made'[i].name)
    <2>1. Len(out) + 1 \in 1..(Len(out') - 1)
      BY <1>5
    <2> QED
      BY <1>a, <1>2, <1>3, <1>4, <1>5, <2>1
  <1>9. \A x \in Begun' : made'[x].id \in {"given", "absent"}
    BY EntriesAndCalls DEF TypeInv, TypeOK, Begun, Call
  <1>10. (\A k \in Positions("tool_complete") : RealAt(k))' /\ IdsTellCallsApart'
    <2>1. Len(out) < Len(out')
      BY <1>5
    <2>2. i \in Begun' /\ made'[i].state = "stopped" /\ Sent(i)' \in {<<>>, Whole(i)'}
      BY <1>2, <1>3, <1>4
    <2> QED
      BY <1>3, <1>5, <1>6, <1>7, <1>8, <1>9, <2>1, <2>2, OneCompletes
  <1> QED
    BY <1>1, <1>10 DEF Matched

LEMMA MatchedInit == Init => Matched
  <1> SUFFICES ASSUME Init PROVE Matched
    OBVIOUS
  <1>1. \A t : Positions(t) = {}
    BY DEF Init, Positions
  <1>2. Begun = {}
    BY DEF Init, Begun
  <1> QED
    BY <1>1, <1>2 DEF Matched, IdsTellCallsApart, StreamedAt, DeltasOf, SentBy

LEMMA MatchedNext == TypeInv /\ Booked /\ Matched /\ [Next]_vars => Matched'
  <1> SUFFICES ASSUME TypeInv, Booked, Matched, [Next]_vars PROVE Matched'
    OBVIOUS
  <1>0. TypeInv'
    BY TypeNext
  <1>1. ASSUME NEW e, Yield(<<e>>) \/ out' = out,
               e.type # "tool_complete", e.type # "tool_delta",
               adapter' = adapter, made' = made
        PROVE  Matched'
    <2>1. /\ MadeGrows /\ Begun' = Begun /\ OutGrows
          /\ SamePositions("tool_complete") /\ SamePositions("tool_delta")
      BY <1>1, MadeGrowsBy, OutGrowsBy DEF MadeGrows, Begun
    <2>2. \A j \in Calls : SentBy(j)' = SentBy(j)
      BY <1>1, <2>1 DEF SentBy
    <2> QED
      BY <1>1, <2>1, <2>2, MatchedStays
  <1>2. ASSUME NEW i \in Calls, NEW call \in NewCalls("given"),
               ToolBlockStart(i, call) \/ OutputItemAdded(i, call)
        PROVE  Matched'
    <2>1. call \in Call /\ call.sent = 0
      BY AdaptersAssumption DEF NewCalls, Call
    <2> PICK e : e = ToolStart(CallId(i), call.name)
      OBVIOUS
    <2>2. /\ Begins(i, call) /\ adapter' = adapter /\ Yield(<<e>>) /\ e.type = "tool_start"
      BY <1>2, IdsDiffer DEF ToolBlockStart, OutputItemAdded
    <2>3. /\ MadeGrows /\ made'[i] = call /\ i \notin Begun /\ Begun' = Begun \cup {i}
      BY <2>1, <2>2, MadeGrowsBy, CallsGrow
    <2>4. /\ OutGrows /\ SamePositions("tool_complete") /\ SamePositions("tool_delta")
          /\ Len(out) \in Nat /\ Len(out') = Len(out) + 1 /\ out'[Len(out) + 1] = e
      BY <2>2, OutGrowsBy, Grown
    <2>5. Len(out) + 1 \in 1..Len(out')
      BY <2>4
    <2>6. Announced(i)'
      BY <2>3, <2>4, <2>5 DEF Announced
    <2>7. \A j \in Calls : SentBy(j)' = SentBy(j)
      <3>1. \A j \in Calls \ {i} : made'[j] = made[j]
        BY <2>2 DEF Begins, TypeInv, TypeOK
      <3> QED
        BY <2>1, <2>3, <3>1 DEF SentBy
    <2> QED
      BY <2>2, <2>3, <2>4, <2>6, <2>7, MatchedStays
  <1>3. ASSUME NEW i \in Calls, InputJsonDelta(i) \/ ArgumentsDelta(i)
        PROVE  Matched'
    <2>1. Sends(i) /\ adapter' = adapter /\ adapter # "gemini"
      BY <1>3, Zenon DEF InputJsonDelta, ArgumentsDelta, Open, Streaming
    <2>2. i \in Begun
      BY <2>1, CallsGrow
    <2>3. book[i].id = CallId(i) /\ CallIdOf(i) = CallId(i)
      BY <2>1, <2>2 DEF Booked, CallIdOf, Remembered, TypeInv, Begun
    <2>4. Yield(<<ToolDelta(CallId(i), NextFragment(i))>>)
      <3>1. CASE InputJsonDelta(i)
        BY <3>1, <2>3 DEF InputJsonDelta
      <3>2. CASE ArgumentsDelta(i)
        BY <3>2, <2>3 DEF ArgumentsDelta
      <3> QED
        BY <1>3, <3>1, <3>2
    <2> QED
      BY <2>1, <2>4, FragmentMatched
  <1>4. ASSUME NEW i \in Calls, ContentBlockStop(i) \/ ArgumentsDone(i)
        PROVE  Matched'
    <2>1. Stops(i) /\ adapter' = adapter /\ adapter # "gemini"
      BY <1>4 DEF ContentBlockStop, ArgumentsDone, Open, Streaming
    <2>2. i \in Begun
      BY <2>1, CallsGrow
    <2>3. /\ book[i].id = CallId(i) /\ CallIdOf(i) = CallId(i) /\ book[i].name = made[i].name
          /\ made[i].id = "given"
          /\ adapter = "anthropic" => book[i].buffer = Sent(i)
      BY <2>1, <2>2 DEF Booked, CallIdOf, Remembered, TypeInv, Begun
    <2>4. Completes(Sent(i), ToolComplete(CallId(i), made[i].name, Sent(i)))
      <3>1. CASE ContentBlockStop(i)
        BY <3>1, <2>3 DEF ContentBlockStop, Open, Streaming
      <3>2. CASE ArgumentsDone(i)
        BY <3>2, <2>3 DEF ArgumentsDone
      <3> QED
        BY <1>4, <3>1, <3>2
    <2>5. CASE Parses(Sent(i))
      BY <1>0, <2>1, <2>3, <2>4, <2>5, CompletionMatched DEF Completes
    <2>6. CASE ~Parses(Sent(i))
      <3> PICK e : e = Error(KindOf("other"))
        OBVIOUS
      <3>1. Yield(<<e>>) /\ e.type = "error"
        BY <2>4, <2>6 DEF Completes, Fails, Error
      <3>2. MadeGrows /\ Begun' = Begun /\ made'[i].sent = made[i].sent
        BY <2>1, MadeGrowsBy, CallsGrow
      <3>3. /\ OutGrows /\ SamePositions("tool_complete") /\ SamePositions("tool_delta")
        BY <3>1, OutGrowsBy
      <3>4. \A j \in Calls : SentBy(j)' = SentBy(j)
        BY <2>1, <3>2, CallsGrow DEF SentBy
      <3> QED
        BY <2>1, <3>2, <3>3, <3>4, MatchedStays
    <2> QED
      BY <2>5, <2>6
  <1>5. ASSUME NEW i \in Calls, NEW call \in NewCalls("given") \cup NewCalls("absent"),
               FunctionCallPart(i, call)
        PROVE  Matched'
    BY <1>0, <1>5, FunctionCallMatched
  <1>6. CASE TextDelta
    <2>1. Text.type = "text"
      BY DEF Text
    <2> QED
      BY <1>1, <1>6, <2>1 DEF TextDelta
  <1>7. ASSUME NEW o, MessageDelta(o)
        PROVE  Matched'
    <2> PICK e : e = Usage(tokens')
      OBVIOUS
    <2>1. e.type = "usage"
      BY DEF Usage
    <2> QED
      BY <1>1, <1>7, <2>1 DEF MessageDelta
  <1>8. CASE MessageStop
    <2> PICK e : e = Done(AnthropicFinish(reason))
      OBVIOUS
    <2>1. e.type = "done"
      BY DEF Done
    <2> QED
      BY <1>1, <1>8, <2>1 DEF MessageStop, provider
  <1>9. ASSUME NEW a, NEW b, Yield(<<a, b>>), a.type = "usage", b.type = "done",
               adapter' = adapter, made' = made
        PROVE  Matched'
    <2>1. MadeGrows /\ Begun' = Begun
      BY <1>9 DEF MadeGrows, Begun
    <2>3. OutGrows /\ \A t : a.type # t /\ b.type # t => SamePositions(t)
      BY <1>9, OutGrowsBy
    <2>4. SamePositions("tool_complete") /\ SamePositions("tool_delta")
      BY <1>9, <2>3
    <2>2. \A j \in Calls : SentBy(j)' = SentBy(j)
      BY <1>9, <2>1 DEF SentBy
    <2> QED
      BY <1>9, <2>1, <2>2, <2>3, <2>4, MatchedStays
  <1>10. \A n, r : Usage(n).type = "usage" /\ Done(r).type = "done"
    BY DEF Usage, Done
  <1>11. ASSUME NEW o, ResponseEnds(o)
         PROVE  Matched'
    <2> PICK a : a = Usage(tokens')
      OBVIOUS
    <2> PICK b : b = Done(OpenAIFinish(o))
      OBVIOUS
    <2> QED
      BY <1>9, <1>10, <1>11 DEF ResponseEnds
  <1>12. CASE EndOfChunks
    <2> PICK a : a = Usage(usage)
      OBVIOUS
    <2> PICK b : b = Done(GeminiFinish(reason))
      OBVIOUS
    <2>1. Yield(<<b>>) \/ Yield(<<a, b>>)
      BY <1>12, EndYields
    <2>2. adapter' = adapter /\ made' = made
      BY <1>12 DEF EndOfChunks, provider
    <2> QED
      BY <1>1, <1>9, <1>10, <2>1, <2>2
  <1>13. ASSUME NEW c, SdkRaises(c) \/ StreamError(c)
         PROVE  Matched'
    <2>1. \A k : Error(k).type = "error"
      BY DEF Error
    <2> QED
      BY <1>1, <1>13, <2>1 DEF SdkRaises, StreamError, Fails, provider
  <1>14. ASSUME NEW o, UsageChunk \/ FinishChunk(o) \/ SdkEnds \/ UNCHANGED vars
         PROVE  Matched'
    <2>1. out' = out /\ adapter' = adapter /\ made' = made
      BY <1>14 DEF UsageChunk, FinishChunk, SdkEnds, provider, vars
    <2>2. Text.type = "text"
      BY DEF Text
    <2> QED
      BY <1>1, <2>1, <2>2
  <1> QED
    BY <1>2, <1>3, <1>4, <1>5, <1>6, <1>7, <1>8, <1>11, <1>12, <1>13, <1>14
    DEF Next, Finished

\* Concurrent tool calls are never mixed up, whatever the order of the provider's
\* events: what completes is a call it made, under its own id and name and with
\* all of its arguments, and its fragments are streamed under its id, in order.
THEOREM ToolCallsAreMatchedHolds == Spec => []ToolCallsAreMatched
  <1>1. ASSUME TypeInv, Matched
        PROVE  ToolCallsAreMatched
    <2>1. CallsAreReal
      <3> SUFFICES ASSUME NEW k \in Positions("tool_complete")
                   PROVE  /\ \E j \in 1..(k - 1) : out[j] = ToolStart(out[k].id, out[k].name)
                          /\ \E i \in Begun :
                               /\ out[k].id = ReportedId(i) /\ out[k].name = made[i].name
                               /\ out[k].input = Sent(i) /\ out[k].input \in {<<>>, Whole(i)}
        BY DEF CallsAreReal
      <3>1. RealAt(k)
        BY <1>1 DEF Matched
      <3> QED
        BY <3>1, IdsDiffer DEF RealAt
    <2>2. FragmentsReachTheirCall
      <3> SUFFICES ASSUME NEW i \in Begun, adapter # "gemini"
                   PROVE  /\ {out[k].fragment : k \in DeltasOf(i)}
                                = {Sent(i)[p] : p \in 1..made[i].sent}
                          /\ \A j, k \in DeltasOf(i) :
                                j < k => out[j].fragment.part < out[k].fragment.part
        BY DEF FragmentsReachTheirCall, DeltasOf
      <3>1. StreamedAt(i) /\ SentBy(i) = made[i].sent /\ i \in Calls
        BY <1>1 DEF Matched, SentBy, Begun
      <3>2. made[i].sent \in Nat
        BY <1>1, EntriesAndCalls, AdaptersAssumption DEF TypeInv, TypeOK, Begun, Call
      <3>3. \A p \in 1..made[i].sent : Sent(i)[p] = [call |-> i, part |-> p]
        BY <3>2, ArgumentsGrow DEF Sent
      <3>4. /\ \A k \in DeltasOf(i) :
                \E p \in 1..SentBy(i) : out[k].fragment = [call |-> i, part |-> p]
            /\ \A p \in 1..SentBy(i) :
                \E k \in DeltasOf(i) : out[k].fragment = [call |-> i, part |-> p]
        BY <3>1, Zenon DEF StreamedAt
      <3>5. {out[k].fragment : k \in DeltasOf(i)} = {Sent(i)[p] : p \in 1..made[i].sent}
        <4>1. ASSUME NEW k \in DeltasOf(i)
              PROVE  out[k].fragment \in {Sent(i)[p] : p \in 1..made[i].sent}
          <5>1. PICK p \in 1..made[i].sent : out[k].fragment = [call |-> i, part |-> p]
            BY <3>1, <3>4
          <5> QED
            BY <3>3, <5>1
        <4>2. ASSUME NEW p \in 1..made[i].sent
              PROVE  Sent(i)[p] \in {out[k].fragment : k \in DeltasOf(i)}
          <5>1. PICK k \in DeltasOf(i) : out[k].fragment = [call |-> i, part |-> p]
            BY <3>1, <3>4
          <5> QED
            BY <3>3, <5>1
        <4> QED
          BY <4>1, <4>2
      <3>6. \A j, k \in DeltasOf(i) : j < k => out[j].fragment.part < out[k].fragment.part
        BY <3>1, Zenon DEF StreamedAt
      <3> QED
        BY <3>5, <3>6
    <2> QED
      BY <1>1, <2>1, <2>2 DEF Matched, ToolCallsAreMatched
  <1> QED
    BY <1>1, TypeInit, TypeNext, BookedInit, BookedNext, MatchedInit, MatchedNext, PTL DEF Spec
=============================================================================
