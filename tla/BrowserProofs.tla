---------------------------- MODULE BrowserProofs ----------------------------
(***************************************************************************)
(* Theorems about Browser, for any tenants, conversations, messages and    *)
(* streams of any length.                                                  *)
(***************************************************************************)
EXTENDS Browser, SequenceTheorems, WellFoundedInduction, TLAPS

\* The stream that runs is the mounted Chat's, which shows a conversation.
Running(t) ==
    fetch[t] = "open" =>
        abortRef = t /\ t \in mine /\ posted[t] = [tenant |-> tenantId, conv |-> selectedId]

\* At most one runs, and Chat is generating as long as it holds its controller.
OneStream ==
    /\ abortRef \in {0} \cup mine
    /\ mine \subseteq Turns
    /\ generating = (abortRef # 0)
    /\ abortRef # 0 => selectedId # NoConv

IInv ==
    /\ fetch \in [Turns -> {"unsent", "open", "over"}]
    /\ posted \in [Turns -> [tenant : TenantIds, conv : Convs \cup {NoConv}]]
    /\ tenantId \in TenantIds /\ selectedId \in Convs \cup {NoConv}
    /\ known \subseteq Convs
    /\ OneStream
    /\ \A t \in Turns : Running(t)

LEMMA InitIInv == Init => IInv
  <1> SUFFICES ASSUME Init PROVE IInv
    OBVIOUS
  <1>1. /\ fetch \in [Turns -> {"unsent", "open", "over"}] /\ \A t \in Turns : fetch[t] # "open"
        /\ posted \in [Turns -> [tenant : TenantIds, conv : Convs \cup {NoConv}]]
    BY BrowserAssumption DEF Init
  <1>2. tenantId \in TenantIds /\ selectedId = NoConv /\ known \subseteq Convs
    BY BrowserAssumption DEF Init
  <1>3. OneStream
    BY DEF Init, OneStream
  <1> QED
    BY <1>1, <1>2, <1>3 DEF IInv, Running

\* What another selection leaves: the stream that ran is over, and the new
\* Chat has none.
LEMMA Selecting ==
    ASSUME IInv, NEW c \in Convs \cup {NoConv}, SetSelectedId(c), UNCHANGED posted,
           tenantId' \in TenantIds, known' \subseteq Convs,
           c = selectedId => tenantId' = tenantId \/ c = NoConv
    PROVE  IInv'
  <1> USE BrowserAssumption DEF IInv, SetSelectedId
  <1>1. CASE c = selectedId
    <2>1. UNCHANGED <<selectedId, generating, abortRef, mine, fetch>>
      BY <1>1 DEF chat, stream
    <2>2. \A t \in Turns : fetch[t] = "open" => tenantId' = tenantId
      BY <1>1 DEF Running, OneStream, Turns
    <2> QED
      BY <2>1, <2>2 DEF Running, OneStream
  <1>2. CASE c # selectedId
    <2>1. /\ selectedId' = c /\ generating' = FALSE /\ abortRef' = 0 /\ mine' = {}
      BY <1>2 DEF Mount
    <2>2. fetch' \in [Turns -> {"unsent", "open", "over"}] /\ \A t \in Turns : fetch'[t] # "open"
      <3>1. CASE abortRef = 0
        <4>1. UNCHANGED fetch
          BY <1>2, <3>1 DEF Cleanup, stream
        <4> QED
          BY <3>1, <4>1 DEF Running, Turns
      <3>2. CASE abortRef # 0
        <4>1. fetch' = [fetch EXCEPT ![abortRef] = "over"]
          BY <1>2, <3>2 DEF Cleanup, EndFetch
        <4> QED
          BY <3>2, <4>1 DEF Running
      <3> QED
        BY <3>1, <3>2
    <2> QED
      BY <2>1, <2>2 DEF OneStream, Running
  <1> QED
    BY <1>1, <1>2

\* The App's steps and the answers to its requests.
LEMMA AppSteps ==
    ASSUME IInv, User \/ Answers,
           ~(\E t \in Turns : HandleSend(t)), ~HandleStop
    PROVE  IInv'
  <1>1. ASSUME NEW t \in TenantIds, SetTenantId(t) PROVE IInv'
    BY <1>1, Selecting DEF SetTenantId, IInv, server
  <1>2. CASE CreateConversation
    BY <1>2 DEF CreateConversation, IInv, OneStream, Running, chat, stream, server
  <1>3. ASSUME NEW c \in Convs, Select(c) PROVE IInv'
    BY <1>3, Selecting DEF Select, IInv, server
  <1>4. ASSUME NEW i \in 1..Len(lists), ListAnswered(i) PROVE IInv'
    <2>1. PICK c \in Convs \cup {NoConv} : SetSelectedId(c)
      <3>1. CASE \E c \in conversations' : SetSelectedId(c)
        <4>1. conversations' \subseteq known
          BY <1>4 DEF ListAnswered
        <4>2. PICK c \in conversations' : SetSelectedId(c)
          BY <3>1
        <4> QED
          BY <4>1, <4>2 DEF IInv
      <3>2. CASE SetSelectedId(NoConv)
        BY <3>2
      <3> QED
        BY <1>4, <3>1, <3>2 DEF ListAnswered
    <2> QED
      BY <1>4, <2>1, Selecting DEF ListAnswered, IInv, server
  <1>5. ASSUME NEW i \in 1..Len(lists), ListFails(i) PROVE IInv'
    BY <1>5 DEF ListFails, IInv, OneStream, Running, chat, stream, server
  <1>6. ASSUME NEW i \in 1..Len(creates), CreateFails(i) PROVE IInv'
    BY <1>6 DEF CreateFails, IInv, OneStream, Running, chat, stream, server
  <1>7. ASSUME NEW i \in 1..Len(creates), NEW c \in Convs, CreateAnswered(i, c) PROVE IInv'
    BY <1>7, Selecting DEF CreateAnswered, IInv
  <1>8. CASE LoadRead
    BY <1>8 DEF LoadRead, IInv, OneStream, Running, app, stream, server
  <1>9. CASE LoadAnswered
    BY <1>9 DEF LoadAnswered, IInv, OneStream, Running, app, stream, server
  <1>10. CASE LoadFails
    BY <1>10 DEF LoadFails, IInv, OneStream, Running, app, stream, server
  <1> QED
    BY <1>1, <1>2, <1>3, <1>4, <1>5, <1>6, <1>7, <1>8, <1>9, <1>10 DEF User, Answers

\* The steps of the server change no fetch.
LEMMA ServerSteps ==
    ASSUME IInv, NEW t \in Turns,
           Serve(t) \/ \E e \in {Text(NextPiece(t)), Done, Error} : Emit(t, e)
    PROVE  IInv'
  <1>1. UNCHANGED <<fetch, posted, tenantId, selectedId, known, abortRef, mine, generating>>
    BY DEF Serve, Accept, Refuse, Close, Emit, app, chat, stream, server
  <1> QED
    BY <1>1 DEF IInv, OneStream, Running

LEMMA Sending ==
    ASSUME IInv, NEW t \in Turns, HandleSend(t)
    PROVE  IInv'
  <1>1. /\ abortRef = 0 /\ selectedId # NoConv
        /\ abortRef' = t /\ mine' = mine \cup {t} /\ generating' = TRUE
        /\ posted' = [posted EXCEPT ![t] = [tenant |-> tenantId, conv |-> selectedId]]
        /\ fetch' = [fetch EXCEPT ![t] = "open"]
        /\ UNCHANGED <<tenantId, selectedId, known>>
    BY DEF HandleSend, MaySend, IInv, OneStream, app
  <1>2. \A u \in Turns : u # t => fetch'[u] # "open"
    BY <1>1 DEF IInv, Running, Turns
  <1>3. OneStream'
    <2>1. t # 0
      BY BrowserAssumption DEF Turns
    <2>2. mine' \subseteq Turns /\ abortRef' \in mine'
      BY <1>1 DEF IInv, OneStream
    <2> QED
      BY <1>1, <2>1, <2>2 DEF OneStream
  <1>4. \A u \in Turns : Running(u)'
    BY <1>1, <1>2 DEF IInv, Running
  <1>5. posted' \in [Turns -> [tenant : TenantIds, conv : Convs \cup {NoConv}]]
    BY <1>1 DEF IInv
  <1> QED
    BY <1>1, <1>3, <1>4, <1>5 DEF IInv

\* finally ends the one stream that runs, and frees Chat.
LEMMA Ending ==
    ASSUME IInv, NEW t \in Turns, fetch[t] = "open", Finally(t),
           UNCHANGED <<posted, tenantId, selectedId, known>>
    PROVE  IInv'
  <1>1. /\ fetch' = [fetch EXCEPT ![t] = "over"]
        /\ mine' = mine \ {t} /\ t \in mine /\ abortRef = t
        /\ abortRef' = 0 /\ generating' = FALSE
    BY DEF Finally, EndFetch, IInv, Running
  <1>2. \A u \in Turns : fetch'[u] # "open"
    BY <1>1 DEF IInv, Running
  <1> QED
    BY <1>1, <1>2 DEF IInv, OneStream, Running

LEMMA TakesNothingElse ==
    ASSUME NEW t, NEW events, NEW throws, Take(t, events, throws)
    PROVE  UNCHANGED <<posted, tenantId, selectedId, known>>
  BY DEF Take, app, server

LEMMA Reading ==
    ASSUME IInv, NEW t \in Turns, NEW n \in 1..Len(wire[t]), Read(t, n)
    PROVE  IInv'
  <1> DEFINE fed == Feed(parser[t], SubSeq(wire[t], 1, n))
  <1>1. /\ fetch[t] = "open" /\ Take(t, fed.events, fed.failed)
        /\ Finally(t) \/ UNCHANGED <<fetch, mine, abortRef, generating>>
    BY DEF Read
  <1>2. UNCHANGED <<posted, tenantId, selectedId, known>>
    BY <1>1, TakesNothingElse
  <1>3. CASE Finally(t)
    BY <1>1, <1>2, <1>3, Ending
  <1>4. CASE UNCHANGED <<fetch, mine, abortRef, generating>>
    BY <1>2, <1>4 DEF IInv, OneStream, Running
  <1> QED
    BY <1>1, <1>3, <1>4

LEMMA Stopping ==
    ASSUME IInv, NEW t \in Turns, ReadDone(t) \/ ReadFails(t)
    PROVE  IInv'
  <1>1. fetch[t] = "open" /\ Finally(t) /\ UNCHANGED <<posted, tenantId, selectedId, known>>
    BY TakesNothingElse DEF ReadDone, ReadFails
  <1> QED
    BY <1>1, Ending

LEMMA NextIInv == IInv /\ [Next]_vars => IInv'
  <1> SUFFICES ASSUME IInv, [Next]_vars PROVE IInv'
    OBVIOUS
  <1>1. CASE User \/ Answers
    <2>1. CASE HandleStop
      BY <2>1, Stopping DEF HandleStop, IInv, OneStream
    <2>2. CASE \E t \in Turns : HandleSend(t)
      BY <2>2, Sending
    <2> QED
      BY <1>1, <2>1, <2>2, AppSteps
  <1>2. ASSUME NEW t \in Turns, Serve(t) \/ \E e \in {Text(NextPiece(t)), Done, Error} : Emit(t, e)
        PROVE  IInv'
    BY <1>2, ServerSteps
  <1>3. ASSUME NEW t \in Turns, Receive(t) \/ ReadFails(t)
        PROVE  IInv'
    BY <1>3, Reading, Stopping DEF Receive
  <1>4. CASE UNCHANGED vars
    BY <1>4 DEF vars, app, chat, stream, server, IInv, OneStream, Running
  <1> QED
    BY <1>1, <1>2, <1>3, <1>4 DEF Next

\* The inductive invariant of the streams of a browser.
THEOREM Invariance == Spec => []IInv
  BY InitIInv, NextIInv, PTL DEF Spec

\* A stream that still runs is the one the Stop button aborts, and belongs to
\* the conversation and the tenant on the screen, however answers, clicks and
\* reads interleave (Chat.tsx:44-48).
THEOREM NothingUnseen == Spec => []NothingRunsUnseen
  <1>1. IInv => NothingRunsUnseen
    BY DEF IInv, Running, NothingRunsUnseen
  <1> QED
    BY <1>1, Invariance, PTL
-----------------------------------------------------------------------------
(* The parser: a byte, a read, the end of the body.                        *)

Size(e) == IF e.type = "text_delta" THEN 6 ELSE 4

\* A read that has yielded `events`, with the parser p.
During(p, events) ==
    [pending |-> p.pending, buffer |-> p.buffer, events |-> events, failed |-> FALSE]
Holding(buffer) == [pending |-> <<>>, buffer |-> buffer]

\* The parser after q bytes of the record of an event.
Partial(e, q) ==
    IF q = 0 THEN Idle
    ELSE IF q = 1 THEN Holding(<<Symbol(e, "open")>>)
    ELSE IF q = Size(e) - 2 THEN Holding(Whole(e))
    ELSE IF q = Size(e) - 1 THEN Holding(Append(Whole(e), NewLine))
    ELSE IF q = 2 THEN [pending |-> <<Symbol(e, "lead")>>, buffer |-> <<Symbol(e, "open")>>]
    ELSE Holding(<<Symbol(e, "open"), Symbol(e, "char")>>)

LEMMA Symbols ==
    /\ \A e, p : Symbol(e, p).of = e /\ Symbol(e, p).part = p
    /\ \A e, p : p # "newline" => Symbol(e, p) # NewLine
    /\ NewLine.part = "newline"
  BY DEF Symbol, NewLine

LEMMA Tuples ==
    /\ \A a : Append(<<>>, a) = <<a>>
    /\ \A a, b : Append(<<a>>, b) = <<a, b>>
    /\ \A a, b, c : Append(<<a, b>>, c) = <<a, b, c>>
    /\ \A a, b, c, d : Append(<<a, b, c>>, d) = <<a, b, c, d>>
    /\ \A a, b, c, d, e : Append(<<a, b, c, d>>, e) = <<a, b, c, d, e>>
    /\ \A a : <<a>> \o <<>> = <<a>>
    /\ \A a, b : <<a, b>> \o <<>> = <<a, b>>
    /\ \A a, b, c : <<a, b, c>> \o <<>> = <<a, b, c>>
    /\ \A a, b, c, d : <<a, b, c, d>> \o <<>> = <<a, b, c, d>>
    /\ \A a, b : <<a>> \o <<b>> = <<a, b>>
    /\ <<>> \o <<>> = <<>>
  <1> SUFFICES ASSUME NEW a, NEW b, NEW c, NEW d, NEW e
               PROVE  /\ Append(<<>>, a) = <<a>> /\ Append(<<a>>, b) = <<a, b>>
                      /\ Append(<<a, b>>, c) = <<a, b, c>>
                      /\ Append(<<a, b, c>>, d) = <<a, b, c, d>>
                      /\ Append(<<a, b, c, d>>, e) = <<a, b, c, d, e>>
                      /\ <<a>> \o <<>> = <<a>> /\ <<a, b>> \o <<>> = <<a, b>>
                      /\ <<a, b, c>> \o <<>> = <<a, b, c>>
                      /\ <<a, b, c, d>> \o <<>> = <<a, b, c, d>>
                      /\ <<a>> \o <<b>> = <<a, b>> /\ <<>> \o <<>> = <<>>
    BY ZenonT(60)
  <1> DEFINE S == {a, b, c, d, e}
  <1>1. /\ <<>> \in Seq(S) /\ <<a>> \in Seq(S) /\ <<a, b>> \in Seq(S)
        /\ <<a, b, c>> \in Seq(S) /\ <<a, b, c, d>> \in Seq(S) /\ <<a, b, c, d, e>> \in Seq(S)
    OBVIOUS
  <1>2. a \in S /\ b \in S /\ c \in S /\ d \in S /\ e \in S
    OBVIOUS
  <1> HIDE DEF S
  <1>3. Append(<<>>, a) = <<a>> /\ Append(<<a>>, b) = <<a, b>>
    <2>1. Append(<<>>, a) = <<a>>
      BY <1>1, <1>2, AppendIsConcat, ConcatEmptySeq
    <2>2. /\ Append(<<a>>, b) \in Seq(S) /\ Len(Append(<<a>>, b)) = 2
          /\ Append(<<a>>, b)[1] = a /\ Append(<<a>>, b)[2] = b
      BY <1>1, <1>2, AppendProperties
    <2>3. \A i \in 1..2 : Append(<<a>>, b)[i] = <<a, b>>[i]
      BY <2>2
    <2> QED
      BY <1>1, <2>1, <2>2, <2>3, SeqEqual
  <1>4. Append(<<a, b>>, c) = <<a, b, c>>
    <2>1. /\ Append(<<a, b>>, c) \in Seq(S) /\ Len(Append(<<a, b>>, c)) = 3
          /\ Append(<<a, b>>, c)[1] = a /\ Append(<<a, b>>, c)[2] = b
          /\ Append(<<a, b>>, c)[3] = c
      BY <1>1, <1>2, AppendProperties
    <2>2. \A i \in 1..3 : Append(<<a, b>>, c)[i] = <<a, b, c>>[i]
      BY <2>1
    <2> QED
      BY <1>1, <2>1, <2>2, SeqEqual
  <1>5. Append(<<a, b, c>>, d) = <<a, b, c, d>>
    <2>1. /\ Append(<<a, b, c>>, d) \in Seq(S) /\ Len(Append(<<a, b, c>>, d)) = 4
          /\ Append(<<a, b, c>>, d)[1] = a /\ Append(<<a, b, c>>, d)[2] = b
          /\ Append(<<a, b, c>>, d)[3] = c /\ Append(<<a, b, c>>, d)[4] = d
      BY <1>1, <1>2, AppendProperties
    <2>2. \A i \in 1..4 : Append(<<a, b, c>>, d)[i] = <<a, b, c, d>>[i]
      BY <2>1
    <2> QED
      BY <1>1, <2>1, <2>2, SeqEqual
  <1>6. Append(<<a, b, c, d>>, e) = <<a, b, c, d, e>>
    <2>1. /\ Append(<<a, b, c, d>>, e) \in Seq(S) /\ Len(Append(<<a, b, c, d>>, e)) = 5
          /\ Append(<<a, b, c, d>>, e)[1] = a /\ Append(<<a, b, c, d>>, e)[2] = b
          /\ Append(<<a, b, c, d>>, e)[3] = c /\ Append(<<a, b, c, d>>, e)[4] = d
          /\ Append(<<a, b, c, d>>, e)[5] = e
      BY <1>1, <1>2, AppendProperties
    <2>2. \A i \in 1..5 : Append(<<a, b, c, d>>, e)[i] = <<a, b, c, d, e>>[i]
      BY <2>1
    <2> QED
      BY <1>1, <2>1, <2>2, SeqEqual
  <1>7. /\ <<a>> \o <<>> = <<a>> /\ <<a, b>> \o <<>> = <<a, b>>
        /\ <<a, b, c>> \o <<>> = <<a, b, c>> /\ <<a, b, c, d>> \o <<>> = <<a, b, c, d>>
        /\ <<>> \o <<>> = <<>>
    BY <1>1, ConcatEmptySeq
  <1>8. <<a>> \o <<b>> = <<a, b>>
    BY <1>1, <1>2, <1>3, AppendIsConcat
  <1> QED
    BY <1>3, <1>4, <1>5, <1>6, <1>7, <1>8

LEMMA FrontOfAppend ==
    ASSUME NEW S, NEW s \in Seq(S), NEW a \in S
    PROVE  Front(Append(s, a)) = s
  <1>1. /\ Append(s, a) \in Seq(S) /\ Len(Append(s, a)) = Len(s) + 1 /\ Len(s) \in Nat
        /\ \A i \in 1..Len(s) : Append(s, a)[i] = s[i]
    BY AppendProperties, LenProperties
  <1>2. SubSeq(Append(s, a), 1, Len(s)) = SubSeq(s, 1, Len(s))
    <2>1. Append(s, a) = s \o <<a>> /\ <<a>> \in Seq(S)
      BY AppendIsConcat
    <2>2. CASE Len(s) = 0
      BY <2>2, SubSeqEmpty
    <2>3. CASE Len(s) # 0
      BY <1>1, <2>1, <2>3, SubSeqOfConcat1
    <2> QED
      BY <2>2, <2>3
  <1> QED
    BY <1>1, <1>2, SubSeqFull DEF Front

LEMMA NothingReplaced == Replaced(<<>>) = <<>>
  BY DEF Replaced

LEMMA DecodePlain ==
    ASSUME NEW S, NEW buffer \in Seq(S), NEW events, NEW byte,
           byte.part # "lead", byte.part # "trail"
    PROVE  Decode(During(Holding(buffer), events), byte)
             = During(Holding(Append(buffer, byte)), events)
  <1>1. buffer \o Replaced(<<>>) = buffer
    BY ConcatEmptySeq, NothingReplaced
  <1> QED
    BY <1>1 DEF Decode, During, Holding

LEMMA DecodeLead ==
    ASSUME NEW S, NEW buffer \in Seq(S), NEW events, NEW byte, byte.part = "lead"
    PROVE  Decode(During(Holding(buffer), events), byte)
             = During([pending |-> <<byte>>, buffer |-> buffer], events)
  <1>1. buffer \o Replaced(<<>>) = buffer
    BY ConcatEmptySeq, NothingReplaced
  <1> QED
    BY <1>1 DEF Decode, During, Holding

LEMMA DecodeTrail ==
    ASSUME NEW S, NEW buffer \in Seq(S), NEW events, NEW byte, byte.part = "trail", NEW x
    PROVE  Decode(During([pending |-> <<x>>, buffer |-> buffer], events), byte)
             = During(Holding(Append(buffer, Symbol(byte.of, "char"))), events)
  <1>1. <<x>> # <<>>
    OBVIOUS
  <1> QED
    BY <1>1 DEF Decode, During, Holding

\* Without a blank line at its end the buffer waits for more.
LEMMA Waiting ==
    ASSUME NEW p, NEW events,
           \/ Len(p.buffer) <= 1
           \/ p.buffer[Len(p.buffer)] # NewLine
           \/ p.buffer[Len(p.buffer) - 1] # NewLine
    PROVE  Drain(During(p, events)) = During(p, events)
  <1>1. During(p, events).buffer = p.buffer
    BY DEF During
  <1>2. ~(Len(p.buffer) > 1) \/ p.buffer[Len(p.buffer)] # NewLine
        \/ p.buffer[Len(p.buffer) - 1] # NewLine
    OBVIOUS
  <1> QED
    BY <1>1, <1>2 DEF Drain

\* An event is told from an exception, and by its data.
LEMMA EventsAreTyped ==
    ASSUME NEW e \in Event
    PROVE  e # Malformed /\ e.type \in {"text_delta", "done", "error"}
  BY DEF Event, Malformed, Done, Error

LEMMA WholeData ==
    ASSUME NEW e \in Event
    PROVE  /\ Whole(e) # <<>> /\ Whole(e)[1].of = e /\ JsonParse(Whole(e)) = e
           /\ Data(Whole(e)) = Whole(e) /\ Data(Append(Whole(e), NewLine)) = Whole(e)
  <1> DEFINE open == Symbol(e, "open")
             char == Symbol(e, "char")
             close == Symbol(e, "close")
             nl == NewLine
  <1>1. open.of = e /\ close # nl
    BY Symbols
  <1>2. CASE e.type = "text_delta"
    <2>1. Whole(e) = <<open, char, close>>
      BY <1>2 DEF Whole
    <2>2. Append(Whole(e), nl) = <<open, char, close, nl>>
      BY <2>1, Tuples
    <2> HIDE DEF open, char, close, nl
    <2>3. /\ <<open, char, close>> # <<>> /\ <<open, char, close>>[1] = open
          /\ Last(<<open, char, close>>) = close
          /\ <<open, char, close, nl>> # <<>>
          /\ Last(<<open, char, close, nl>>) = nl
      BY DEF Last
    <2>4. Front(<<open, char, close, nl>>) = <<open, char, close>>
      <3>1. /\ <<open, char, close>> \in Seq({open, char, close, nl})
            /\ nl \in {open, char, close, nl}
        OBVIOUS
      <3> QED
        BY <2>1, <2>2, <3>1, FrontOfAppend
    <2> QED
      BY <1>1, <2>1, <2>2, <2>3, <2>4 DEF Data, JsonParse, nl
  <1>3. CASE e.type # "text_delta"
    <2>1. Whole(e) = <<open, close>>
      BY <1>3 DEF Whole
    <2>2. Append(Whole(e), nl) = <<open, close, nl>>
      BY <2>1, Tuples
    <2> HIDE DEF open, char, close, nl
    <2>3. /\ <<open, close>> # <<>> /\ <<open, close>>[1] = open
          /\ Last(<<open, close>>) = close
          /\ <<open, close, nl>> # <<>>
          /\ Last(<<open, close, nl>>) = nl
      BY DEF Last
    <2>4. Front(<<open, close, nl>>) = <<open, close>>
      <3>1. <<open, close>> \in Seq({open, close, nl}) /\ nl \in {open, close, nl}
        OBVIOUS
      <3> QED
        BY <2>1, <2>2, <3>1, FrontOfAppend
    <2> QED
      BY <1>1, <2>1, <2>2, <2>3, <2>4 DEF Data, JsonParse, nl
  <1> QED
    BY <1>2, <1>3

\* A record is complete at its blank line, and yields its event.
LEMMA Completing ==
    ASSUME NEW e \in Event, NEW events
    PROVE  Drain(During(Holding(Append(Append(Whole(e), NewLine), NewLine)), events))
             = During(Idle, Append(events, e))
  <1> PICK whole : whole = Whole(e)
    OBVIOUS
  <1> DEFINE buffer == Append(Append(whole, NewLine), NewLine)
             n == Len(buffer)
             S == {Symbol(e, "open"), Symbol(e, "char"), Symbol(e, "close"), NewLine}
  <1>1. whole \in Seq(S) /\ Len(whole) \in Nat /\ NewLine \in S
    <2>1. CASE e.type = "text_delta"
      BY <2>1 DEF Whole
    <2>2. CASE e.type # "text_delta"
      BY <2>2 DEF Whole
    <2> QED
      BY <2>1, <2>2
  <1> HIDE DEF S
  <1>2. /\ Append(whole, NewLine) \in Seq(S) /\ Len(Append(whole, NewLine)) = Len(whole) + 1
        /\ Append(whole, NewLine)[Len(whole) + 1] = NewLine
    BY <1>1, AppendProperties
  <1>3. /\ buffer \in Seq(S) /\ n = Len(whole) + 2
        /\ buffer[Len(whole) + 2] = NewLine /\ buffer[Len(whole) + 1] = NewLine
    BY <1>1, <1>2, AppendProperties
  <1>4. SubSeq(buffer, 1, n - 2) = whole
    <2>1. /\ Append(whole, NewLine) = whole \o <<NewLine>>
          /\ buffer = Append(whole, NewLine) \o <<NewLine>> /\ <<NewLine>> \in Seq(S)
      BY <1>1, <1>2, AppendIsConcat
    <2>2. CASE Len(whole) = 0
      BY <1>1, <1>3, <2>2, SubSeqEmpty
    <2>3. CASE Len(whole) # 0
      <3>1. SubSeq(buffer, 1, Len(whole)) = SubSeq(Append(whole, NewLine), 1, Len(whole))
        BY <1>1, <1>2, <2>1, <2>3, SubSeqOfConcat1
      <3>2. SubSeq(Append(whole, NewLine), 1, Len(whole)) = SubSeq(whole, 1, Len(whole))
        BY <1>1, <1>2, <2>1, <2>3, SubSeqOfConcat1
      <3> QED
        BY <1>1, <1>3, <3>1, <3>2, SubSeqFull
    <2> QED
      BY <2>2, <2>3
  <1> HIDE DEF n, buffer
  <1>5. /\ Data(whole) = whole /\ whole # <<>> /\ JsonParse(whole) = e /\ e # Malformed
    BY WholeData, EventsAreTyped
  <1>6. Drain(During(Holding(buffer), events))
          = Yields([During(Holding(buffer), events) EXCEPT !.buffer = <<>>], whole)
    <2>1. During(Holding(buffer), events).buffer = buffer
      BY DEF During, Holding
    <2>2. n > 1 /\ buffer[n] = NewLine /\ buffer[n - 1] = NewLine
      BY <1>1, <1>3
    <2> QED
      BY <1>4, <2>1, <2>2 DEF Drain, n
  <1>7. [During(Holding(buffer), events) EXCEPT !.buffer = <<>>] = During(Idle, events)
    <2> PICK f : f = During(Holding(buffer), events)
      OBVIOUS
    <2> PICK g : g = [f EXCEPT !.buffer = <<>>]
      OBVIOUS
    <2>1. f = [pending |-> <<>>, buffer |-> buffer, events |-> events, failed |-> FALSE]
      BY DEF During, Holding
    <2>2. DOMAIN f = {"pending", "buffer", "events", "failed"}
      BY <2>1
    <2>3. g = [x \in {"pending", "buffer", "events", "failed"} |-> g[x]]
      BY <2>2, Zenon
    <2>4. g.failed = FALSE /\ g.buffer = <<>> /\ g.events = events /\ g.pending = <<>>
      BY <2>1, SMT
    <2>5. g = [pending |-> <<>>, buffer |-> <<>>, events |-> events, failed |-> FALSE]
      BY <2>3, <2>4
    <2> QED
      BY <2>5 DEF During, Idle
  <1>8. Yields(During(Idle, events), whole) = During(Idle, Append(events, e))
    BY <1>5 DEF Yields, During
  <1> QED
    BY <1>6, <1>7, <1>8 DEF buffer

\* A byte more of an event's record, wherever in it the parser is.
LEMMA ByteByByte ==
    ASSUME NEW e \in Event, NEW q \in 0..(Size(e) - 1), NEW events
    PROVE  Drain(Decode(During(Partial(e, q), events), FormatSse(e)[q + 1]))
             = IF q + 1 < Size(e) THEN During(Partial(e, q + 1), events)
                                  ELSE During(Idle, Append(events, e))
  <1> DEFINE open == Symbol(e, "open")
             lead == Symbol(e, "lead")
             trail == Symbol(e, "trail")
             char == Symbol(e, "char")
             close == Symbol(e, "close")
             nl == NewLine
             S == {open, lead, trail, char, close, nl}
             After(p, byte) == Drain(Decode(During(p, events), byte))
  <1>0. Idle = Holding(<<>>)
    BY DEF Idle, Holding
  <1>1. /\ open.part = "open" /\ lead.part = "lead" /\ trail.part = "trail" /\ trail.of = e
        /\ close.part = "close" /\ nl.part = "newline"
        /\ open # nl /\ char # nl /\ close # nl
        /\ open.part # "lead" /\ close.part # "lead" /\ nl.part # "lead"
        /\ open.part # "trail" /\ close.part # "trail" /\ nl.part # "trail"
    BY Symbols
  <1>2. /\ <<>> \in Seq(S) /\ <<open>> \in Seq(S) /\ <<open, char>> \in Seq(S)
        /\ <<open, close>> \in Seq(S) /\ <<open, char, close>> \in Seq(S)
        /\ <<open, close, nl>> \in Seq(S) /\ <<open, char, close, nl>> \in Seq(S)
    OBVIOUS
  <1>5. /\ Append(<<>>, open) = <<open>> /\ Append(<<open>>, char) = <<open, char>>
        /\ Append(<<open>>, close) = <<open, close>>
        /\ Append(<<open, char>>, close) = <<open, char, close>>
        /\ Append(<<open, close>>, nl) = <<open, close, nl>>
        /\ Append(<<open, char, close>>, nl) = <<open, char, close, nl>>
    BY Tuples
  <1>6. trail.of = e /\ Symbol(e, "char") = char
    BY Symbols
  <1>3. CASE e.type = "text_delta"
    <2>1. /\ FormatSse(e)[1] = open /\ FormatSse(e)[2] = lead /\ FormatSse(e)[3] = trail
          /\ FormatSse(e)[4] = close /\ FormatSse(e)[5] = nl /\ FormatSse(e)[6] = nl
      BY <1>3 DEF FormatSse
    <2>2. /\ Partial(e, 0) = Holding(<<>>) /\ Partial(e, 1) = Holding(<<open>>)
          /\ Partial(e, 2) = [pending |-> <<lead>>, buffer |-> <<open>>]
          /\ Partial(e, 3) = Holding(<<open, char>>)
          /\ Partial(e, 4) = Holding(<<open, char, close>>)
          /\ Partial(e, 5) = Holding(Append(<<open, char, close>>, nl))
          /\ Whole(e) = <<open, char, close>> /\ Size(e) = 6
      <3>1. Size(e) = 6 /\ Whole(e) = <<open, char, close>>
        BY <1>3 DEF Size, Whole
      <3>2. /\ Partial(e, 0) = Idle /\ Partial(e, 1) = Holding(<<open>>)
            /\ Partial(e, 2) = [pending |-> <<lead>>, buffer |-> <<open>>]
            /\ Partial(e, 3) = Holding(<<open, char>>)
            /\ Partial(e, 4) = Holding(Whole(e)) /\ Partial(e, 5) = Holding(Append(Whole(e), nl))
        BY <3>1 DEF Partial
      <3> HIDE DEF open, lead, trail, char, close, nl, S
      <3> QED
        BY <1>0, <3>1, <3>2
    <2> HIDE DEF open, lead, trail, char, close, nl, S
    <2>3. After(Partial(e, 0), open) = During(Partial(e, 1), events)
      <3>1. Decode(During(Holding(<<>>), events), open) = During(Holding(<<open>>), events)
        BY <1>1, <1>2, <1>5, DecodePlain
      <3>2. Len(Holding(<<open>>).buffer) = 1
        BY DEF Holding
      <3> QED
        BY <2>2, <3>1, <3>2, Waiting
    <2>4. After(Partial(e, 1), lead) = During(Partial(e, 2), events)
      <3>1. Decode(During(Holding(<<open>>), events), lead)
              = During([pending |-> <<lead>>, buffer |-> <<open>>], events)
        BY <1>1, <1>2, DecodeLead
      <3>2. Len([pending |-> <<lead>>, buffer |-> <<open>>].buffer) = 1
        OBVIOUS
      <3> QED
        BY <2>2, <3>1, <3>2, Waiting
    <2>5. After(Partial(e, 2), trail) = During(Partial(e, 3), events)
      <3>1. Decode(During([pending |-> <<lead>>, buffer |-> <<open>>], events), trail)
              = During(Holding(Append(<<open>>, Symbol(trail.of, "char"))), events)
        BY <1>1, <1>2, DecodeTrail
      <3>2. /\ Len(Holding(<<open, char>>).buffer) = 2
            /\ Holding(<<open, char>>).buffer[2] = char
        BY DEF Holding
      <3> QED
        BY <1>1, <1>5, <1>6, <2>2, <3>1, <3>2, Waiting DEF nl
    <2>6. After(Partial(e, 3), close) = During(Partial(e, 4), events)
      <3>1. Decode(During(Holding(<<open, char>>), events), close)
              = During(Holding(<<open, char, close>>), events)
        BY ZenonT(60), <1>1, <1>2, <1>5, DecodePlain
      <3>2. /\ Len(Holding(<<open, char, close>>).buffer) = 3
            /\ Holding(<<open, char, close>>).buffer[3] = close
        BY DEF Holding
      <3> QED
        BY ZenonT(60), <1>1, <2>2, <3>1, <3>2, Waiting DEF nl
    <2>7. After(Partial(e, 4), nl) = During(Partial(e, 5), events)
      <3>1. Decode(During(Holding(<<open, char, close>>), events), nl)
              = During(Holding(<<open, char, close, nl>>), events)
        BY ZenonT(60), <1>1, <1>2, <1>5, DecodePlain
      <3>2. /\ Len(Holding(<<open, char, close, nl>>).buffer) = 4
            /\ Holding(<<open, char, close, nl>>).buffer[3] = close
        BY DEF Holding
      <3>3. Drain(During(Holding(<<open, char, close, nl>>), events))
              = During(Holding(<<open, char, close, nl>>), events)
        BY <1>1, <3>2, Waiting DEF nl
      <3> QED
        BY <1>5, <2>2, <3>1, <3>3
    <2>8. After(Partial(e, 5), nl) = During(Idle, Append(events, e))
      <3>1. Append(<<open, char, close>>, nl) \in Seq(S)
        BY <1>2, <1>5
      <3>2. Decode(During(Partial(e, 5), events), nl)
              = During(Holding(Append(Append(Whole(e), NewLine), NewLine)), events)
        BY ZenonT(60), <1>1, <2>2, <3>1, DecodePlain DEF nl
      <3> QED
        BY <3>2, Completing
    <2>9. q \in 0..5 /\ (q = 0 \/ q = 1 \/ q = 2 \/ q = 3 \/ q = 4 \/ q = 5)
      BY <2>2
    <2> QED
      BY <2>1, <2>2, <2>3, <2>4, <2>5, <2>6, <2>7, <2>8, <2>9
  <1>4. CASE e.type # "text_delta"
    <2>1. /\ FormatSse(e)[1] = open /\ FormatSse(e)[2] = close
          /\ FormatSse(e)[3] = nl /\ FormatSse(e)[4] = nl
      BY <1>4 DEF FormatSse
    <2>2. /\ Partial(e, 0) = Holding(<<>>) /\ Partial(e, 1) = Holding(<<open>>)
          /\ Partial(e, 2) = Holding(<<open, close>>)
          /\ Partial(e, 3) = Holding(Append(<<open, close>>, nl))
          /\ Whole(e) = <<open, close>> /\ Size(e) = 4
      <3>1. Size(e) = 4 /\ Whole(e) = <<open, close>>
        BY <1>4 DEF Size, Whole
      <3>2. /\ Partial(e, 0) = Idle /\ Partial(e, 1) = Holding(<<open>>)
            /\ Partial(e, 2) = Holding(Whole(e)) /\ Partial(e, 3) = Holding(Append(Whole(e), nl))
        BY <3>1 DEF Partial
      <3> HIDE DEF open, lead, trail, char, close, nl, S
      <3> QED
        BY <1>0, <3>1, <3>2
    <2> HIDE DEF open, lead, trail, char, close, nl, S
    <2>3. After(Partial(e, 0), open) = During(Partial(e, 1), events)
      <3>1. Decode(During(Holding(<<>>), events), open) = During(Holding(<<open>>), events)
        BY <1>1, <1>2, <1>5, DecodePlain
      <3>2. Len(Holding(<<open>>).buffer) = 1
        BY DEF Holding
      <3> QED
        BY <2>2, <3>1, <3>2, Waiting
    <2>4. After(Partial(e, 1), close) = During(Partial(e, 2), events)
      <3>1. Decode(During(Holding(<<open>>), events), close)
              = During(Holding(<<open, close>>), events)
        BY ZenonT(60), <1>1, <1>2, <1>5, DecodePlain
      <3>2. /\ Len(Holding(<<open, close>>).buffer) = 2
            /\ Holding(<<open, close>>).buffer[2] = close
        BY DEF Holding
      <3> QED
        BY <1>1, <2>2, <3>1, <3>2, Waiting DEF nl
    <2>5. After(Partial(e, 2), nl) = During(Partial(e, 3), events)
      <3>1. Decode(During(Holding(<<open, close>>), events), nl)
              = During(Holding(<<open, close, nl>>), events)
        BY ZenonT(60), <1>1, <1>2, <1>5, DecodePlain
      <3>2. /\ Len(Holding(<<open, close, nl>>).buffer) = 3
            /\ Holding(<<open, close, nl>>).buffer[2] = close
        BY DEF Holding
      <3>3. Drain(During(Holding(<<open, close, nl>>), events))
              = During(Holding(<<open, close, nl>>), events)
        BY <1>1, <3>2, Waiting DEF nl
      <3> QED
        BY <1>5, <2>2, <3>1, <3>3
    <2>6. After(Partial(e, 3), nl) = During(Idle, Append(events, e))
      <3>1. Append(<<open, close>>, nl) \in Seq(S)
        BY <1>2, <1>5
      <3>2. Decode(During(Partial(e, 3), events), nl)
              = During(Holding(Append(Append(Whole(e), NewLine), NewLine)), events)
        BY ZenonT(60), <1>1, <2>2, <3>1, DecodePlain DEF nl
      <3> QED
        BY <3>2, Completing
    <2>7. q \in 0..3 /\ (q = 0 \/ q = 1 \/ q = 2 \/ q = 3)
      BY <2>2
    <2> QED
      BY <2>1, <2>2, <2>3, <2>4, <2>5, <2>6, <2>7
  <1> QED
    BY <1>3, <1>4

-----------------------------------------------------------------------------
(* A read.  Induction, stated for a set of numbers instead of a predicate. *)

LEMMA NatSetInduction ==
    ASSUME NEW S, 0 \in S, \A n \in Nat : n \in S => n + 1 \in S
    PROVE  Nat \subseteq S
  <1> DEFINE T == Nat \ S
  <1> SUFFICES ASSUME T # {}
               PROVE  FALSE
    OBVIOUS
  <1>1. PICK n \in T : \A m \in T : ~ (<<m, n>> \in OpToRel(<, Nat))
    <2> HIDE DEF T
    <2>1. T \subseteq Nat
      BY DEF T
    <2> QED
      BY <2>1, NatLessThanWellFounded, WFMin
  <1>2. n \in Nat /\ n \notin S /\ n # 0
    OBVIOUS
  <1>3. n - 1 \in Nat /\ n - 1 < n /\ n = (n - 1) + 1
    BY <1>2
  <1>4. <<n - 1, n>> \in OpToRel(<, Nat)
    BY <1>2, <1>3 DEF OpToRel
  <1>5. n - 1 \in S
    BY <1>1, <1>3, <1>4
  <1> QED
    BY <1>2, <1>3, <1>5

\* The loop over the bytes of a read exists: Fed's recursive function is one,
\* and would otherwise say nothing.
FedBy(after, from, bytes, N) ==
    after = [k \in 0..N |-> IF k = 0 THEN Begin(from)
                                     ELSE Drain(Decode(after[k - 1], bytes[k]))]

LEMMA ReadsExist ==
    ASSUME NEW from, NEW bytes, NEW N \in Nat
    PROVE  \E after : FedBy(after, from, bytes, N)
  <1> DEFINE Step(r, k) == Drain(Decode(r, bytes[k]))
             IsLoop(f, n) == f = [k \in 0..n |-> IF k = 0 THEN Begin(from) ELSE Step(f[k - 1], k)]
             S == {n \in Nat : \E f : IsLoop(f, n)}
  <1> HIDE DEF Step
  <1>1. 0 \in S
    <2> DEFINE f == [k \in 0..0 |-> Begin(from)]
    <2>1. IsLoop(f, 0)
      OBVIOUS
    <2> QED
      BY <2>1
  <1>2. ASSUME NEW n \in Nat, n \in S PROVE n + 1 \in S
    <2>1. PICK f : IsLoop(f, n)
      BY <1>2
    <2> DEFINE g == [k \in 0..(n + 1) |-> IF k = 0 THEN Begin(from) ELSE Step(f[k - 1], k)]
    <2>2. \A k \in 0..n : g[k] = f[k]
      BY <2>1
    <2>3. IsLoop(g, n + 1)
      <3>1. \A k \in 0..(n + 1) : k # 0 => k - 1 \in 0..n
        OBVIOUS
      <3>2. \A k \in 0..(n + 1) :
              (IF k = 0 THEN Begin(from) ELSE Step(f[k - 1], k))
              = (IF k = 0 THEN Begin(from) ELSE Step(g[k - 1], k))
        BY <2>2, <3>1
      <3>3. g = [k \in 0..(n + 1) |-> IF k = 0 THEN Begin(from) ELSE Step(f[k - 1], k)]
        OBVIOUS
      <3> HIDE DEF g
      <3> QED
        BY <3>2, <3>3
    <2> HIDE DEF g
    <2> QED
      BY <2>3
  <1> HIDE DEF S
  <1>3. N \in S
    BY <1>1, <1>2, NatSetInduction
  <1> QED
    BY <1>3 DEF S, FedBy, Step

\* What the reader has yielded after each of the bytes.
Feeding(after, from, bytes, N) ==
    /\ after[0] = Begin(from)
    /\ \A k \in 0..(N - 1) : after[k + 1] = Drain(Decode(after[k], bytes[k + 1]))
    /\ Fed(from, bytes) = after[N]

LEMMA FedSteps ==
    ASSUME NEW from, NEW bytes, Len(bytes) \in Nat
    PROVE  \E after : Feeding(after, from, bytes, Len(bytes))
  <1> DEFINE N == Len(bytes)
             after[k \in 0..N] ==
                 IF k = 0 THEN Begin(from) ELSE Drain(Decode(after[k - 1], bytes[k]))
  <1>1. Fed(from, bytes) = after[N]
    BY DEF Fed
  <1>2. FedBy(after, from, bytes, N)
    <2> HIDE DEF N
    <2>1. \E f : FedBy(f, from, bytes, N)
      BY ReadsExist DEF N
    <2> QED
      BY <2>1 DEF FedBy
  <1> HIDE DEF after
  <1>3. after[0] = Begin(from)
    BY <1>2 DEF FedBy
  <1>4. \A k \in 0..(N - 1) : after[k + 1] = Drain(Decode(after[k], bytes[k + 1]))
    <2> TAKE k \in 0..(N - 1)
    <2>1. k + 1 \in 0..N /\ k + 1 # 0 /\ (k + 1) - 1 = k
      OBVIOUS
    <2> HIDE DEF N
    <2> QED
      BY <1>2, <2>1 DEF FedBy
  <1> QED
    BY <1>1, <1>3, <1>4 DEF Feeding

\* Positions in the stream of the events es: h of them are behind, and q bytes
\* of the next.  The bytes w still to be read go on from there, byte after byte,
\* to the end of what is written.
Path(h, q, es, w) ==
    /\ h \in [0..Len(w) -> 0..Len(es)] /\ q \in [0..Len(w) -> Nat]
    /\ \A k \in 0..Len(w) : q[k] = 0 \/ (h[k] < Len(es) /\ q[k] < Size(es[h[k] + 1]))
    /\ \A k \in 0..(Len(w) - 1) :
         /\ h[k] < Len(es)
         /\ w[k + 1] = FormatSse(es[h[k] + 1])[q[k] + 1]
         /\ IF q[k] + 1 < Size(es[h[k] + 1])
              THEN h[k + 1] = h[k] /\ q[k + 1] = q[k] + 1
              ELSE h[k + 1] = h[k] + 1 /\ q[k + 1] = 0
    /\ h[Len(w)] = Len(es) /\ q[Len(w)] = 0

LEMMA EmptyReads == ASSUME NEW p PROVE Begin(p) = During(p, <<>>)
  BY DEF Begin, During

\* What a read has yielded after k of its bytes: the events that have ended, and
\* a parser within the next.
LEMMA FedAlong ==
    ASSUME NEW es \in Seq(Event), NEW w, Len(w) \in Nat, NEW h, NEW q, Path(h, q, es, w),
           NEW n \in 0..Len(w), NEW bytes, Len(bytes) = n,
           \A k \in 1..n : bytes[k] = w[k]
    PROVE  /\ h[0] <= h[n]
           /\ Fed(Partial(es[h[0] + 1], q[0]), bytes)
                = During(Partial(es[h[n] + 1], q[n]), SubSeq(es, h[0] + 1, h[n]))
  <1> DEFINE p == Partial(es[h[0] + 1], q[0])
             At(k) == During(Partial(es[h[k] + 1], q[k]), SubSeq(es, h[0] + 1, h[k]))
  <1>0. PICK after : Feeding(after, p, bytes, n)
    <2> HIDE DEF p
    <2>1. \E f : Feeding(f, p, bytes, Len(bytes))
      BY FedSteps
    <2> QED
      BY <2>1
  <1>1. /\ after[0] = Begin(p)
        /\ \A k \in 0..(n - 1) : after[k + 1] = Drain(Decode(after[k], bytes[k + 1]))
        /\ Fed(p, bytes) = after[n]
    <2> HIDE DEF p
    <2> QED
      BY <1>0 DEF Feeding
  <1> DEFINE S == {k \in Nat : k <= n => h[0] <= h[k] /\ after[k] = At(k)}
  <1>2. \A k \in 0..n : h[k] \in 0..Len(es) /\ q[k] \in Nat /\ k \in 0..Len(w)
    <2>1. h \in [0..Len(w) -> 0..Len(es)] /\ q \in [0..Len(w) -> Nat]
      BY Zenon DEF Path
    <2> QED
      BY <2>1
  <1>3. 0 \in S
    <2>1. SubSeq(es, h[0] + 1, h[0]) = <<>>
      BY <1>2, SubSeqEmpty
    <2>2. after[0] = At(0)
      BY <1>1, <2>1, EmptyReads
    <2> QED
      BY <1>2, <2>2
  <1>4. ASSUME NEW k \in Nat, k \in S PROVE k + 1 \in S
    <2> SUFFICES ASSUME k + 1 <= n
                 PROVE  h[0] <= h[k + 1] /\ after[k + 1] = At(k + 1)
      OBVIOUS
    <2>1. k \in 0..(n - 1) /\ k \in 0..n /\ k + 1 \in 0..n /\ k + 1 \in 1..n /\ k \in 0..(Len(w) - 1)
      OBVIOUS
    <2>2. h[0] <= h[k] /\ after[k] = At(k)
      BY <1>4, <2>1
    <2>3. h[0] \in 0..Len(es) /\ h[k] \in 0..Len(es) /\ q[k] \in Nat /\ k \in 0..Len(w)
      BY <1>2, <2>1
    <2> DEFINE e == es[h[k] + 1]
               events == SubSeq(es, h[0] + 1, h[k])
    <2>4. /\ h[k] < Len(es)
          /\ w[k + 1] = FormatSse(e)[q[k] + 1]
          /\ IF q[k] + 1 < Size(e)
               THEN h[k + 1] = h[k] /\ q[k + 1] = q[k] + 1
               ELSE h[k + 1] = h[k] + 1 /\ q[k + 1] = 0
          /\ q[k] = 0 \/ q[k] < Size(e)
      BY <2>1, <2>3 DEF Path
    <2>5. e \in Event /\ h[k] + 1 \in 1..Len(es)
      BY <2>3, <2>4
    <2>6. q[k] \in 0..(Size(e) - 1)
      BY <2>3, <2>4 DEF Size
    <2>7. after[k + 1] = IF q[k] + 1 < Size(e) THEN During(Partial(e, q[k] + 1), events)
                                              ELSE During(Idle, Append(events, e))
      <3>1. after[k + 1] = Drain(Decode(During(Partial(e, q[k]), events), FormatSse(e)[q[k] + 1]))
        BY <1>1, <2>1, <2>2, <2>4
      <3> QED
        BY <2>5, <2>6, <3>1, ByteByByte
    <2>8. CASE q[k] + 1 < Size(e)
      <3>1. h[k + 1] = h[k] /\ q[k + 1] = q[k] + 1
        BY <2>4, <2>8
      <3> QED
        BY <2>2, <2>7, <2>8, <3>1
    <2>9. CASE ~(q[k] + 1 < Size(e))
      <3>1. h[k + 1] = h[k] + 1 /\ q[k + 1] = 0
        BY <2>4, <2>9
      <3>2. Append(events, e) = SubSeq(es, h[0] + 1, h[k] + 1)
        <4>1. events \in Seq(Event)
          <5>1. \A i \in (h[0] + 1)..h[k] : es[i] \in Event
            BY <2>3
          <5> QED
            BY <2>3, <5>1, SubSeqProperties
        <4>2. Append(events, e) = events \o <<e>>
          BY <2>5, <4>1, AppendIsConcat
        <4>3. SubSeq(es, h[0] + 1, h[k] + 1) = SubSeq(es, h[0] + 1, h[k]) \o <<es[h[k] + 1]>>
          <5>1. /\ h[0] + 1 \in 1..Len(es) /\ h[k] + 1 \in (h[0] + 1)..Len(es)
                /\ (h[k] + 1) - 1 = h[k]
            BY SMTT(30), <2>2, <2>3, <2>4
          <5> QED
            BY <5>1, SubSeqRecursiveSecond
        <4> QED
          BY <4>2, <4>3
      <3>3. Partial(es[h[k + 1] + 1], q[k + 1]) = Idle
        BY <3>1 DEF Partial
      <3>4. after[k + 1] = During(Idle, SubSeq(es, h[0] + 1, h[k] + 1))
        BY <2>7, <2>9, <3>2
      <3>5. after[k + 1] = At(k + 1)
        BY <3>1, <3>3, <3>4
      <3>6. h[0] <= h[k + 1]
        BY <2>2, <2>3, <3>1
      <3> QED
        BY <3>5, <3>6
    <2> QED
      BY <2>8, <2>9
  <1>5. n \in S
    <2> HIDE DEF S
    <2> QED
      BY <1>3, <1>4, NatSetInduction
  <1> QED
    BY <1>1, <1>5

Bytes == [of : Event \cup {[type |-> "none"]},
          part : {"open", "lead", "trail", "char", "close", "newline", "replaced"}]

LEMMA RecordsAreBytes ==
    ASSUME NEW e \in Event
    PROVE  FormatSse(e) \in Seq(Bytes) /\ Len(FormatSse(e)) = Size(e) /\ Size(e) \in {4, 6}
  <1>1. /\ Symbol(e, "open") \in Bytes /\ Symbol(e, "lead") \in Bytes
        /\ Symbol(e, "trail") \in Bytes /\ Symbol(e, "close") \in Bytes
    BY DEF Symbol, Bytes
  <1>2. NewLine \in Bytes
    BY DEF NewLine, Bytes
  <1>3. CASE e.type = "text_delta"
    BY <1>1, <1>2, <1>3 DEF FormatSse, Size
  <1>4. CASE e.type # "text_delta"
    BY <1>1, <1>2, <1>4 DEF FormatSse, Size
  <1> QED
    BY <1>3, <1>4

\* A parser that has given m events of the stream es, with w still to be read.
Framed(p, m, es, w) ==
    \E h, q : Path(h, q, es, w) /\ h[0] = m /\ p = Partial(es[m + 1], q[0])

LEMMA PathTypes ==
    ASSUME NEW es, NEW w, NEW h, NEW q, Path(h, q, es, w)
    PROVE  h \in [0..Len(w) -> 0..Len(es)] /\ q \in [0..Len(w) -> Nat]
  BY Zenon DEF Path

LEMMA FramedStarts == Framed(Idle, 0, <<>>, <<>>)
  <1> DEFINE h == [k \in 0..0 |-> 0]
             q == [k \in 0..0 |-> 0]
  <1>1. Len(<<>>) = 0
    OBVIOUS
  <1>2. Path(h, q, <<>>, <<>>)
    BY <1>1 DEF Path
  <1>3. \A x : Partial(x, 0) = Idle
    BY DEF Partial
  <1>4. h[0] = 0 /\ Idle = Partial(<<>>[0 + 1], q[0])
    BY <1>3
  <1> HIDE DEF h, q
  <1> QED
    BY <1>2, <1>4 DEF Framed

LEMMA PartialIsParser ==
    ASSUME NEW e, NEW q
    PROVE  Partial(e, q) = [pending |-> Partial(e, q).pending, buffer |-> Partial(e, q).buffer]
  <1>1. \A b : Holding(b) = [pending |-> Holding(b).pending, buffer |-> Holding(b).buffer]
    BY DEF Holding
  <1>2. Idle = [pending |-> Idle.pending, buffer |-> Idle.buffer]
    BY DEF Idle
  <1>3. CASE q = 0
    BY <1>2, <1>3 DEF Partial
  <1>4. CASE q = 1
    BY <1>1, <1>4 DEF Partial
  <1>5. CASE q # 0 /\ q # 1 /\ q = Size(e) - 2
    BY <1>1, <1>5 DEF Partial
  <1>6. CASE q # 0 /\ q # 1 /\ q # Size(e) - 2 /\ q = Size(e) - 1
    BY <1>1, <1>6 DEF Partial
  <1>7. CASE q # 0 /\ q # 1 /\ q # Size(e) - 2 /\ q # Size(e) - 1 /\ q = 2
    BY <1>7 DEF Partial
  <1>8. CASE q # 0 /\ q # 1 /\ q # Size(e) - 2 /\ q # Size(e) - 1 /\ q # 2
    BY <1>1, <1>8 DEF Partial
  <1> QED
    BY <1>3, <1>4, <1>5, <1>6, <1>7, <1>8

\* A read, wherever it is cut, gives the next events of the stream, none of them
\* damaged, and leaves the parser framed at the rest.
LEMMA FramedReads ==
    ASSUME NEW es \in Seq(Event), NEW w \in Seq(Bytes), NEW m \in 0..Len(es), NEW p,
           Framed(p, m, es, w), NEW n \in 1..Len(w)
    PROVE  \E m2 \in m..Len(es) : \E p2 :
             /\ Feed(p, SubSeq(w, 1, n)) = During(p2, SubSeq(es, m + 1, m2))
             /\ Framed([pending |-> p2.pending, buffer |-> p2.buffer], m2, es,
                       SubSeq(w, n + 1, Len(w)))
  <1>a. PICK bytes : bytes = SubSeq(w, 1, n)
    OBVIOUS
  <1>b. PICK rest : rest = SubSeq(w, n + 1, Len(w))
    OBVIOUS
  <1>1. /\ Len(w) \in Nat /\ n \in Nat /\ n <= Len(w) /\ Len(es) \in Nat
        /\ \A i \in 1..Len(w) : w[i] \in Bytes
    OBVIOUS
  <1>2. Len(bytes) = n /\ \A k \in 1..n : bytes[k] = w[k]
    <2>1. \A i \in 1..n : w[i] \in Bytes
      BY <1>1
    <2> QED
      BY <1>1, <1>a, <2>1, SubSeqProperties
  <1>3. Len(rest) = Len(w) - n /\ \A k \in 1..(Len(w) - n) : rest[k] = w[n + k]
    <2>1. \A i \in (n + 1)..Len(w) : w[i] \in Bytes
      BY <1>1
    <2>2. n + 1 \in Int /\ Len(w) \in Int
      BY <1>1
    <2>3. /\ Len(rest) = IF n + 1 <= Len(w) THEN Len(w) - (n + 1) + 1 ELSE 0
          /\ \A i \in 1..(Len(w) - (n + 1) + 1) : rest[i] = w[(n + 1) + i - 1]
      BY <1>b, <2>1, <2>2, SubSeqProperties
    <2> QED
      BY <1>1, <2>3
  <1>4. PICK h, q : Path(h, q, es, w) /\ h[0] = m /\ p = Partial(es[m + 1], q[0])
    BY DEF Framed
  <1>5. h \in [0..Len(w) -> 0..Len(es)] /\ q \in [0..Len(w) -> Nat]
    BY <1>4, PathTypes
  <1>p. PICK p2 : p2 = Partial(es[h[n] + 1], q[n])
    OBVIOUS
  <1>6. /\ m <= h[n] /\ h[n] \in 0..Len(es)
        /\ Fed(p, bytes) = During(p2, SubSeq(es, m + 1, h[n]))
    <2>1. n \in 0..Len(w)
      BY <1>1
    <2>2. /\ h[0] <= h[n]
          /\ Fed(Partial(es[h[0] + 1], q[0]), bytes)
               = During(Partial(es[h[n] + 1], q[n]), SubSeq(es, h[0] + 1, h[n]))
      <3>1. Path(h, q, es, w) /\ Len(w) \in Nat
        BY <1>1, <1>4
      <3> QED
        BY SMTT(60), <1>2, <2>1, <3>1, FedAlong
    <2>3. h[n] \in 0..Len(es)
      BY <1>5, <2>1
    <2> QED
      BY <1>4, <1>p, <2>2, <2>3
  <1> DEFINE h2 == [k \in 0..Len(rest) |-> h[n + k]]
             q2 == [k \in 0..Len(rest) |-> q[n + k]]
  <1>7. Path(h2, q2, es, rest)
    <2>1. h2 \in [0..Len(rest) -> 0..Len(es)] /\ q2 \in [0..Len(rest) -> Nat]
      <3>1. \A k \in 0..Len(rest) : n + k \in 0..Len(w)
        BY <1>1, <1>3
      <3> QED
        BY <1>5, <3>1
    <2>2. \A k \in 0..Len(rest) : q2[k] = 0 \/ (h2[k] < Len(es) /\ q2[k] < Size(es[h2[k] + 1]))
      <3> TAKE k \in 0..Len(rest)
      <3>1. n + k \in 0..Len(w)
        BY <1>1, <1>3
      <3>2. h2[k] = h[n + k] /\ q2[k] = q[n + k]
        OBVIOUS
      <3> HIDE DEF h2, q2
      <3>3. q[n + k] = 0 \/ (h[n + k] < Len(es) /\ q[n + k] < Size(es[h[n + k] + 1]))
        BY <1>4, <3>1 DEF Path
      <3> QED
        BY <3>2, <3>3
    <2>3. ASSUME NEW k \in 0..(Len(rest) - 1)
          PROVE  /\ h2[k] < Len(es)
                 /\ rest[k + 1] = FormatSse(es[h2[k] + 1])[q2[k] + 1]
                 /\ IF q2[k] + 1 < Size(es[h2[k] + 1])
                      THEN h2[k + 1] = h2[k] /\ q2[k + 1] = q2[k] + 1
                      ELSE h2[k + 1] = h2[k] + 1 /\ q2[k + 1] = 0
      <3> PICK i : i = n + k
        OBVIOUS
      <3>1. i \in 0..(Len(w) - 1) /\ k + 1 \in 1..(Len(w) - n) /\ n + (k + 1) = i + 1
            /\ k \in 0..Len(rest) /\ k + 1 \in 0..Len(rest)
        BY <1>1, <1>3
      <3>2. /\ h2[k] = h[i] /\ q2[k] = q[i] /\ h2[k + 1] = h[i + 1] /\ q2[k + 1] = q[i + 1]
            /\ rest[k + 1] = w[i + 1]
        BY <1>3, <3>1
      <3> HIDE DEF h2, q2
      <3>3. /\ h[i] < Len(es)
            /\ w[i + 1] = FormatSse(es[h[i] + 1])[q[i] + 1]
            /\ IF q[i] + 1 < Size(es[h[i] + 1])
                 THEN h[i + 1] = h[i] /\ q[i + 1] = q[i] + 1
                 ELSE h[i + 1] = h[i] + 1 /\ q[i + 1] = 0
        BY <1>4, <3>1 DEF Path
      <3> QED
        BY <3>2, <3>3
    <2>4. h2[Len(rest)] = Len(es) /\ q2[Len(rest)] = 0
      <3>1. n + Len(rest) = Len(w) /\ Len(rest) \in 0..Len(rest)
        BY <1>1, <1>3
      <3>2. h[Len(w)] = Len(es) /\ q[Len(w)] = 0
        BY <1>4 DEF Path
      <3> QED
        BY <3>1, <3>2
    <2> HIDE DEF h2, q2
    <2> QED
      BY <2>1, <2>2, <2>3, <2>4 DEF Path
  <1>8. h2[0] = h[n] /\ q2[0] = q[n]
    BY <1>1, <1>3
  <1> HIDE DEF h2, q2
  <1>9. Framed(p2, h[n], es, rest)
    BY <1>p, <1>7, <1>8 DEF Framed
  <1>10. p2 = [pending |-> p2.pending, buffer |-> p2.buffer]
    BY <1>p, PartialIsParser
  <1> QED
    BY <1>a, <1>b, <1>6, <1>9, <1>10 DEF Feed

\* An event more is written.
LEMMA FramedGrows ==
    ASSUME NEW es \in Seq(Event), NEW w \in Seq(Bytes), NEW m \in 0..Len(es), NEW p,
           Framed(p, m, es, w), NEW e \in Event
    PROVE  Framed(p, m, Append(es, e), w \o FormatSse(e))
  <1>a. PICK f : f = FormatSse(e)
    OBVIOUS
  <1>b. PICK es2 : es2 = Append(es, e)
    OBVIOUS
  <1>c. PICK w2 : w2 = w \o f
    OBVIOUS
  <1>d. PICK N : N = Len(w)
    OBVIOUS
  <1>x. PICK H : H = Len(es)
    OBVIOUS
  <1>y. PICK Z : Z = Size(e)
    OBVIOUS
  <1>1. f \in Seq(Bytes) /\ Len(f) = Z /\ Z \in {4, 6} /\ N \in Nat /\ H \in Nat
    BY <1>a, <1>d, <1>x, <1>y, RecordsAreBytes
  <1>2. Len(es2) = H + 1 /\ es2[H + 1] = e /\ \A i \in 1..H : es2[i] = es[i]
    BY <1>b, <1>x, AppendProperties
  <1>r. \A i \in 0..H : i < H => es2[i + 1] = es[i + 1] /\ i < H + 1 /\ i + 1 \in 1..H
    BY <1>1, <1>2
  <1>3. /\ Len(w2) = N + Z
        /\ \A i \in 1..N : w2[i] = w[i]
        /\ \A i \in 1..Z : w2[N + i] = f[i]
    BY <1>1, <1>c, <1>d, ConcatProperties
  <1>4. PICK h, q : Path(h, q, es, w) /\ h[0] = m /\ p = Partial(es[m + 1], q[0])
    BY DEF Framed
  <1>5. h \in [0..N -> 0..H] /\ q \in [0..N -> Nat]
    BY <1>4, <1>d, <1>x, PathTypes
  <1> DEFINE h2 == [k \in 0..(N + Z) |-> IF k <= N THEN h[k] ELSE IF k < N + Z THEN H ELSE H + 1]
             q2 == [k \in 0..(N + Z) |-> IF k <= N THEN q[k] ELSE IF k < N + Z THEN k - N ELSE 0]
  <1>6. /\ \A k \in 0..N : h2[k] = h[k] /\ q2[k] = q[k]
        /\ h2[N + Z] = H + 1 /\ q2[N + Z] = 0
    BY <1>1
  <1>7. h[N] = H /\ q[N] = 0
    BY <1>4, <1>d, <1>x DEF Path
  <1>8. \A j \in 0..(Z - 1) : h2[N + j] = H /\ q2[N + j] = j
    <2> TAKE j \in 0..(Z - 1)
    <2>1. CASE j = 0
      BY <1>1, <1>6, <1>7, <2>1
    <2>2. CASE j # 0
      BY <1>1, <2>2
    <2> QED
      BY <2>1, <2>2
  <1>9. h2 \in [0..(N + Z) -> 0..(H + 1)] /\ q2 \in [0..(N + Z) -> Nat]
    BY <1>1, <1>5
  <1> HIDE DEF h2, q2
  <1>10. Path(h2, q2, es2, w2)
    <2>1. ASSUME NEW k \in 0..(N + Z)
          PROVE  q2[k] = 0 \/ (h2[k] < H + 1 /\ q2[k] < Size(es2[h2[k] + 1]))
      <3>1. CASE k \in 0..N
        <4>1. q[k] = 0 \/ (h[k] < H /\ q[k] < Size(es[h[k] + 1]))
          BY <1>4, <1>d, <1>x, <3>1 DEF Path
        <4>2. h[k] < H => es2[h[k] + 1] = es[h[k] + 1]
          <5>1. h[k] \in 0..H
            BY <1>5, <3>1
          <5> QED
            BY <1>r, <5>1
        <4>3. h[k] < H => h[k] < H + 1
          BY <1>1, <1>5, <3>1
        <4> QED
          BY <1>6, <3>1, <4>1, <4>2, <4>3
      <3>2. CASE k \in (N + 1)..(N + Z - 1)
        <4> PICK j : j = k - N
          OBVIOUS
        <4>1. j \in 0..(Z - 1) /\ k = N + j /\ j < Z
          BY <1>1, <3>2
        <4>2. h2[k] = H /\ q2[k] = j
          BY <1>8, <4>1
        <4> QED
          <5>1. es2[h2[k] + 1] = e
            BY <1>2, <4>2
          <5>2. h2[k] < H + 1
            BY <1>1, <4>2
          <5> QED
            BY <1>y, <4>1, <4>2, <5>1, <5>2
      <3>3. CASE k = N + Z
        BY <1>6, <3>3
      <3> QED
        BY <1>1, <3>1, <3>2, <3>3
    <2>2. ASSUME NEW k \in 0..(N + Z - 1)
          PROVE  /\ h2[k] < H + 1
                 /\ w2[k + 1] = FormatSse(es2[h2[k] + 1])[q2[k] + 1]
                 /\ IF q2[k] + 1 < Size(es2[h2[k] + 1])
                      THEN h2[k + 1] = h2[k] /\ q2[k + 1] = q2[k] + 1
                      ELSE h2[k + 1] = h2[k] + 1 /\ q2[k + 1] = 0
      <3>1. CASE k \in 0..(N - 1)
        <4>1. /\ h[k] < H
              /\ w[k + 1] = FormatSse(es[h[k] + 1])[q[k] + 1]
              /\ IF q[k] + 1 < Size(es[h[k] + 1])
                   THEN h[k + 1] = h[k] /\ q[k + 1] = q[k] + 1
                   ELSE h[k + 1] = h[k] + 1 /\ q[k + 1] = 0
          BY <1>4, <1>d, <1>x, <3>1 DEF Path
        <4>2. k \in 0..N /\ k + 1 \in 0..N /\ k + 1 \in 1..N
          BY <1>1, <3>1
        <4>3. h[k] \in 0..H /\ h[k] < H + 1 /\ h[k] + 1 \in 1..H
          <5>1. h[k] \in 0..H
            BY <1>5, <4>2
          <5> QED
            BY <1>r, <4>1, <5>1
        <4>4. es2[h[k] + 1] = es[h[k] + 1] /\ w2[k + 1] = w[k + 1]
          BY <1>2, <1>3, <4>2, <4>3
        <4>5. /\ h2[k] = h[k] /\ q2[k] = q[k] /\ h2[k + 1] = h[k + 1] /\ q2[k + 1] = q[k + 1]
          BY <1>6, <4>2
        <4> QED
          BY <4>1, <4>3, <4>4, <4>5
      <3>2. CASE k \in N..(N + Z - 1)
        <4> PICK j : j = k - N
          OBVIOUS
        <4>1. j \in 0..(Z - 1) /\ k = N + j /\ k + 1 = N + (j + 1) /\ j + 1 \in 1..Z
          BY <1>1, <3>2
        <4>2. h2[k] = H /\ q2[k] = j /\ H < H + 1
          BY <1>1, <1>8, <4>1
        <4>3. w2[k + 1] = FormatSse(e)[j + 1] /\ es2[H + 1] = e
          BY <1>a, <1>2, <1>3, <4>1
        <4>4. CASE j + 1 < Z
          <5>1. j + 1 \in 0..(Z - 1)
            BY <1>1, <4>1, <4>4
          <5>2. h2[k + 1] = H /\ q2[k + 1] = j + 1
            BY <1>8, <4>1, <5>1
          <5> QED
            BY <1>y, <4>2, <4>3, <4>4, <5>2
        <4>5. CASE ~(j + 1 < Z)
          <5>1. j + 1 = Z
            BY <1>1, <4>1, <4>5
          <5>2. h2[k + 1] = H + 1 /\ q2[k + 1] = 0
            BY <1>6, <4>1, <5>1
          <5> QED
            BY <1>y, <4>2, <4>3, <4>5, <5>2
        <4> QED
          BY <4>4, <4>5
      <3> QED
        BY <1>1, <3>1, <3>2
    <2> QED
      <3>1. /\ h2 \in [0..Len(w2) -> 0..Len(es2)] /\ q2 \in [0..Len(w2) -> Nat]
            /\ h2[Len(w2)] = Len(es2) /\ q2[Len(w2)] = 0
        BY <1>2, <1>3, <1>6, <1>9
      <3> QED
        <4>1. \A k \in 0..Len(w2) :
                  q2[k] = 0 \/ (h2[k] < Len(es2) /\ q2[k] < Size(es2[h2[k] + 1]))
          BY <1>2, <1>3, <2>1
        <4>2. \A k \in 0..(Len(w2) - 1) :
                /\ h2[k] < Len(es2)
                /\ w2[k + 1] = FormatSse(es2[h2[k] + 1])[q2[k] + 1]
                /\ IF q2[k] + 1 < Size(es2[h2[k] + 1])
                     THEN h2[k + 1] = h2[k] /\ q2[k + 1] = q2[k] + 1
                     ELSE h2[k + 1] = h2[k] + 1 /\ q2[k + 1] = 0
          <5> TAKE k \in 0..(Len(w2) - 1)
          <5>1. k \in 0..(N + Z - 1)
            BY <1>1, <1>3
          <5>2. Len(es2) = H + 1
            BY <1>2
          <5> QED
            BY Zenon, <2>2, <5>1, <5>2
        <4> QED
          BY Zenon, <3>1, <4>1, <4>2 DEF Path
  <1>11. h2[0] = m /\ q2[0] = q[0]
    BY <1>1, <1>4, <1>6
  <1>12. p = Partial(es2[m + 1], q2[0])
    <2>1. CASE q[0] = 0
      BY <1>4, <1>11, <2>1 DEF Partial
    <2>2. CASE q[0] # 0
      <3>1. h[0] < H
        <4>1. \A k \in 0..Len(w) : q[k] = 0 \/ (h[k] < Len(es) /\ q[k] < Size(es[h[k] + 1]))
          BY Zenon, <1>4 DEF Path
        <4> QED
          BY <1>1, <1>d, <1>x, <2>2, <4>1
      <3>2. es2[m + 1] = es[m + 1]
        BY <1>1, <1>2, <1>4, <3>1
      <3> QED
        BY <1>4, <1>11, <3>2
    <2> QED
      BY <2>1, <2>2
  <1> QED
    BY <1>a, <1>b, <1>c, <1>10, <1>11, <1>12 DEF Framed

\* What the parser holds of a record whose end never comes: nothing, the start of
\* it, which is no JSON, or the whole event with no blank line behind it.
LEMMA NoJson ==
    ASSUME NEW e \in Event, NEW x,
           x = Symbol(e, "char") \/ x = Symbol(e, "replaced"), e.type = "text_delta"
    PROVE  /\ Data(<<Symbol(e, "open"), x>>) = <<Symbol(e, "open"), x>>
           /\ JsonParse(<<Symbol(e, "open"), x>>) = Malformed
  <1> DEFINE open == Symbol(e, "open")
             char == Symbol(e, "char")
             close == Symbol(e, "close")
  <1>1. open.of = e /\ open.part = "open" /\ x.part # "close" /\ x # NewLine
    BY Symbols
  <1>2. Whole(e) = <<open, char, close>>
    BY DEF Whole
  <1> HIDE DEF open, char, close
  <1>3. <<open, x>> # <<open, char, close>> /\ <<open, x>> # <<>> /\ <<open, x>>[1] = open
    BY SeqEqual, <<open, x>> \in Seq({open, x, char, close}),
       <<open, char, close>> \in Seq({open, x, char, close}),
       Len(<<open, x>>) = 2, Len(<<open, char, close>>) = 3
  <1>4. Last(<<open, x>>) = x
    BY DEF Last
  <1>5. Data(<<open, x>>) = <<open, x>>
    BY <1>1, <1>3, <1>4 DEF Data
  <1>6. JsonParse(<<open, x>>) = Malformed
    BY <1>1, <1>2, <1>3, <1>4 DEF JsonParse
  <1> QED
    BY <1>5, <1>6 DEF open

LEMMA NoJsonYet ==
    ASSUME NEW e \in Event
    PROVE  /\ Data(<<Symbol(e, "open")>>) = <<Symbol(e, "open")>>
           /\ JsonParse(<<Symbol(e, "open")>>) = Malformed
  <1> DEFINE open == Symbol(e, "open")
  <1>1. open.of = e /\ open.part # "close" /\ open # NewLine
    BY Symbols
  <1>2. Len(Whole(e)) \in {2, 3}
    BY DEF Whole
  <1> HIDE DEF open
  <1>3. Len(<<open>>) = 1 /\ <<open>> # <<>> /\ <<open>>[1] = open /\ Last(<<open>>) = open
    BY DEF Last
  <1>4. <<open>> # Whole(e)
    BY <1>2, <1>3
  <1>5. Data(<<open>>) = <<open>>
    BY <1>1, <1>3 DEF Data
  <1>6. JsonParse(<<open>>) = Malformed
    BY <1>1, <1>3, <1>4 DEF JsonParse
  <1> QED
    BY <1>5, <1>6 DEF open

LEMMA YieldsAtEnd ==
    ASSUME NEW raw
    PROVE  /\ Data(raw) = <<>> \/ JsonParse(Data(raw)) = Malformed
                => Yields(Begin(Idle), raw).events = <<>>
           /\ Data(raw) # <<>> /\ JsonParse(Data(raw)) # Malformed
                => Yields(Begin(Idle), raw).events = <<JsonParse(Data(raw))>>
  <1>1. /\ Begin(Idle).events = <<>> /\ Begin(Idle).failed = FALSE
        /\ [Begin(Idle) EXCEPT !.failed = TRUE].events = <<>>
    BY DEF Begin
  <1>2. \A a : [Begin(Idle) EXCEPT !.events = Append(@, a)].events = <<a>>
    BY Tuples DEF Begin
  <1> QED
    BY <1>1, <1>2 DEF Yields

LEMMA Flushing ==
    ASSUME NEW e, NEW q \in Nat, q # 0 => e \in Event /\ q < Size(e)
    PROVE  \/ Flush(Partial(e, q)).events = <<>>
           \/ q # 0 /\ Flush(Partial(e, q)).events = <<e>>
  <1> DEFINE Raw(p) == p.buffer \o Replaced(p.pending)
  <1>0. \A p : Flush(p) = Yields(Begin(Idle), Raw(p))
    BY DEF Flush
  <1>1. \A S : \A b \in Seq(S) : Raw(Holding(b)) = b
    BY ConcatEmptySeq, NothingReplaced DEF Holding
  <1>2. CASE q = 0
    <2>1. Raw(Idle) = <<>>
      BY Tuples, NothingReplaced DEF Idle
    <2>2. Data(<<>>) = <<>>
      BY DEF Data
    <2>3. Partial(e, q) = Idle
      BY <1>2 DEF Partial
    <2> HIDE DEF Raw
    <2> QED
      BY <1>0, <2>1, <2>2, <2>3, YieldsAtEnd
  <1>3. CASE q = 1
    <2>1. Raw(Holding(<<Symbol(e, "open")>>)) = <<Symbol(e, "open")>>
      BY <1>1, <<Symbol(e, "open")>> \in Seq({Symbol(e, "open")})
    <2>2. Partial(e, q) = Holding(<<Symbol(e, "open")>>)
      BY <1>3 DEF Partial
    <2> HIDE DEF Raw
    <2> QED
      BY <1>0, <1>3, <2>1, <2>2, NoJsonYet, YieldsAtEnd
  <1> DEFINE S == {Symbol(e, "open"), Symbol(e, "char"), Symbol(e, "close"), NewLine}
  <1>4. Whole(e) \in Seq(S) /\ Append(Whole(e), NewLine) \in Seq(S)
    <2>1. Whole(e) \in Seq(S)
      <3>1. CASE e.type = "text_delta"
        BY <3>1 DEF Whole
      <3>2. CASE e.type # "text_delta"
        BY <3>2 DEF Whole
      <3> QED
        BY <3>1, <3>2
    <2>2. NewLine \in S
      OBVIOUS
    <2> HIDE DEF S
    <2> QED
      BY <2>1, <2>2, AppendProperties
  <1>5. CASE q # 0 /\ q # 1 /\ (q = Size(e) - 2 \/ q = Size(e) - 1)
    <2>1. Partial(e, q) = Holding(Whole(e)) \/ Partial(e, q) = Holding(Append(Whole(e), NewLine))
      BY <1>5 DEF Partial
    <2>2. Raw(Partial(e, q)) = Whole(e) \/ Raw(Partial(e, q)) = Append(Whole(e), NewLine)
      <3> HIDE DEF Raw, S
      <3> QED
        BY <1>1, <1>4, <2>1
    <2>3. Data(Raw(Partial(e, q))) = Whole(e)
      <3> HIDE DEF Raw
      <3> QED
        BY <1>5, <2>2, WholeData
    <2> HIDE DEF Raw
    <2> QED
      BY <1>0, <1>5, <2>3, WholeData, EventsAreTyped, YieldsAtEnd
  <1>6. CASE q # 0 /\ q # 1 /\ q # Size(e) - 2 /\ q # Size(e) - 1
    <2>1. e \in Event /\ q < Size(e)
      BY <1>6
    <2>2. e.type = "text_delta"
      <3> SUFFICES ASSUME e.type # "text_delta" PROVE FALSE
        OBVIOUS
      <3>1. Size(e) = 4
        BY DEF Size
      <3> QED
        BY <1>6, <2>1, <3>1
    <2> DEFINE open == Symbol(e, "open")
    <2>3. CASE q = 2
      <3> PICK lead : lead = Symbol(e, "lead")
        OBVIOUS
      <3>1. Partial(e, q) = [pending |-> <<lead>>, buffer |-> <<open>>]
        BY <1>6, <2>3 DEF Partial
      <3>2. Replaced(<<lead>>) = <<Symbol(e, "replaced")>>
        <4>1. Replaced(<<lead>>) = [i \in 1..1 |-> Symbol(<<lead>>[i].of, "replaced")]
          BY DEF Replaced
        <4>2. \A i \in 1..1 : Symbol(<<lead>>[i].of, "replaced") = Symbol(e, "replaced")
          BY Symbols
        <4> QED
          BY <4>1, <4>2
      <3>3. Raw(Partial(e, q)) = <<open, Symbol(e, "replaced")>>
        <4>1. Raw(Partial(e, q)) = <<open>> \o <<Symbol(e, "replaced")>>
          BY <3>1, <3>2
        <4> QED
          BY <4>1, Tuples
      <3> HIDE DEF Raw
      <3> QED
        BY <1>0, <2>1, <2>2, <3>3, NoJson, YieldsAtEnd
    <2>4. CASE q # 2
      <3>1. Partial(e, q) = Holding(<<open, Symbol(e, "char")>>)
        BY <1>6, <2>4 DEF Partial
      <3>2. Raw(Partial(e, q)) = <<open, Symbol(e, "char")>>
        BY <1>1, <3>1, <<open, Symbol(e, "char")>> \in Seq({open, Symbol(e, "char")})
      <3> HIDE DEF Raw
      <3> QED
        BY <1>0, <2>1, <2>2, <3>2, NoJson, YieldsAtEnd
    <2> QED
      BY <2>3, <2>4
  <1> QED
    BY <1>2, <1>3, <1>5, <1>6

\* At the end of the body, wherever it comes, Chat is given at most the one event
\* whose last bytes did not come, and that undamaged.
LEMMA FramedEnds ==
    ASSUME NEW es \in Seq(Event), NEW w \in Seq(Bytes), NEW m \in 0..Len(es), NEW p,
           Framed(p, m, es, w)
    PROVE  \E m2 \in m..Len(es) : Flush(p).events = SubSeq(es, m + 1, m2)
  <1>1. PICK h, q : Path(h, q, es, w) /\ h[0] = m /\ p = Partial(es[m + 1], q[0])
    BY DEF Framed
  <1>2. 0 \in 0..Len(w) /\ Len(es) \in Nat
    OBVIOUS
  <1>3. q[0] \in Nat /\ (q[0] # 0 => m < Len(es) /\ q[0] < Size(es[m + 1]))
    <2>1. \A k \in 0..Len(w) : q[k] = 0 \/ (h[k] < Len(es) /\ q[k] < Size(es[h[k] + 1]))
      BY Zenon, <1>1 DEF Path
    <2> QED
      BY <1>1, <1>2, <2>1, PathTypes
  <1>4. CASE Flush(p).events = <<>>
    <2>1. SubSeq(es, m + 1, m) = <<>>
      BY SubSeqEmpty
    <2> QED
      BY <1>4, <2>1
  <1>5. CASE Flush(p).events # <<>>
    <2> PICK e : e = es[m + 1]
      OBVIOUS
    <2>1. q[0] # 0 => e \in Event /\ q[0] < Size(e)
      BY <1>3
    <2>2. q[0] # 0 /\ Flush(p).events = <<e>>
      BY <1>1, <1>3, <1>5, <2>1, Flushing
    <2>3. m + 1 \in 1..Len(es) /\ m + 1 \in m..Len(es)
      BY <1>3, <2>2
    <2>4. SubSeq(es, m + 1, m + 1) = <<e>>
      <3>1. SubSeq(es, m + 1, m + 1) = SubSeq(es, m + 1, (m + 1) - 1) \o <<es[m + 1]>>
        BY <2>3, SubSeqRecursiveSecond
      <3>2. SubSeq(es, m + 1, (m + 1) - 1) = <<>>
        BY SubSeqEmpty
      <3>3. <<>> \o <<e>> = <<e>>
        BY <<e>> \in Seq({e}), ConcatEmptySeq
      <3> QED
        BY <3>1, <3>2, <3>3
    <2> QED
      BY <2>2, <2>3, <2>4
  <1> QED
    BY <1>4, <1>5

-----------------------------------------------------------------------------
(* The streams of all turns.                                               *)

Accepted(t) == reply[t] \in {"answering", "stored", "closed"}

\* A turn that was not sent has left nothing, one that is over holds nothing,
\* and the server answers only what a tenant may ask.
Sent(t) ==
    /\ fetch[t] = "unsent" => reply[t] = "none" /\ emitted[t] = <<>> /\ handled[t] = <<>>
    /\ fetch[t] # "open" => wire[t] = <<>> /\ parser[t] = Idle
    /\ fetch[t] # "unsent" => posted[t].conv # NoConv
    /\ Accepted(t) => Allowed(posted[t].tenant, posted[t].conv)
    /\ ~Accepted(t) => emitted[t] = <<>>
    /\ t \in mine => fetch[t] = "open"

\* What a server writes in one stream: nothing after an error, and nothing but an
\* error after a done that comes after text.
Script(es) ==
    /\ \A k \in 1..(Len(es) - 1) : es[k] # Error
    /\ \A i, j, k \in 1..Len(es) :
          /\ i < j /\ j < k
          /\ es[i].type = "text_delta" /\ es[j] = Done
          => es[k] = Error

\* What Chat was given is the start of what was written, and the parser and the
\* bytes to be read go on from there.
Streamed(t) ==
    /\ Script(emitted[t])
    /\ \E n \in 0..Len(emitted[t]) :
          /\ handled[t] = SubSeq(emitted[t], 1, n)
          /\ fetch[t] = "open" => Framed(parser[t], n, emitted[t], wire[t])

Streams ==
    /\ emitted \in [Turns -> Seq(Event)] /\ handled \in [Turns -> Seq(Event)]
    /\ wire \in [Turns -> Seq(Bytes)] /\ DOMAIN parser = Turns
    /\ reply \in [Turns -> {"none", "asked", "refused", "answering", "stored", "closed"}]
    /\ \A t \in Turns : Sent(t) /\ Streamed(t)

StreamTypes ==
    /\ emitted \in [Turns -> Seq(Event)] /\ handled \in [Turns -> Seq(Event)]
    /\ wire \in [Turns -> Seq(Bytes)] /\ DOMAIN parser = Turns
    /\ reply \in [Turns -> {"none", "asked", "refused", "answering", "stored", "closed"}]

\* Nothing written, and one event more, keep to the order.
LEMMA ScriptStarts == Script(<<>>)
  BY DEF Script

LEMMA ScriptGoesOn ==
    ASSUME NEW es \in Seq(Event), NEW e \in Event, Script(es), MayFollow(es, e)
    PROVE  Script(Append(es, e))
  <1> PICK es2 : es2 = Append(es, e)
    OBVIOUS
  <1>1. /\ Len(es2) = Len(es) + 1 /\ Len(es) \in Nat
        /\ \A k \in 1..Len(es) : es2[k] = es[k]
        /\ es2[Len(es) + 1] = e
    BY AppendProperties
  <1>2. \A k \in 1..(Len(es2) - 1) : es2[k] # Error
    BY <1>1 DEF MayFollow
  <1>3. ASSUME NEW i \in 1..Len(es2), NEW j \in 1..Len(es2), NEW k \in 1..Len(es2),
               i < j, j < k, es2[i].type = "text_delta", es2[j] = Done
        PROVE  es2[k] = Error
    <2>1. i \in 1..Len(es) /\ j \in 1..Len(es) /\ es[i] = es2[i] /\ es[j] = es2[j]
      BY <1>1, <1>3
    <2>2. CASE k \in 1..Len(es)
      BY <1>1, <1>3, <2>1, <2>2 DEF Script
    <2>3. CASE k = Len(es) + 1
      <3>1. Concluded(es)
        BY <1>3, <2>1 DEF Concluded
      <3> QED
        BY <1>1, <2>3, <3>1 DEF MayFollow
    <2> QED
      BY <1>1, <2>2, <2>3
  <1>4. Script(es2)
    BY <1>2, <1>3 DEF Script
  <1> QED
    BY <1>4

LEMMA TurnStays ==
    ASSUME NEW t \in Turns, Sent(t), Streamed(t), t \in mine' => t \in mine,
           fetch'[t] = fetch[t], reply'[t] = reply[t], posted'[t] = posted[t],
           emitted'[t] = emitted[t], handled'[t] = handled[t],
           wire'[t] = wire[t], parser'[t] = parser[t]
    PROVE  Sent(t)' /\ Streamed(t)'
  <1>1. Sent(t)'
    BY DEF Sent, Accepted, Allowed
  <1>2. Streamed(t)'
    BY DEF Streamed
  <1> QED
    BY <1>1, <1>2

LEMMA InitStreams == Init => Streams
  <1> SUFFICES ASSUME Init PROVE Streams
    OBVIOUS
  <1>1. /\ emitted = [t \in Turns |-> <<>>] /\ handled = [t \in Turns |-> <<>>]
        /\ wire = [t \in Turns |-> <<>>] /\ parser = [t \in Turns |-> Idle]
        /\ reply = [t \in Turns |-> "none"] /\ fetch = [t \in Turns |-> "unsent"]
        /\ mine = {}
    BY DEF Init
  <1>2. StreamTypes
    BY <1>1 DEF StreamTypes
  <1>3. ASSUME NEW t \in Turns PROVE Sent(t)
    BY <1>1 DEF Sent, Accepted
  <1>4. ASSUME NEW t \in Turns PROVE Streamed(t)
    <2>1. emitted[t] = <<>> /\ handled[t] = <<>> /\ fetch[t] # "open"
      BY <1>1
    <2>2. SubSeq(<<>>, 1, 0) = <<>> /\ Len(<<>>) = 0 /\ 0 \in 0..0
      BY SubSeqEmpty
    <2> QED
      BY <2>1, <2>2, ScriptStarts DEF Streamed
  <1> QED
    BY <1>2, <1>3, <1>4 DEF Streams, StreamTypes

\* Another selection ends the stream that ran, and what it wrote is not shown.
LEMMA SelectingStreams ==
    ASSUME IInv, Streams, NEW c, SetSelectedId(c), UNCHANGED <<posted, reply>>
    PROVE  Streams'
  <1>1. CASE c = selectedId
    <2>1. UNCHANGED <<mine, fetch, parser, wire, emitted, handled>>
      BY <1>1 DEF SetSelectedId, chat, stream, log
    <2> QED
      BY <2>1, TurnStays DEF Streams
  <1>2. CASE c # selectedId
    <2>1. /\ emitted' = [t \in Turns |-> <<>>] /\ handled' = [t \in Turns |-> <<>>] /\ mine' = {}
          /\ Cleanup
      BY <1>2 DEF SetSelectedId, Mount
    <2>2. \A t \in Turns : fetch[t] = "open" => abortRef = t
      BY DEF IInv, Running
    <2>3. abortRef # 0 => abortRef \in Turns /\ fetch[abortRef] = "open"
      BY DEF IInv, OneStream, Streams, Sent
    <2>4. \A t \in Turns : t # 0
      BY DEF Turns
    <2>5. fetch \in [Turns -> {"unsent", "open", "over"}]
      BY DEF IInv
    <2>6. /\ wire' \in [Turns -> Seq(Bytes)] /\ DOMAIN parser' = Turns
          /\ \A t \in Turns : /\ wire'[t] = <<>> /\ parser'[t] = Idle /\ fetch'[t] # "open"
                              /\ fetch'[t] = "unsent" => fetch[t] = "unsent"
                              /\ fetch'[t] # "unsent" => fetch[t] # "unsent"
      <3>1. CASE abortRef = 0
        <4>1. UNCHANGED <<fetch, parser, wire>>
          BY <2>1, <3>1 DEF Cleanup, stream
        <4>2. \A t \in Turns : fetch[t] # "open"
          BY <2>2, <2>4, <3>1
        <4> QED
          BY <4>1, <4>2 DEF Streams, Sent
      <3>2. CASE abortRef # 0
        <4>1. /\ fetch' = [fetch EXCEPT ![abortRef] = "over"]
              /\ parser' = [parser EXCEPT ![abortRef] = Idle]
              /\ wire' = [wire EXCEPT ![abortRef] = <<>>]
          BY <2>1, <3>2 DEF Cleanup, EndFetch
        <4>2. DOMAIN parser = Turns /\ wire \in [Turns -> Seq(Bytes)]
          BY DEF Streams
        <4>3. wire' \in [Turns -> Seq(Bytes)] /\ DOMAIN parser' = Turns
          <5>1. <<>> \in Seq(Bytes)
            OBVIOUS
          <5>2. wire' \in [Turns -> Seq(Bytes)]
            BY <4>1, <4>2, <5>1
          <5> QED
            BY <4>1, <4>2, <5>2
        <4>4. ASSUME NEW t \in Turns
              PROVE  /\ wire'[t] = <<>> /\ parser'[t] = Idle /\ fetch'[t] # "open"
                     /\ fetch'[t] = "unsent" => fetch[t] = "unsent"
                     /\ fetch'[t] # "unsent" => fetch[t] # "unsent"
          <5>1. CASE t = abortRef
            BY <2>3, <2>5, <3>2, <4>1, <4>2, <5>1
          <5>2. CASE t # abortRef
            <6>1. wire'[t] = wire[t] /\ parser'[t] = parser[t] /\ fetch'[t] = fetch[t]
              BY <2>5, <4>1, <4>2, <5>2
            <6>2. fetch[t] # "open"
              BY <2>2, <5>2
            <6> QED
              BY <6>1, <6>2 DEF Streams, Sent
          <5> QED
            BY <5>1, <5>2
        <4> QED
          BY <4>3, <4>4
      <3> QED
        BY <3>1, <3>2
    <2>7. StreamTypes'
      BY <2>1, <2>6 DEF Streams, StreamTypes
    <2>8. ASSUME NEW t \in Turns PROVE Sent(t)' /\ Streamed(t)'
      <3>1. emitted'[t] = <<>> /\ handled'[t] = <<>>
        BY <2>1
      <3>2. Sent(t)'
        <4>1. Sent(t)
          BY DEF Streams
        <4> QED
          BY <2>1, <2>6, <3>1, <4>1 DEF Sent, Accepted, Allowed
      <3>3. Streamed(t)'
        <4>1. SubSeq(<<>>, 1, 0) = <<>> /\ Len(<<>>) = 0 /\ 0 \in 0..0
          BY SubSeqEmpty
        <4> QED
          BY <2>6, <3>1, <4>1, ScriptStarts DEF Streamed
      <3> QED
        BY <3>2, <3>3
    <2> QED
      BY <2>7, <2>8 DEF Streams, StreamTypes
  <1> QED
    BY <1>1, <1>2

LEMMA SendingStreams ==
    ASSUME IInv, Streams, NEW t \in Turns, HandleSend(t)
    PROVE  Streams'
  <1>1. /\ fetch[t] = "unsent" /\ selectedId # NoConv
        /\ posted' = [posted EXCEPT ![t] = [tenant |-> tenantId, conv |-> selectedId]]
        /\ fetch' = [fetch EXCEPT ![t] = "open"]
        /\ reply' = [reply EXCEPT ![t] = "asked"]
        /\ mine' = mine \cup {t}
        /\ UNCHANGED <<parser, wire, emitted, handled>>
    BY DEF HandleSend, MaySend, log
  <1>2. fetch \in [Turns -> {"unsent", "open", "over"}]
        /\ posted \in [Turns -> [tenant : TenantIds, conv : Convs \cup {NoConv}]]
    BY DEF IInv
  <1>3. StreamTypes'
    BY <1>1 DEF Streams, StreamTypes
  <1>4. ASSUME NEW u \in Turns PROVE Sent(u)' /\ Streamed(u)'
    <2>1. Sent(u) /\ Streamed(u)
      BY DEF Streams
    <2>2. CASE u # t
      <3>1. /\ fetch'[u] = fetch[u] /\ reply'[u] = reply[u] /\ posted'[u] = posted[u]
            /\ u \in mine' => u \in mine
        BY <1>1, <1>2, <2>2 DEF Streams
      <3> QED
        BY <1>1, <2>1, <3>1, TurnStays
    <2>3. CASE u = t
      <3>1. /\ fetch'[t] = "open" /\ reply'[t] = "asked" /\ posted'[t].conv = selectedId
        BY <1>1, <1>2 DEF Streams
      <3>2. /\ emitted'[t] = <<>> /\ handled'[t] = <<>>
            /\ wire'[t] = <<>> /\ parser'[t] = Idle
        BY <1>1, <2>1, <2>3 DEF Sent
      <3>3. Sent(t)'
        BY <1>1, <3>1, <3>2 DEF Sent, Accepted
      <3>4. Streamed(t)'
        <4>1. SubSeq(<<>>, 1, 0) = <<>> /\ Len(<<>>) = 0 /\ 0 \in 0..0
          BY SubSeqEmpty
        <4> QED
          BY <3>2, <4>1, FramedStarts, ScriptStarts DEF Streamed
      <3> QED
        BY <2>3, <3>3, <3>4
    <2> QED
      BY <2>2, <2>3
  <1> QED
    BY <1>3, <1>4 DEF Streams, StreamTypes

\* The server accepts, refuses or ends.
LEMMA ServingStreams ==
    ASSUME IInv, Streams, NEW t \in Turns, Serve(t)
    PROVE  Streams'
  <1>1. UNCHANGED <<fetch, posted, mine, parser, wire, emitted, handled>>
    BY DEF Serve, Accept, Refuse, Close, chat, stream, log
  <1>2. \/ /\ reply[t] = "asked" /\ Allowed(posted[t].tenant, posted[t].conv)
           /\ reply' = [reply EXCEPT ![t] = "answering"]
        \/ reply[t] = "asked" /\ reply' = [reply EXCEPT ![t] = "refused"]
        \/ /\ reply[t] = "answering"
           /\ \E end \in {"stored", "closed"} : reply' = [reply EXCEPT ![t] = end]
    BY DEF Serve, Accept, Refuse, Close
  <1>3. StreamTypes'
    BY <1>1, <1>2 DEF Streams, StreamTypes
  <1>4. ASSUME NEW u \in Turns PROVE Sent(u)' /\ Streamed(u)'
    <2>1. Sent(u) /\ Streamed(u)
      BY DEF Streams
    <2>2. CASE u # t
      <3>1. reply'[u] = reply[u]
        BY <1>2, <2>2 DEF Streams
      <3> QED
        BY <1>1, <2>1, <3>1, TurnStays
    <2>3. CASE u = t
      <3>1. Sent(t)'
        <4>1. /\ reply[t] \in {"asked", "answering"}
              /\ reply'[t] \in {"answering", "refused", "stored", "closed"}
              /\ reply[t] = "asked" => Allowed(posted[t].tenant, posted[t].conv) \/ reply'[t] = "refused"
              /\ reply[t] = "answering" => reply'[t] \in {"stored", "closed"}
          BY <1>2 DEF Streams
        <4> QED
          BY <1>1, <2>1, <2>3, <4>1 DEF Sent, Accepted, Allowed
      <3>2. Streamed(t)'
        BY <1>1, <2>1, <2>3 DEF Streamed
      <3> QED
        BY <2>3, <3>1, <3>2
    <2> QED
      BY <2>2, <2>3
  <1> QED
    BY <1>3, <1>4 DEF Streams, StreamTypes

LEMMA EventsAre ==
    ASSUME NEW t \in Turns, Streams
    PROVE  {Text(NextPiece(t)), Done, Error} \subseteq Event
  <1>1. NextPiece(t) \in Pieces
    BY DEF NextPiece, Pieces, Streams
  <1> QED
    BY <1>1 DEF Text, Event

\* The server writes an event more.
LEMMA EmittingStreams ==
    ASSUME IInv, Streams, NEW t \in Turns, NEW e \in {Text(NextPiece(t)), Done, Error}, Emit(t, e)
    PROVE  Streams'
  <1>1. /\ reply[t] = "answering" /\ fetch[t] = "open" /\ MayFollow(emitted[t], e)
        /\ emitted' = [emitted EXCEPT ![t] = Append(@, e)]
        /\ wire' = [wire EXCEPT ![t] = @ \o FormatSse(e)]
        /\ UNCHANGED <<fetch, posted, mine, parser, handled, reply>>
    BY DEF Emit, chat, server
  <1>2. e \in Event /\ emitted[t] \in Seq(Event) /\ wire[t] \in Seq(Bytes)
        /\ FormatSse(e) \in Seq(Bytes)
    BY EventsAre, RecordsAreBytes DEF Streams
  <1> PICK es : es = emitted[t]
    OBVIOUS
  <1> PICK w : w = wire[t]
    OBVIOUS
  <1>3. Append(es, e) \in Seq(Event) /\ w \o FormatSse(e) \in Seq(Bytes)
    BY <1>2, AppendProperties, ConcatProperties
  <1>4. /\ emitted'[t] = Append(es, e) /\ wire'[t] = w \o FormatSse(e)
        /\ \A u \in Turns : u # t => emitted'[u] = emitted[u] /\ wire'[u] = wire[u]
    BY <1>1 DEF Streams
  <1>5. StreamTypes'
    <2>1. emitted' \in [Turns -> Seq(Event)]
      BY <1>1, <1>3 DEF Streams
    <2>2. wire' \in [Turns -> Seq(Bytes)]
      BY <1>1, <1>3 DEF Streams
    <2> QED
      BY <1>1, <2>1, <2>2 DEF Streams, StreamTypes
  <1>6. ASSUME NEW u \in Turns PROVE Sent(u)' /\ Streamed(u)'
    <2>1. Sent(u) /\ Streamed(u)
      BY DEF Streams
    <2>2. CASE u # t
      BY <1>1, <1>4, <2>1, <2>2, TurnStays
    <2>3. CASE u = t
      <3>1. Sent(t)'
        BY <1>1, <2>1, <2>3 DEF Sent, Accepted, Allowed
      <3>2. /\ Len(Append(es, e)) = Len(es) + 1 /\ Len(es) \in Nat
            /\ \A k \in 1..Len(es) : Append(es, e)[k] = es[k]
        BY <1>2, AppendProperties
      <3>3. Script(Append(es, e))
        <4>1. Script(es) /\ es \in Seq(Event) /\ e \in Event /\ MayFollow(es, e)
          BY <1>1, <1>2, <2>1, <2>3 DEF Streamed
        <4> QED
          BY <4>1, ScriptGoesOn
      <3>4. PICK n \in 0..Len(es) : handled[t] = SubSeq(es, 1, n) /\ Framed(parser[t], n, es, w)
        BY <1>1, <2>1, <2>3 DEF Streamed
      <3>5. Framed(parser[t], n, Append(es, e), w \o FormatSse(e))
        BY <1>2, <3>4, FramedGrows
      <3>6. n \in 0..Len(Append(es, e)) /\ SubSeq(Append(es, e), 1, n) = SubSeq(es, 1, n)
        <4>1. CASE n = 0
          BY <3>2, <3>4, <4>1, SubSeqEmpty
        <4>2. CASE n # 0
          <5>1. Append(es, e) = es \o <<e>> /\ <<e>> \in Seq(Event)
            <6>1. es \in Seq(Event) /\ e \in Event
              BY <1>2
            <6>2. <<e>> \in Seq(Event)
              BY <6>1
            <6> QED
              BY <6>1, <6>2, AppendIsConcat
          <5>2. 1 \in 1..Len(es) /\ n \in 1..Len(es)
            BY <3>2, <3>4, <4>2
          <5>3. SubSeq(es \o <<e>>, 1, n) = SubSeq(es, 1, n)
            BY <1>2, <5>1, <5>2, SubSeqOfConcat1
          <5> QED
            BY <3>2, <3>4, <5>1, <5>3
        <4> QED
          BY <4>1, <4>2
      <3>7. Streamed(t)'
        <4> PICK es2 : es2 = Append(es, e)
          OBVIOUS
        <4>1. emitted'[t] = es2 /\ parser'[t] = parser[t] /\ handled'[t] = handled[t]
          BY <1>1, <1>4
        <4>2. Script(es2)
          BY <3>3
        <4>3. handled[t] = SubSeq(es2, 1, n) /\ n \in 0..Len(es2)
          BY <3>4, <3>6
        <4> QED
          BY <1>4, <3>5, <4>1, <4>2, <4>3 DEF Streamed
      <3> QED
        BY <2>3, <3>1, <3>7
    <2> QED
      BY <2>2, <2>3
  <1> QED
    BY <1>5, <1>6 DEF Streams, StreamTypes

\* More of the stream is given to Chat.
LEMMA MoreIsGiven ==
    ASSUME NEW es \in Seq(Event), NEW n \in 0..Len(es), NEW m \in n..Len(es)
    PROVE  /\ SubSeq(es, 1, n) \o SubSeq(es, n + 1, m) = SubSeq(es, 1, m)
           /\ SubSeq(es, n + 1, m) \in Seq(Event)
  <1>1. Len(es) \in Nat /\ \A i \in 1..Len(es) : es[i] \in Event
    OBVIOUS
  <1>2. 1 \in 1..(Len(es) + 1) /\ n \in (1 - 1)..Len(es) /\ m \in n..Len(es)
    BY <1>1
  <1>3. SubSeq(es, 1, n) \o SubSeq(es, n + 1, m) = SubSeq(es, 1, m)
    BY <1>2, ConcatAdjacentSubSeq
  <1>4. \A i \in (n + 1)..m : es[i] \in Event
    BY <1>1
  <1>5. n + 1 \in Int /\ m \in Int
    BY <1>1
  <1> QED
    BY <1>3, <1>4, <1>5, SubSeqProperties

\* A stream that ends: what it gave last was sent, and it holds nothing more.
LEMMA EndingStreams ==
    ASSUME IInv, Streams, NEW t \in Turns, fetch[t] = "open", NEW events, NEW failed,
           Take(t, events, failed), Finally(t),
           NEW n \in 0..Len(emitted[t]), handled[t] = SubSeq(emitted[t], 1, n),
           NEW m \in n..Len(emitted[t]), events = SubSeq(emitted[t], n + 1, m)
    PROVE  Streams'
  <1>1. /\ handled' = [handled EXCEPT ![t] = @ \o events]
        /\ fetch' = [fetch EXCEPT ![t] = "over"]
        /\ parser' = [parser EXCEPT ![t] = Idle]
        /\ wire' = [wire EXCEPT ![t] = <<>>]
        /\ mine' = mine \ {t}
        /\ UNCHANGED <<posted, emitted, reply>>
    BY DEF Take, Finally, EndFetch, server
  <1>2. fetch \in [Turns -> {"unsent", "open", "over"}] /\ emitted[t] \in Seq(Event)
    BY DEF IInv, Streams
  <1> PICK es : es = emitted[t]
    OBVIOUS
  <1>3. SubSeq(es, 1, n) \o events = SubSeq(es, 1, m) /\ events \in Seq(Event)
    BY <1>2, MoreIsGiven
  <1>4. StreamTypes'
    <2>1. handled[t] \o events \in Seq(Event)
      BY <1>3, ConcatProperties DEF Streams
    <2>2. handled' \in [Turns -> Seq(Event)]
      BY <1>1, <2>1 DEF Streams
    <2>3. <<>> \in Seq(Bytes)
      OBVIOUS
    <2>4. wire' \in [Turns -> Seq(Bytes)]
      BY <1>1, <2>3 DEF Streams
    <2> QED
      BY <1>1, <2>2, <2>4 DEF Streams, StreamTypes
  <1>5. ASSUME NEW u \in Turns PROVE Sent(u)' /\ Streamed(u)'
    <2>1. Sent(u) /\ Streamed(u)
      BY DEF Streams
    <2>2. CASE u # t
      <3>1. /\ fetch'[u] = fetch[u] /\ handled'[u] = handled[u]
            /\ wire'[u] = wire[u] /\ parser'[u] = parser[u]
        BY <1>1, <1>2, <2>2 DEF Streams
      <3>2. u \in mine' => u \in mine
        BY <1>1
      <3> QED
        BY <1>1, <2>1, <3>1, <3>2, TurnStays
    <2>3. CASE u = t
      <3>1. /\ fetch'[t] = "over" /\ wire'[t] = <<>> /\ parser'[t] = Idle /\ t \notin mine'
            /\ handled'[t] = SubSeq(es, 1, m)
        BY <1>1, <1>2, <1>3 DEF Streams
      <3>2. Sent(t)'
        BY <1>1, <2>1, <2>3, <3>1 DEF Sent, Accepted, Allowed
      <3>3. Streamed(t)'
        <4>1. m \in 0..Len(es)
          BY <1>2
        <4>2. Script(es)
          BY <2>1, <2>3 DEF Streamed
        <4>3. emitted'[t] = es
          BY <1>1
        <4> QED
          BY <3>1, <4>1, <4>2, <4>3 DEF Streamed
      <3> QED
        BY <2>3, <3>2, <3>3
    <2> QED
      BY <2>2, <2>3
  <1> QED
    BY <1>4, <1>5 DEF Streams, StreamTypes

\* A read of n bytes takes what Chat is given from m1 events to m2 events.
ReadsOn(t, n, m1, m2, p2) ==
    /\ handled[t] = SubSeq(emitted[t], 1, m1)
    /\ Feed(parser[t], SubSeq(wire[t], 1, n)) = During(p2, SubSeq(emitted[t], m1 + 1, m2))
    /\ Framed([pending |-> p2.pending, buffer |-> p2.buffer], m2, emitted[t],
              SubSeq(wire[t], n + 1, Len(wire[t])))

\* What a read gives: the next events that were written, never an exception.
LEMMA ReadGives ==
    ASSUME IInv, Streams, NEW t \in Turns, NEW n \in 1..Len(wire[t]), fetch[t] = "open"
    PROVE  \E m1 \in 0..Len(emitted[t]) : \E m2 \in m1..Len(emitted[t]) : \E p2 :
             ReadsOn(t, n, m1, m2, p2)
  <1> PICK es : es = emitted[t]
    OBVIOUS
  <1> PICK w : w = wire[t]
    OBVIOUS
  <1> PICK p : p = parser[t]
    OBVIOUS
  <1>1. es \in Seq(Event) /\ w \in Seq(Bytes)
    BY DEF Streams
  <1>2. PICK m1 \in 0..Len(es) : handled[t] = SubSeq(es, 1, m1) /\ Framed(p, m1, es, w)
    BY DEF Streams, Streamed
  <1>3. n \in 1..Len(w)
    OBVIOUS
  <1>4. PICK m2 \in m1..Len(es) : \E p2 :
           /\ Feed(p, SubSeq(w, 1, n)) = During(p2, SubSeq(es, m1 + 1, m2))
           /\ Framed([pending |-> p2.pending, buffer |-> p2.buffer], m2, es,
                     SubSeq(w, n + 1, Len(w)))
    BY ZenonT(60), <1>1, <1>2, <1>3, FramedReads
  <1>5. PICK p2 : /\ Feed(p, SubSeq(w, 1, n)) = During(p2, SubSeq(es, m1 + 1, m2))
                  /\ Framed([pending |-> p2.pending, buffer |-> p2.buffer], m2, es,
                            SubSeq(w, n + 1, Len(w)))
    BY <1>4
  <1>6. ReadsOn(t, n, m1, m2, p2)
    BY <1>2, <1>5 DEF ReadsOn
  <1> QED
    BY <1>6

LEMMA ReadingStreams ==
    ASSUME IInv, Streams, NEW t \in Turns, NEW n \in 1..Len(wire[t]), Read(t, n)
    PROVE  Streams'
  <1>1. fetch[t] = "open"
    BY DEF Read
  <1>2. PICK m1 \in 0..Len(emitted[t]) : \E m2 \in m1..Len(emitted[t]) : \E p2 :
             ReadsOn(t, n, m1, m2, p2)
    BY <1>1, ReadGives
  <1>a. PICK m2 \in m1..Len(emitted[t]) : \E p2 : ReadsOn(t, n, m1, m2, p2)
    BY <1>2
  <1>b. PICK p2 : ReadsOn(t, n, m1, m2, p2)
    BY <1>a
  <1>3. /\ handled[t] = SubSeq(emitted[t], 1, m1)
        /\ Feed(parser[t], SubSeq(wire[t], 1, n)) = During(p2, SubSeq(emitted[t], m1 + 1, m2))
        /\ Framed([pending |-> p2.pending, buffer |-> p2.buffer], m2, emitted[t],
                  SubSeq(wire[t], n + 1, Len(wire[t])))
    BY <1>b DEF ReadsOn
  <1> PICK es : es = emitted[t]
    OBVIOUS
  <1> PICK w : w = SubSeq(wire[t], n + 1, Len(wire[t]))
    OBVIOUS
  <1> PICK events : events = SubSeq(es, m1 + 1, m2)
    OBVIOUS
  <1> PICK p : p = [pending |-> p2.pending, buffer |-> p2.buffer]
    OBVIOUS
  <1>4. /\ Take(t, events, FALSE)
        /\ parser' = [parser EXCEPT ![t] = p]
        /\ wire' = [wire EXCEPT ![t] = w]
        /\ UNCHANGED <<fetch, mine, abortRef, generating>>
    <2>1. \A ev : /\ During(p2, ev).events = ev /\ During(p2, ev).failed = FALSE
                  /\ During(p2, ev).pending = p2.pending /\ During(p2, ev).buffer = p2.buffer
      BY DEF During
    <2> PICK fed : fed = Feed(parser[t], SubSeq(wire[t], 1, n))
      OBVIOUS
    <2>2. /\ fed.events = events /\ fed.failed = FALSE
          /\ [pending |-> fed.pending, buffer |-> fed.buffer] = p
      BY <1>3, <2>1
    <2>3. Take(t, fed.events, fed.failed)
      BY DEF Read
    <2>4. /\ parser' = [parser EXCEPT ![t] = [pending |-> fed.pending, buffer |-> fed.buffer]]
          /\ wire' = [wire EXCEPT ![t] = SubSeq(@, n + 1, Len(@))]
          /\ UNCHANGED <<fetch, mine, abortRef, generating>>
      BY <2>2 DEF Read
    <2>5. wire' = [wire EXCEPT ![t] = w]
      BY <2>4
    <2> QED
      BY <2>2, <2>3, <2>4, <2>5
  <1>5. /\ handled' = [handled EXCEPT ![t] = @ \o events]
        /\ UNCHANGED <<posted, emitted, reply>>
    BY <1>4 DEF Take, server
  <1>6. es \in Seq(Event) /\ wire[t] \in Seq(Bytes)
    BY DEF Streams
  <1>7. SubSeq(es, 1, m1) \o events = SubSeq(es, 1, m2) /\ events \in Seq(Event)
    BY <1>6, MoreIsGiven
  <1>8. w \in Seq(Bytes)
    <2>1. \A i \in (n + 1)..Len(wire[t]) : wire[t][i] \in Bytes
      BY <1>6
    <2>2. n + 1 \in Int /\ Len(wire[t]) \in Int
      BY <1>6
    <2> QED
      BY <2>1, <2>2, SubSeqProperties
  <1>9. StreamTypes'
    <2>1. handled[t] \o events \in Seq(Event)
      BY <1>7, ConcatProperties DEF Streams
    <2>2. handled' \in [Turns -> Seq(Event)]
      BY <1>5, <2>1 DEF Streams
    <2>3. wire' \in [Turns -> Seq(Bytes)]
      BY <1>4, <1>8 DEF Streams
    <2> QED
      BY <1>4, <1>5, <2>2, <2>3 DEF Streams, StreamTypes
  <1>10. ASSUME NEW u \in Turns PROVE Sent(u)' /\ Streamed(u)'
    <2>1. Sent(u) /\ Streamed(u)
      BY DEF Streams
    <2>2. CASE u # t
      <3>1. /\ handled'[u] = handled[u] /\ wire'[u] = wire[u] /\ parser'[u] = parser[u]
        BY <1>4, <1>5, <2>2 DEF Streams
      <3> QED
        BY <1>4, <1>5, <2>1, <3>1, TurnStays
    <2>3. CASE u = t
      <3>1. /\ wire'[t] = w /\ parser'[t] = p /\ handled'[t] = SubSeq(es, 1, m2)
            /\ emitted'[t] = es
        BY <1>3, <1>4, <1>5, <1>7 DEF Streams
      <3>2. Sent(t)'
        BY <1>1, <1>4, <1>5, <2>1, <2>3 DEF Sent, Accepted, Allowed
      <3>3. Streamed(t)'
        <4>1. m2 \in 0..Len(es)
          BY <1>6
        <4>2. Script(es)
          BY <2>1, <2>3 DEF Streamed
        <4>3. Framed(p, m2, es, w)
          BY <1>3
        <4> QED
          BY <3>1, <4>1, <4>2, <4>3 DEF Streamed
      <3> QED
        BY <2>3, <3>2, <3>3
    <2> QED
      BY <2>2, <2>3
  <1> QED
    BY <1>9, <1>10 DEF Streams, StreamTypes

LEMMA StoppingStreams ==
    ASSUME IInv, Streams, NEW t \in Turns, ReadDone(t) \/ ReadFails(t)
    PROVE  Streams'
  <1>a. PICK es : es = emitted[t]
    OBVIOUS
  <1>b. PICK p : p = parser[t]
    OBVIOUS
  <1>c. PICK w : w = wire[t]
    OBVIOUS
  <1>1. fetch[t] = "open"
    BY DEF ReadDone, ReadFails
  <1>2. es \in Seq(Event) /\ w \in Seq(Bytes)
    BY <1>a, <1>c DEF Streams
  <1>3. PICK n \in 0..Len(es) : handled[t] = SubSeq(es, 1, n) /\ Framed(p, n, es, w)
    BY <1>a, <1>b, <1>c, <1>1 DEF Streams, Streamed
  <1>4. CASE ReadDone(t)
    <2>1. PICK m \in n..Len(es) : Flush(p).events = SubSeq(es, n + 1, m)
      <3>1. es \in Seq(Event)
        BY <1>2
      <3>2. w \in Seq(Bytes)
        BY <1>2
      <3>3. Framed(p, n, es, w)
        BY <1>3
      <3> QED
        BY Zenon, <3>1, <3>2, <3>3, FramedEnds
    <2>2. Take(t, Flush(p).events, Flush(p).failed) /\ Finally(t)
      BY <1>b, <1>4 DEF ReadDone
    <2> QED
      BY <1>a, <1>1, <1>3, <2>1, <2>2, EndingStreams
  <1>5. CASE ReadFails(t)
    <2>1. Take(t, <<>>, TRUE) /\ Finally(t)
      BY <1>5 DEF ReadFails
    <2>2. n \in n..Len(es) /\ <<>> = SubSeq(es, n + 1, n)
      BY <1>2, SubSeqEmpty
    <2> QED
      BY <1>a, <1>1, <1>3, <2>1, <2>2, EndingStreams
  <1> QED
    BY <1>4, <1>5

LEMMA NextStreams == IInv /\ Streams /\ [Next]_vars => Streams'
  <1> SUFFICES ASSUME IInv, Streams, [Next]_vars PROVE Streams'
    OBVIOUS
  <1>1. CASE \E c : SetSelectedId(c) /\ UNCHANGED <<posted, reply>>
    BY <1>1, SelectingStreams
  <1>2. CASE UNCHANGED <<posted, reply, mine, fetch, parser, wire, emitted, handled>>
    BY <1>2, TurnStays DEF Streams
  <1>3. CASE User
    <2>1. ASSUME NEW t \in TenantIds, SetTenantId(t) PROVE Streams'
      BY <1>1, <2>1 DEF SetTenantId, server
    <2>2. CASE CreateConversation
      BY <1>2, <2>2 DEF CreateConversation, chat, stream, log, server
    <2>3. ASSUME NEW c \in Convs, Select(c) PROVE Streams'
      BY <1>1, <2>3 DEF Select, server
    <2>4. ASSUME NEW t \in Turns, HandleSend(t) PROVE Streams'
      BY <2>4, SendingStreams
    <2>5. CASE HandleStop
      BY <2>5, StoppingStreams DEF HandleStop, IInv, OneStream
    <2> QED
      BY <1>3, <2>1, <2>2, <2>3, <2>4, <2>5 DEF User
  <1>4. CASE Answers
    <2>1. ASSUME NEW i \in 1..Len(lists), ListAnswered(i) PROVE Streams'
      BY <1>1, <2>1 DEF ListAnswered, server
    <2>2. ASSUME NEW i \in 1..Len(lists), ListFails(i) PROVE Streams'
      BY <1>2, <2>2 DEF ListFails, chat, stream, log, server
    <2>3. ASSUME NEW i \in 1..Len(creates), CreateFails(i) PROVE Streams'
      BY <1>2, <2>3 DEF CreateFails, chat, stream, log, server
    <2>4. ASSUME NEW i \in 1..Len(creates), NEW c \in Convs, CreateAnswered(i, c) PROVE Streams'
      BY <1>1, <2>4 DEF CreateAnswered
    <2>5. CASE LoadRead
      BY <1>2, <2>5 DEF LoadRead, stream, log, server
    <2>6. CASE LoadAnswered
      BY <1>2, <2>6 DEF LoadAnswered, stream, log, server
    <2>7. CASE LoadFails
      BY <1>2, <2>7 DEF LoadFails, stream, log, server
    <2> QED
      BY <1>4, <2>1, <2>2, <2>3, <2>4, <2>5, <2>6, <2>7 DEF Answers
  <1>5. ASSUME NEW t \in Turns, Serve(t) PROVE Streams'
    BY <1>5, ServingStreams
  <1>6. ASSUME NEW t \in Turns, Receive(t) \/ ReadFails(t) PROVE Streams'
    BY <1>6, ReadingStreams, StoppingStreams DEF Receive
  <1>7. ASSUME NEW t \in Turns, NEW e \in {Text(NextPiece(t)), Done, Error}, Emit(t, e)
        PROVE  Streams'
    BY <1>7, EmittingStreams
  <1>8. CASE UNCHANGED vars
    BY <1>2, <1>8 DEF vars, chat, stream, log, server
  <1> QED
    BY <1>3, <1>4, <1>5, <1>6, <1>7, <1>8 DEF Next

\* Every stream is framed, whatever the network does to it.
THEOREM StreamsHold == Spec => [](IInv /\ Streams)
  <1>1. Init => IInv /\ Streams
    BY InitIInv, InitStreams
  <1>2. IInv /\ Streams /\ [Next]_vars => IInv' /\ Streams'
    BY NextIInv, NextStreams
  <1> QED
    BY <1>1, <1>2, PTL DEF Spec

\* Wherever the network cuts the bytes of a stream, a character of two bytes
\* among them, and wherever its body ends, what Chat is given is the start of
\* what the server wrote: nothing is lost between two events, given twice, out
\* of order or damaged (sse.ts:41-66, conversations.ts:57-63).
THEOREM SentIsGiven == Spec => []EventsAreSent
  <1>1. IInv /\ Streams => EventsAreSent
    <2> SUFFICES ASSUME Streams, NEW t \in Turns PROVE IsPrefix(handled[t], emitted[t])
      BY DEF EventsAreSent
    <2> PICK es : es = emitted[t]
      OBVIOUS
    <2>1. es \in Seq(Event)
      BY DEF Streams
    <2>2. PICK n \in 0..Len(es) : handled[t] = SubSeq(es, 1, n)
      BY DEF Streams, Streamed
    <2> PICK got : got = SubSeq(es, 1, n)
      OBVIOUS
    <2>3. \A i \in 1..n : es[i] \in Event
      BY <2>1
    <2>4. n \in Int /\ 1 \in Int
      BY <2>1
    <2>5. got \in Seq(Event) /\ Len(got) = n
      BY <2>1, <2>3, <2>4, SubSeqProperties
    <2>6. SubSeq(got, 1, Len(got)) = got
      BY <2>5, SubSeqFull
    <2> QED
      BY <2>1, <2>2, <2>5, <2>6 DEF IsPrefix
  <1> QED
    BY <1>1, StreamsHold, PTL

-----------------------------------------------------------------------------
(* The messages on the screen.                                             *)

\* Texts' recursive function exists, and takes an event more at a time.
TextsBy(texts, events, N) ==
    texts = [k \in 0..N |->
               IF k = 0 THEN <<>>
               ELSE IF events[k].type = "text_delta" THEN Append(texts[k - 1], events[k].n)
               ELSE texts[k - 1]]

LEMMA TextsExist ==
    ASSUME NEW events, NEW N \in Nat
    PROVE  \E texts : TextsBy(texts, events, N)
  <1> DEFINE Step(r, k) == IF events[k].type = "text_delta" THEN Append(r, events[k].n) ELSE r
             IsLoop(f, n) == f = [k \in 0..n |-> IF k = 0 THEN <<>> ELSE Step(f[k - 1], k)]
             S == {n \in Nat : \E f : IsLoop(f, n)}
  <1> HIDE DEF Step
  <1>1. 0 \in S
    <2> DEFINE f == [k \in 0..0 |-> <<>>]
    <2>1. IsLoop(f, 0)
      OBVIOUS
    <2> QED
      BY <2>1
  <1>2. ASSUME NEW n \in Nat, n \in S PROVE n + 1 \in S
    <2>1. PICK f : IsLoop(f, n)
      BY <1>2
    <2> DEFINE g == [k \in 0..(n + 1) |-> IF k = 0 THEN <<>> ELSE Step(f[k - 1], k)]
    <2>2. \A k \in 0..n : g[k] = f[k]
      BY <2>1
    <2>3. IsLoop(g, n + 1)
      <3>1. \A k \in 0..(n + 1) : k # 0 => k - 1 \in 0..n
        OBVIOUS
      <3>2. \A k \in 0..(n + 1) :
              (IF k = 0 THEN <<>> ELSE Step(f[k - 1], k))
              = (IF k = 0 THEN <<>> ELSE Step(g[k - 1], k))
        BY <2>2, <3>1
      <3>3. g = [k \in 0..(n + 1) |-> IF k = 0 THEN <<>> ELSE Step(f[k - 1], k)]
        OBVIOUS
      <3> HIDE DEF g
      <3> QED
        BY <3>2, <3>3
    <2> HIDE DEF g
    <2> QED
      BY <2>3
  <1> HIDE DEF S
  <1>3. N \in S
    BY <1>1, <1>2, NatSetInduction
  <1> QED
    BY <1>3 DEF S, TextsBy, Step

LEMMA TextsSteps ==
    ASSUME NEW events, Len(events) \in Nat
    PROVE  \E texts :
             /\ texts[0] = <<>>
             /\ \A k \in 0..(Len(events) - 1) :
                    texts[k + 1] = IF events[k + 1].type = "text_delta"
                                     THEN Append(texts[k], events[k + 1].n) ELSE texts[k]
             /\ Texts(events) = texts[Len(events)]
  <1> DEFINE N == Len(events)
             texts[k \in 0..N] ==
                 IF k = 0 THEN <<>>
                 ELSE IF events[k].type = "text_delta" THEN Append(texts[k - 1], events[k].n)
                 ELSE texts[k - 1]
  <1>1. Texts(events) = texts[N]
    BY DEF Texts
  <1>2. TextsBy(texts, events, N)
    <2> HIDE DEF N
    <2>1. \E f : TextsBy(f, events, N)
      BY TextsExist DEF N
    <2> QED
      BY <2>1 DEF TextsBy
  <1> HIDE DEF texts
  <1>3. texts[0] = <<>>
    BY <1>2 DEF TextsBy
  <1>4. \A k \in 0..(N - 1) :
          texts[k + 1] = IF events[k + 1].type = "text_delta"
                           THEN Append(texts[k], events[k + 1].n) ELSE texts[k]
    <2> TAKE k \in 0..(N - 1)
    <2>1. k + 1 \in 0..N /\ k + 1 # 0 /\ (k + 1) - 1 = k
      OBVIOUS
    <2> HIDE DEF N
    <2> QED
      BY <1>2, <2>1 DEF TextsBy
  <1> QED
    BY <1>1, <1>3, <1>4

LEMMA NoTexts == Texts(<<>>) = <<>>
  <1>1. Len(<<>>) = 0
    OBVIOUS
  <1>2. \E texts : texts[0] = <<>> /\ Texts(<<>>) = texts[Len(<<>>)]
    BY <1>1, TextsSteps
  <1> QED
    BY <1>1, <1>2

LEMMA TextsOfMore ==
    ASSUME NEW es \in Seq(Event), NEW e \in Event
    PROVE  Texts(Append(es, e)) = IF e.type = "text_delta" THEN Append(Texts(es), e.n)
                                                           ELSE Texts(es)
  <1>a. PICK es2 : es2 = Append(es, e)
    OBVIOUS
  <1>1. /\ Len(es) \in Nat /\ Len(es2) = Len(es) + 1 /\ es2[Len(es) + 1] = e
        /\ \A k \in 1..Len(es) : es2[k] = es[k]
    BY <1>a, AppendProperties, LenProperties
  <1>2. PICK f : /\ f[0] = <<>>
                 /\ \A k \in 0..(Len(es) - 1) :
                        f[k + 1] = IF es[k + 1].type = "text_delta"
                                     THEN Append(f[k], es[k + 1].n) ELSE f[k]
                 /\ Texts(es) = f[Len(es)]
    BY <1>1, TextsSteps
  <1>3. PICK g : /\ g[0] = <<>>
                 /\ \A k \in 0..(Len(es2) - 1) :
                        g[k + 1] = IF es2[k + 1].type = "text_delta"
                                     THEN Append(g[k], es2[k + 1].n) ELSE g[k]
                 /\ Texts(es2) = g[Len(es2)]
    <2>1. Len(es2) \in Nat
      BY <1>1
    <2> QED
      BY <2>1, TextsSteps
  <1> DEFINE S == {k \in Nat : k <= Len(es) => f[k] = g[k]}
  <1>4. 0 \in S
    BY <1>2, <1>3
  <1>5. ASSUME NEW k \in Nat, k \in S PROVE k + 1 \in S
    <2> SUFFICES ASSUME k + 1 <= Len(es) PROVE f[k + 1] = g[k + 1]
      OBVIOUS
    <2>1. k \in 0..(Len(es) - 1) /\ k \in 0..(Len(es2) - 1) /\ k + 1 \in 1..Len(es) /\ k <= Len(es)
      BY <1>1
    <2>2. f[k] = g[k] /\ es2[k + 1] = es[k + 1]
      BY <1>1, <1>5, <2>1
    <2> QED
      BY <1>2, <1>3, <2>1, <2>2
  <1>6. f[Len(es)] = g[Len(es)]
    <2>1. Len(es) \in S
      <3> HIDE DEF S
      <3> QED
        BY <1>1, <1>4, <1>5, NatSetInduction
    <2> QED
      BY <2>1
  <1>7. g[Len(es) + 1] = IF e.type = "text_delta" THEN Append(g[Len(es)], e.n) ELSE g[Len(es)]
    <2>1. Len(es) \in 0..(Len(es2) - 1)
      BY <1>1
    <2> QED
      BY <1>1, <1>3, <2>1
  <1>8. Texts(es2) = g[Len(es) + 1]
    BY <1>1, <1>3
  <1> QED
    BY <1>2, <1>6, <1>7, <1>8, <1>a

LEMMA TextsAreTyped ==
    ASSUME NEW es \in Seq(Event)
    PROVE  Texts(es) \in Seq(Pieces)
  <1>1. Len(es) \in Nat /\ \A k \in 1..Len(es) : es[k] \in Event
    OBVIOUS
  <1>2. PICK f : /\ f[0] = <<>>
                 /\ \A k \in 0..(Len(es) - 1) :
                        f[k + 1] = IF es[k + 1].type = "text_delta"
                                     THEN Append(f[k], es[k + 1].n) ELSE f[k]
                 /\ Texts(es) = f[Len(es)]
    BY <1>1, TextsSteps
  <1> DEFINE S == {k \in Nat : k <= Len(es) => f[k] \in Seq(Pieces)}
  <1>3. 0 \in S
    <2>1. <<>> \in Seq(Pieces) /\ f[0] = <<>>
      BY <1>2
    <2> QED
      BY <2>1
  <1>4. ASSUME NEW k \in Nat, k \in S PROVE k + 1 \in S
    <2> SUFFICES ASSUME k + 1 <= Len(es) PROVE f[k + 1] \in Seq(Pieces)
      OBVIOUS
    <2>1. k \in 0..(Len(es) - 1) /\ k + 1 \in 1..Len(es) /\ k <= Len(es)
      BY <1>1
    <2>2. f[k] \in Seq(Pieces) /\ es[k + 1] \in Event
      BY <1>1, <1>4, <2>1
    <2>3. es[k + 1].type = "text_delta" => es[k + 1].n \in Pieces
      BY <2>2 DEF Event, Done, Error
    <2> QED
      BY <1>2, <2>1, <2>2, <2>3, AppendProperties
  <1>5. Len(es) \in S
    <2> HIDE DEF S
    <2> QED
      BY <1>1, <1>3, <1>4, NatSetInduction
  <1> QED
    BY <1>1, <1>2, <1>5

\* The events a reply on the screen was given are the text it shows and the
\* status it has.
Reply(m, given) ==
    /\ m.text = Texts(given)
    /\ m.status \in {"complete", "interrupted", "streaming"}
    /\ m.status = "complete" => Done \in Range(given) /\ Error \notin Range(given)
    /\ m.status = "streaming" => Range(given) \cap {Done, Error} = {}

IsReply(m, t) == m.local /\ m.role = "assistant" /\ m.turn = t

\* What changes of a message when its turn is given more.
SameButReply(m, m2) == m2.turn = m.turn /\ m2.role = m.role /\ m2.local = m.local

LEMMA RangeOfMore ==
    ASSUME NEW es \in Seq(Event), NEW e \in Event
    PROVE  Range(Append(es, e)) = Range(es) \cup {e}
  <1>1. /\ Append(es, e) \in Seq(Event) /\ Len(Append(es, e)) = Len(es) + 1 /\ Len(es) \in Nat
        /\ Append(es, e)[Len(es) + 1] = e /\ \A k \in 1..Len(es) : Append(es, e)[k] = es[k]
    BY AppendProperties, LenProperties
  <1>2. DOMAIN Append(es, e) = 1..(Len(es) + 1) /\ DOMAIN es = 1..Len(es)
    BY <1>1
  <1>3. \A k \in 1..(Len(es) + 1) : k \in 1..Len(es) \/ k = Len(es) + 1
    BY <1>1
  <1>4. Len(es) + 1 \in 1..(Len(es) + 1) /\ \A k \in 1..Len(es) : k \in 1..(Len(es) + 1)
    BY <1>1
  <1> QED
    BY <1>1, <1>2, <1>3, <1>4 DEF Range

\* A message whose status, or whose text, is changed.
WithStatus(m, s) == [m EXCEPT !.status = s]

LEMMA StatusChanged ==
    ASSUME NEW m \in DisplayMessage, NEW s \in {"complete", "interrupted", "streaming", "stored"}
    PROVE  /\ WithStatus(m, s) \in DisplayMessage
           /\ WithStatus(m, s).status = s /\ WithStatus(m, s).text = m.text
           /\ SameButReply(m, WithStatus(m, s))
  BY DEF DisplayMessage, SameButReply, WithStatus

LEMMA TextChanged ==
    ASSUME NEW m \in DisplayMessage, NEW e \in Event, e.type = "text_delta"
    PROVE  /\ AddText(m, e) \in DisplayMessage
           /\ AddText(m, e).status = m.status /\ AddText(m, e).text = Append(m.text, e.n)
           /\ SameButReply(m, AddText(m, e))
  <1>1. e.n \in Pieces
    BY DEF Event, Done, Error
  <1>2. m.text \in Seq(Pieces)
    BY DEF DisplayMessage
  <1> PICK text : text = Append(m.text, e.n)
    OBVIOUS
  <1>3. text \in Seq(Pieces)
    BY <1>1, <1>2, AppendProperties
  <1>4. AddText(m, e) = [m EXCEPT !.text = text]
    BY DEF AddText
  <1> QED
    BY <1>3, <1>4 DEF DisplayMessage, SameButReply

\* After one event more, and after the catch block.
Patched(ms, ms2, t) ==
    /\ ms2 \in Seq(DisplayMessage) /\ Len(ms2) = Len(ms)
    /\ \A i \in 1..Len(ms) : SameButReply(ms[i], ms2[i])
    /\ \A i \in 1..Len(ms) : ~IsReply(ms[i], t) => ms2[i] = ms[i]

LEMMA Marking ==
    ASSUME NEW ms \in Seq(DisplayMessage), NEW t,
           NEW s \in {"complete", "interrupted", "streaming", "stored"}
    PROVE  /\ Patched(ms, Mark(ms, t, s), t)
           /\ \A i \in 1..Len(ms) : IsReply(ms[i], t) =>
                 Mark(ms, t, s)[i].status = s /\ Mark(ms, t, s)[i].text = ms[i].text
  <1>a. PICK ms2 : ms2 = Mark(ms, t, s)
    OBVIOUS
  <1>1. ms2 = [i \in 1..Len(ms) |-> IF IsReply(ms[i], t) THEN WithStatus(ms[i], s) ELSE ms[i]]
    BY <1>a DEF Mark, Patch, IsReply, WithStatus
  <1>2. Len(ms) \in Nat /\ \A i \in 1..Len(ms) : ms[i] \in DisplayMessage
    OBVIOUS
  <1>3. \A i \in 1..Len(ms) :
          /\ ms2[i] \in DisplayMessage /\ SameButReply(ms[i], ms2[i])
          /\ ~IsReply(ms[i], t) => ms2[i] = ms[i]
          /\ IsReply(ms[i], t) => ms2[i].status = s /\ ms2[i].text = ms[i].text
    <2> TAKE i \in 1..Len(ms)
    <2>1. ms[i] \in DisplayMessage
      BY <1>2
    <2>2. CASE IsReply(ms[i], t)
      <3>1. ms2[i] = WithStatus(ms[i], s)
        BY <1>1, <2>2
      <3> QED
        BY <2>1, <2>2, <3>1, StatusChanged
    <2>3. CASE ~IsReply(ms[i], t)
      <3>1. ms2[i] = ms[i]
        BY <1>1, <2>3
      <3> QED
        BY <2>1, <2>3, <3>1 DEF SameButReply
    <2> QED
      BY <2>2, <2>3
  <1>4. ms2 \in Seq(DisplayMessage) /\ Len(ms2) = Len(ms)
    BY <1>1, <1>2, <1>3
  <1> QED
    BY <1>a, <1>3, <1>4 DEF Patched

LEMMA Adding ==
    ASSUME NEW ms \in Seq(DisplayMessage), NEW t, NEW e \in Event, e.type = "text_delta"
    PROVE  /\ Patched(ms, Handle(ms, e, t), t)
           /\ \A i \in 1..Len(ms) : IsReply(ms[i], t) =>
                 /\ Handle(ms, e, t)[i].status = ms[i].status
                 /\ Handle(ms, e, t)[i].text = Append(ms[i].text, e.n)
  <1>a. PICK ms2 : ms2 = Handle(ms, e, t)
    OBVIOUS
  <1>1. ms2 = [i \in 1..Len(ms) |-> IF IsReply(ms[i], t) THEN AddText(ms[i], e) ELSE ms[i]]
    BY <1>a DEF Handle, Patch, IsReply
  <1>2. Len(ms) \in Nat /\ \A i \in 1..Len(ms) : ms[i] \in DisplayMessage
    OBVIOUS
  <1>3. \A i \in 1..Len(ms) :
          /\ ms2[i] \in DisplayMessage /\ SameButReply(ms[i], ms2[i])
          /\ ~IsReply(ms[i], t) => ms2[i] = ms[i]
          /\ IsReply(ms[i], t) =>
                ms2[i].status = ms[i].status /\ ms2[i].text = Append(ms[i].text, e.n)
    <2> TAKE i \in 1..Len(ms)
    <2>1. ms[i] \in DisplayMessage
      BY <1>2
    <2>2. CASE IsReply(ms[i], t)
      <3>1. ms2[i] = AddText(ms[i], e)
        BY <1>1, <2>2
      <3> QED
        BY <2>1, <2>2, <3>1, TextChanged
    <2>3. CASE ~IsReply(ms[i], t)
      <3>1. ms2[i] = ms[i]
        BY <1>1, <2>3
      <3> QED
        BY <2>1, <2>3, <3>1 DEF SameButReply
    <2> QED
      BY <2>2, <2>3
  <1>4. ms2 \in Seq(DisplayMessage) /\ Len(ms2) = Len(ms)
    BY <1>1, <1>2, <1>3
  <1> QED
    BY <1>a, <1>3, <1>4 DEF Patched

\* The reply of a turn keeps up with what the turn was given.
LEMMA Handled ==
    ASSUME NEW ms \in Seq(DisplayMessage), NEW t, NEW given \in Seq(Event), NEW e \in Event,
           Error \notin Range(given)
    PROVE  /\ Patched(ms, Handle(ms, e, t), t)
           /\ \A i \in 1..Len(ms) : IsReply(ms[i], t) /\ Reply(ms[i], given) =>
                 Reply(Handle(ms, e, t)[i], Append(given, e))
  <1> PICK more : more = Append(given, e)
    OBVIOUS
  <1>1. /\ Range(more) = Range(given) \cup {e}
        /\ Texts(more) = IF e.type = "text_delta" THEN Append(Texts(given), e.n) ELSE Texts(given)
    BY RangeOfMore, TextsOfMore
  <1>a. PICK ms2 : ms2 = Handle(ms, e, t)
    OBVIOUS
  <1>2. CASE e.type = "text_delta"
    <2>1. e \notin {Done, Error}
      BY <1>2 DEF Done, Error
    <2>2. /\ Patched(ms, ms2, t)
          /\ \A i \in 1..Len(ms) : IsReply(ms[i], t) =>
                 ms2[i].status = ms[i].status /\ ms2[i].text = Append(ms[i].text, e.n)
      BY <1>2, <1>a, Adding
    <2>3. ASSUME NEW i \in 1..Len(ms), IsReply(ms[i], t), Reply(ms[i], given)
          PROVE  Reply(ms2[i], more)
      BY <1>1, <1>2, <2>1, <2>2, <2>3 DEF Reply
    <2> QED
      BY <1>a, <2>2, <2>3
  <1>3. CASE e = Done
    <2>1. ms2 = Mark(ms, t, "complete")
      BY <1>3, <1>a DEF Handle, Done
    <2>2. /\ Patched(ms, ms2, t)
          /\ \A i \in 1..Len(ms) : IsReply(ms[i], t) =>
                 ms2[i].status = "complete" /\ ms2[i].text = ms[i].text
      BY <2>1, Marking
    <2>3. e.type # "text_delta" /\ e # Error
      BY <1>3 DEF Done, Error
    <2>4. ASSUME NEW i \in 1..Len(ms), IsReply(ms[i], t), Reply(ms[i], given)
          PROVE  Reply(ms2[i], more)
      BY <1>1, <1>3, <2>2, <2>3, <2>4 DEF Reply
    <2> QED
      BY <1>a, <2>2, <2>4
  <1>4. CASE e = Error
    <2>1. ms2 = Mark(ms, t, "interrupted")
      <3>1. e.type # "text_delta" /\ e # Done
        BY <1>4 DEF Error, Done
      <3> QED
        BY <3>1, <1>a DEF Handle
    <2>2. /\ Patched(ms, ms2, t)
          /\ \A i \in 1..Len(ms) : IsReply(ms[i], t) =>
                 ms2[i].status = "interrupted" /\ ms2[i].text = ms[i].text
      BY <2>1, Marking
    <2>3. e.type # "text_delta"
      BY <1>4 DEF Error
    <2>4. ASSUME NEW i \in 1..Len(ms), IsReply(ms[i], t), Reply(ms[i], given)
          PROVE  Reply(ms2[i], more)
      BY <1>1, <2>2, <2>3, <2>4 DEF Reply
    <2> QED
      BY <1>a, <2>2, <2>4
  <1> QED
    BY <1>2, <1>3, <1>4 DEF Event

\* HandleAll's recursive function exists, and takes an event at a time.
HandledBy(after, t, events, N) ==
    after = [k \in 0..N |-> IF k = 0 THEN messages ELSE Handle(after[k - 1], events[k], t)]

LEMMA HandlingExists ==
    ASSUME NEW t, NEW events, NEW N \in Nat
    PROVE  \E after : HandledBy(after, t, events, N)
  <1> DEFINE Step(r, k) == Handle(r, events[k], t)
             IsLoop(f, n) == f = [k \in 0..n |-> IF k = 0 THEN messages ELSE Step(f[k - 1], k)]
             S == {n \in Nat : \E f : IsLoop(f, n)}
  <1> HIDE DEF Step
  <1>1. 0 \in S
    <2> DEFINE f == [k \in 0..0 |-> messages]
    <2>1. IsLoop(f, 0)
      OBVIOUS
    <2> QED
      BY <2>1
  <1>2. ASSUME NEW n \in Nat, n \in S PROVE n + 1 \in S
    <2>1. PICK f : IsLoop(f, n)
      BY <1>2
    <2> DEFINE g == [k \in 0..(n + 1) |-> IF k = 0 THEN messages ELSE Step(f[k - 1], k)]
    <2>2. \A k \in 0..n : g[k] = f[k]
      BY <2>1
    <2>3. IsLoop(g, n + 1)
      <3>1. \A k \in 0..(n + 1) : k # 0 => k - 1 \in 0..n
        OBVIOUS
      <3>2. \A k \in 0..(n + 1) :
              (IF k = 0 THEN messages ELSE Step(f[k - 1], k))
              = (IF k = 0 THEN messages ELSE Step(g[k - 1], k))
        BY <2>2, <3>1
      <3>3. g = [k \in 0..(n + 1) |-> IF k = 0 THEN messages ELSE Step(f[k - 1], k)]
        OBVIOUS
      <3> HIDE DEF g
      <3> QED
        BY <3>2, <3>3
    <2> HIDE DEF g
    <2> QED
      BY <2>3
  <1> HIDE DEF S
  <1>3. N \in S
    BY <1>1, <1>2, NatSetInduction
  <1> QED
    BY <1>3 DEF S, HandledBy, Step

\* The messages after each of the events.
Handling(after, t, events, N) ==
    /\ after[0] = messages
    /\ \A k \in 0..(N - 1) : after[k + 1] = Handle(after[k], events[k + 1], t)
    /\ HandleAll(t, events) = after[N]

LEMMA HandlingSteps ==
    ASSUME NEW t, NEW events, NEW N \in Nat, Len(events) = N
    PROVE  \E after : Handling(after, t, events, N)
  <1> DEFINE after[k \in 0..N] == IF k = 0 THEN messages ELSE Handle(after[k - 1], events[k], t)
  <1>1. HandleAll(t, events) = after[N]
    BY DEF HandleAll
  <1>2. HandledBy(after, t, events, N)
    <2>1. \E f : HandledBy(f, t, events, N)
      BY HandlingExists
    <2> QED
      BY <2>1 DEF HandledBy
  <1> HIDE DEF after
  <1>3. after[0] = messages
    BY <1>2 DEF HandledBy
  <1>4. \A k \in 0..(N - 1) : after[k + 1] = Handle(after[k], events[k + 1], t)
    <2> TAKE k \in 0..(N - 1)
    <2>1. k + 1 \in 0..N /\ k + 1 # 0 /\ (k + 1) - 1 = k
      OBVIOUS
    <2> QED
      BY <1>2, <2>1 DEF HandledBy
  <1> QED
    BY <1>1, <1>3, <1>4 DEF Handling

LEMMA PatchedTwice ==
    ASSUME NEW t, NEW ms, NEW ms2, NEW ms3, Patched(ms, ms2, t), Patched(ms2, ms3, t)
    PROVE  /\ Patched(ms, ms3, t)
           /\ \A i \in 1..Len(ms) : IsReply(ms[i], t) <=> IsReply(ms2[i], t)
  <1>1. \A i \in 1..Len(ms) : IsReply(ms[i], t) <=> IsReply(ms2[i], t)
    BY DEF Patched, SameButReply, IsReply
  <1> QED
    BY <1>1 DEF Patched, SameButReply

\* The reply shows what its turn has been given in the end.
\* The first n of some events.
LEMMA StartOfEvents ==
    ASSUME NEW es \in Seq(Event), NEW n \in 0..Len(es)
    PROVE  /\ SubSeq(es, 1, n) \in Seq(Event) /\ Len(SubSeq(es, 1, n)) = n
           /\ DOMAIN SubSeq(es, 1, n) = 1..n
           /\ \A k \in 1..n : SubSeq(es, 1, n)[k] = es[k]
  <1>1. \A k \in 1..n : es[k] \in Event
    OBVIOUS
  <1>2. 1 \in Int /\ n \in Int
    OBVIOUS
  <1> QED
    BY <1>1, <1>2, SubSeqProperties

\* An event more of the start of a sequence.
LEMMA StartGrows ==
    ASSUME NEW es \in Seq(Event), NEW n \in Nat, n + 1 \in 1..Len(es)
    PROVE  SubSeq(es, 1, n + 1) = Append(SubSeq(es, 1, n), es[n + 1])
  <1>1. 1 \in 1..Len(es) /\ (n + 1) - 1 = n /\ n \in 0..Len(es) /\ es[n + 1] \in Event
    OBVIOUS
  <1>2. SubSeq(es, 1, n + 1) = SubSeq(es, 1, (n + 1) - 1) \o <<es[n + 1]>>
    BY <1>1, SubSeqRecursiveSecond
  <1>3. SubSeq(es, 1, n) \in Seq(Event)
    BY <1>1, StartOfEvents
  <1>4. Append(SubSeq(es, 1, n), es[n + 1]) = SubSeq(es, 1, n) \o <<es[n + 1]>>
    BY <1>1, <1>3, AppendIsConcat
  <1> QED
    BY <1>1, <1>2, <1>4

\* And so the replies of a turn keep up with all it is given at once.
LEMMA AllHandled ==
    ASSUME messages \in Seq(DisplayMessage), NEW t, NEW es \in Seq(Event),
           NEW m1 \in 0..Len(es), NEW m2 \in m1..Len(es),
           NEW events, events = SubSeq(es, m1 + 1, m2), Script(es)
    PROVE  /\ Patched(messages, HandleAll(t, events), t)
           /\ \A i \in 1..Len(messages) :
                IsReply(messages[i], t) /\ Reply(messages[i], SubSeq(es, 1, m1))
                  => Reply(HandleAll(t, events)[i], SubSeq(es, 1, m2))
  <1>1. /\ Len(es) \in Nat /\ m1 \in Nat /\ m2 \in Nat /\ m1 <= m2 /\ m2 <= Len(es)
        /\ \A i \in 1..Len(es) : es[i] \in Event
    OBVIOUS
  <1>n. PICK n : n = Len(events)
    OBVIOUS
  <1>2. n \in Nat /\ n = m2 - m1 /\ \A k \in 1..n : events[k] = es[m1 + k]
    <2>1. \A i \in (m1 + 1)..m2 : es[i] \in Event
      BY <1>1
    <2>2. m1 + 1 \in Int /\ m2 \in Int
      BY <1>1
    <2>3. /\ Len(events) = IF m1 + 1 <= m2 THEN m2 - (m1 + 1) + 1 ELSE 0
          /\ \A i \in 1..(m2 - (m1 + 1) + 1) : events[i] = es[(m1 + 1) + i - 1]
      BY <2>1, <2>2, SubSeqProperties
    <2> QED
      BY <1>1, <1>n, <2>3
  <1>3. PICK after :
          /\ after[0] = messages
          /\ \A k \in 0..(n - 1) : after[k + 1] = Handle(after[k], events[k + 1], t)
          /\ HandleAll(t, events) = after[n]
    <2>1. \E after : Handling(after, t, events, n)
      BY <1>2, <1>n, HandlingSteps
    <2> QED
      BY <2>1 DEF Handling
  <1> DEFINE Given(k) == SubSeq(es, 1, m1 + k)
             Good(ms, k) == /\ Patched(messages, ms, t)
                            /\ \A i \in 1..Len(messages) :
                                 IsReply(messages[i], t) /\ Reply(messages[i], SubSeq(es, 1, m1))
                                   => Reply(ms[i], Given(k))
             S == {k \in Nat : k <= n => Good(after[k], k)}
  <1>4. 0 \in S
    <2>1. Patched(messages, messages, t)
      BY DEF Patched, SameButReply
    <2>2. Given(0) = SubSeq(es, 1, m1)
      BY <1>1
    <2> QED
      BY <1>3, <2>1, <2>2
  <1>5. ASSUME NEW k \in Nat, k \in S PROVE k + 1 \in S
    <2> SUFFICES ASSUME k + 1 <= n PROVE Good(after[k + 1], k + 1)
      OBVIOUS
    <2>1. /\ k \in 0..(n - 1) /\ k + 1 \in 1..n /\ k <= n
          /\ m1 + k \in Nat /\ m1 + (k + 1) = (m1 + k) + 1 /\ (m1 + k) + 1 \in 1..Len(es)
      BY <1>1, <1>2
    <2> PICK e : e = es[(m1 + k) + 1]
      OBVIOUS
    <2> PICK ms : ms = after[k]
      OBVIOUS
    <2> PICK given : given = Given(k)
      OBVIOUS
    <2>2. e \in Event /\ events[k + 1] = e
      BY <1>1, <1>2, <2>1
    <2>3. given \in Seq(Event) /\ Given(k + 1) = Append(given, e)
      <3>1. m1 + k \in Nat /\ (m1 + k) + 1 \in 1..Len(es) /\ m1 + k \in 0..Len(es)
        BY <1>1, <2>1
      <3>2. given \in Seq(Event)
        BY <3>1, StartOfEvents
      <3>3. SubSeq(es, 1, (m1 + k) + 1) = Append(SubSeq(es, 1, m1 + k), es[(m1 + k) + 1])
        BY <3>1, StartGrows
      <3> QED
        BY <2>1, <3>2, <3>3
    <2>e. Error \notin Range(given)
      <3>1. m1 + k \in 0..(Len(es) - 1)
        BY <1>1, <2>1
      <3>2. \A i \in 1..(m1 + k) : es[i] # Error
        BY <1>1, <3>1 DEF Script
      <3>3. given = SubSeq(es, 1, m1 + k) /\ m1 + k \in 0..Len(es)
        BY <1>1, <3>1
      <3>4. DOMAIN given = 1..(m1 + k) /\ \A i \in 1..(m1 + k) : given[i] = es[i]
        BY <3>3, StartOfEvents
      <3> QED
        BY <3>2, <3>4 DEF Range
    <2>4. after[k + 1] = Handle(ms, e, t)
      BY <1>3, <2>1, <2>2
    <2>5. Good(ms, k)
      BY <1>5, <2>1
    <2>6. ms \in Seq(DisplayMessage) /\ Len(ms) = Len(messages)
      BY <2>5 DEF Patched
    <2> PICK ms2 : ms2 = Handle(ms, e, t)
      OBVIOUS
    <2> HIDE DEF Given
    <2>7. /\ Patched(ms, ms2, t)
          /\ \A i \in 1..Len(ms) : IsReply(ms[i], t) /\ Reply(ms[i], given)
                                     => Reply(ms2[i], Append(given, e))
      BY <2>2, <2>3, <2>e, <2>6, Handled
    <2>8. Patched(messages, ms2, t) /\ \A i \in 1..Len(messages) : IsReply(messages[i], t) <=> IsReply(ms[i], t)
      BY <2>5, <2>7, PatchedTwice
    <2>9. ASSUME NEW i \in 1..Len(messages), IsReply(messages[i], t),
                 Reply(messages[i], SubSeq(es, 1, m1))
          PROVE  Reply(ms2[i], Given(k + 1))
      <3>1. IsReply(ms[i], t) /\ Reply(ms[i], given) /\ i \in 1..Len(ms)
        BY <2>5, <2>6, <2>8, <2>9
      <3> QED
        BY <2>3, <2>7, <3>1
    <2> QED
      BY <2>4, <2>8, <2>9
  <1>6. n \in S
    <2> HIDE DEF S
    <2> QED
      BY <1>2, <1>4, <1>5, NatSetInduction
  <1>7. Given(n) = SubSeq(es, 1, m2)
    BY <1>1, <1>2
  <1> QED
    BY <1>3, <1>6, <1>7, <1>2

\* The rows of a load: each of a turn of the conversation that the server has
\* accepted, and no turn's twice.
RowGood(r, c) ==
    /\ r \in DisplayMessage /\ ~r.local /\ r.text = <<>> /\ r.status = "stored"
    /\ posted[r.turn].conv = c /\ Accepted(r.turn)

Distinct(ms) ==
    \A i, j \in 1..Len(ms) : i # j => <<ms[i].turn, ms[i].role>> # <<ms[j].turn, ms[j].role>>

RowsBy(rows, c, N) ==
    rows = [t \in 0..N |-> IF t = 0 THEN <<>> ELSE rows[t - 1] \o RowsOf(t, c)]

LEMMA RowsExist ==
    ASSUME NEW c, NEW N \in Nat
    PROVE  \E rows : RowsBy(rows, c, N)
  <1> DEFINE Step(r, k) == r \o RowsOf(k, c)
             IsLoop(f, n) == f = [k \in 0..n |-> IF k = 0 THEN <<>> ELSE Step(f[k - 1], k)]
             S == {n \in Nat : \E f : IsLoop(f, n)}
  <1> HIDE DEF Step
  <1>1. 0 \in S
    <2> DEFINE f == [k \in 0..0 |-> <<>>]
    <2>1. IsLoop(f, 0)
      OBVIOUS
    <2> QED
      BY <2>1
  <1>2. ASSUME NEW n \in Nat, n \in S PROVE n + 1 \in S
    <2>1. PICK f : IsLoop(f, n)
      BY <1>2
    <2> DEFINE g == [k \in 0..(n + 1) |-> IF k = 0 THEN <<>> ELSE Step(f[k - 1], k)]
    <2>2. \A k \in 0..n : g[k] = f[k]
      BY <2>1
    <2>3. IsLoop(g, n + 1)
      <3>1. \A k \in 0..(n + 1) : k # 0 => k - 1 \in 0..n
        OBVIOUS
      <3>2. \A k \in 0..(n + 1) :
              (IF k = 0 THEN <<>> ELSE Step(f[k - 1], k))
              = (IF k = 0 THEN <<>> ELSE Step(g[k - 1], k))
        BY <2>2, <3>1
      <3>3. g = [k \in 0..(n + 1) |-> IF k = 0 THEN <<>> ELSE Step(f[k - 1], k)]
        OBVIOUS
      <3> HIDE DEF g
      <3> QED
        BY <3>2, <3>3
    <2> HIDE DEF g
    <2> QED
      BY <2>3
  <1> HIDE DEF S
  <1>3. N \in S
    BY <1>1, <1>2, NatSetInduction
  <1> QED
    BY <1>3 DEF S, RowsBy, Step

LEMMA RowsOfTurn ==
    ASSUME NEW t \in Turns, NEW c, NEW rs, rs = RowsOf(t, c)
    PROVE  /\ rs \in Seq(DisplayMessage) /\ Distinct(rs)
           /\ \A i \in 1..Len(rs) : RowGood(rs[i], c) /\ rs[i].turn = t
  <1>1. \A role \in {"user", "assistant"} :
          /\ Stored(t, role) \in DisplayMessage /\ ~Stored(t, role).local
          /\ Stored(t, role).text = <<>> /\ Stored(t, role).status = "stored"
          /\ Stored(t, role).turn = t /\ Stored(t, role).role = role
    <2> SUFFICES ASSUME NEW role \in {"user", "assistant"}
                 PROVE  /\ Stored(t, role) \in DisplayMessage /\ ~Stored(t, role).local
                        /\ Stored(t, role).text = <<>> /\ Stored(t, role).status = "stored"
                        /\ Stored(t, role).turn = t /\ Stored(t, role).role = role
      OBVIOUS
    <2>1. <<>> \in Seq(Pieces)
      OBVIOUS
    <2> QED
      BY <2>1 DEF Stored, DisplayMessage
  <1> PICK u : u = Stored(t, "user")
    OBVIOUS
  <1> PICK a : a = Stored(t, "assistant")
    OBVIOUS
  <1>2. /\ u \in DisplayMessage /\ ~u.local /\ u.text = <<>> /\ u.status = "stored"
        /\ u.turn = t /\ u.role = "user"
    BY <1>1
  <1>3. /\ a \in DisplayMessage /\ ~a.local /\ a.text = <<>> /\ a.status = "stored"
        /\ a.turn = t /\ a.role = "assistant"
    BY <1>1
  <1>4. \/ rs = <<>>
        \/ posted[t].conv = c /\ Accepted(t) /\ (rs = <<u, a>> \/ rs = <<u>>)
    BY DEF RowsOf, Accepted
  <1>5. CASE rs = <<>>
    BY <1>5 DEF Distinct
  <1>6. CASE posted[t].conv = c /\ Accepted(t) /\ rs = <<u>>
    <2>1. rs \in Seq(DisplayMessage) /\ Len(rs) = 1 /\ rs[1] = u
      BY <1>2, <1>6
    <2>2. RowGood(u, c)
      BY <1>2, <1>6 DEF RowGood
    <2> QED
      BY <1>2, <2>1, <2>2 DEF Distinct
  <1>7. CASE posted[t].conv = c /\ Accepted(t) /\ rs = <<u, a>>
    <2>1. rs \in Seq(DisplayMessage) /\ Len(rs) = 2 /\ rs[1] = u /\ rs[2] = a
      BY <1>2, <1>3, <1>7
    <2>2. RowGood(u, c) /\ RowGood(a, c)
      BY <1>2, <1>3, <1>7 DEF RowGood
    <2>3. \A i \in 1..2 : i = 1 \/ i = 2
      OBVIOUS
    <2>4. \A i \in 1..2 : RowGood(rs[i], c) /\ rs[i].turn = t
      BY <1>2, <1>3, <2>1, <2>2, <2>3
    <2>5. Distinct(rs)
      BY <1>2, <1>3, <2>1, <2>3 DEF Distinct
    <2> QED
      BY <2>1, <2>4, <2>5
  <1> QED
    BY <1>4, <1>5, <1>6, <1>7

LEMMA RowsOfConversation ==
    ASSUME NEW c, NEW rs, rs = Rows(c)
    PROVE  /\ rs \in Seq(DisplayMessage) /\ Distinct(rs)
           /\ \A i \in 1..Len(rs) : RowGood(rs[i], c)
  <1> DEFINE N == MaxSends
             rows[t \in 0..N] == IF t = 0 THEN <<>> ELSE rows[t - 1] \o RowsOf(t, c)
  <1>1. rs = rows[N] /\ N \in Nat
    BY BrowserAssumption DEF Rows
  <1>2. RowsBy(rows, c, N)
    <2> HIDE DEF N
    <2>1. \E f : RowsBy(f, c, N)
      BY <1>1, RowsExist
    <2> QED
      BY <2>1 DEF RowsBy
  <1> HIDE DEF rows
  <1> DEFINE Good(ms, k) == /\ ms \in Seq(DisplayMessage) /\ Distinct(ms)
                            /\ \A i \in 1..Len(ms) : RowGood(ms[i], c) /\ ms[i].turn \in 1..k
             S == {k \in Nat : k <= N => Good(rows[k], k)}
  <1>3. 0 \in S
    <2>1. rows[0] = <<>>
      BY <1>1, <1>2 DEF RowsBy
    <2>2. Good(<<>>, 0)
      BY DEF Distinct
    <2> QED
      BY <2>1, <2>2
  <1>4. ASSUME NEW k \in Nat, k \in S PROVE k + 1 \in S
    <2> SUFFICES ASSUME k + 1 <= N PROVE Good(rows[k + 1], k + 1)
      OBVIOUS
    <2>1. k + 1 \in 0..N /\ k + 1 # 0 /\ (k + 1) - 1 = k /\ k <= N /\ k + 1 \in Turns
      BY <1>1 DEF Turns
    <2>a. PICK ms : ms = rows[k]
      OBVIOUS
    <2>b. PICK new : new = RowsOf(k + 1, c)
      OBVIOUS
    <2>c. PICK ms2 : ms2 = ms \o new
      OBVIOUS
    <2>2. rows[k + 1] = ms2
      BY <1>2, <2>1, <2>a, <2>b, <2>c DEF RowsBy
    <2>3. Good(ms, k)
      BY <1>4, <2>1, <2>a
    <2>4. /\ new \in Seq(DisplayMessage) /\ Distinct(new)
          /\ \A i \in 1..Len(new) : RowGood(new[i], c) /\ new[i].turn = k + 1
      BY <2>1, <2>b, RowsOfTurn
    <2>5. /\ ms2 \in Seq(DisplayMessage) /\ Len(ms2) = Len(ms) + Len(new)
          /\ Len(ms) \in Nat /\ Len(new) \in Nat
          /\ \A i \in 1..Len(ms) : ms2[i] = ms[i]
          /\ \A i \in 1..Len(new) : ms2[Len(ms) + i] = new[i]
      <3>1. ms \in Seq(DisplayMessage) /\ new \in Seq(DisplayMessage) /\ ms2 = ms \o new
        BY <2>3, <2>4, <2>c
      <3> HIDE DEF Good
      <3> QED
        BY <3>1, ConcatProperties, LenProperties
    <2> HIDE DEF Good, S
    <2>6. \A i \in 1..Len(ms2) : i \in 1..Len(ms) \/ \E j \in 1..Len(new) : i = Len(ms) + j
      <3> TAKE i \in 1..Len(ms2)
      <3>1. CASE i <= Len(ms)
        BY <2>5, <3>1
      <3>2. CASE i > Len(ms)
        <4>1. i - Len(ms) \in 1..Len(new) /\ i = Len(ms) + (i - Len(ms))
          <5>1. i \in Nat /\ i <= Len(ms) + Len(new) /\ Len(ms) \in Nat /\ Len(new) \in Nat
            BY <2>5
          <5> QED
            BY <3>2, <5>1
        <4> QED
          BY <4>1
      <3> QED
        BY <2>5, <3>1, <3>2
    <2>7. ASSUME NEW i \in 1..Len(ms2)
          PROVE  RowGood(ms2[i], c) /\ ms2[i].turn \in 1..(k + 1)
      <3>1. CASE i \in 1..Len(ms)
        <4>1. RowGood(ms[i], c) /\ ms[i].turn \in 1..k /\ ms2[i] = ms[i]
          BY <2>3, <2>5, <3>1 DEF Good
        <4> QED
          BY <4>1
      <3>2. CASE \E j \in 1..Len(new) : i = Len(ms) + j
        <4>1. PICK j \in 1..Len(new) : i = Len(ms) + j
          BY <3>2
        <4>2. RowGood(new[j], c) /\ new[j].turn = k + 1 /\ ms2[i] = new[j]
          BY <2>4, <2>5, <4>1
        <4> QED
          BY <4>2
      <3> QED
        BY <2>6, <3>1, <3>2
    <2>8. Distinct(ms2)
      <3> DEFINE Key(m) == <<m.turn, m.role>>
      <3>1. ASSUME NEW i \in 1..Len(ms), NEW j \in 1..Len(new)
            PROVE  Key(ms2[i]) # Key(ms2[Len(ms) + j])
        <4>1. ms2[i].turn \in 1..k /\ ms2[Len(ms) + j].turn = k + 1
          BY <2>3, <2>4, <2>5 DEF Good
        <4>2. \A x \in 1..k : x # k + 1
          OBVIOUS
        <4>3. ms2[i].turn # ms2[Len(ms) + j].turn
          BY <4>1, <4>2
        <4> QED
          BY <4>3
      <3>2. ASSUME NEW i \in 1..Len(ms), NEW j \in 1..Len(ms), i # j
            PROVE  Key(ms2[i]) # Key(ms2[j])
        <4>1. ms2[i] = ms[i] /\ ms2[j] = ms[j]
          BY <2>5
        <4>2. Distinct(ms)
          BY <2>3 DEF Good
        <4> QED
          BY <3>2, <4>1, <4>2 DEF Distinct
      <3>3. ASSUME NEW i \in 1..Len(new), NEW j \in 1..Len(new), i # j
            PROVE  Key(ms2[Len(ms) + i]) # Key(ms2[Len(ms) + j])
        <4>1. ms2[Len(ms) + i] = new[i] /\ ms2[Len(ms) + j] = new[j]
          BY <2>5
        <4> QED
          BY <2>4, <3>3, <4>1 DEF Distinct
      <3> SUFFICES ASSUME NEW i \in 1..Len(ms2), NEW j \in 1..Len(ms2), i # j
                   PROVE  Key(ms2[i]) # Key(ms2[j])
        BY DEF Distinct
      <3> HIDE DEF Key
      <3>4. CASE i \in 1..Len(ms) /\ j \in 1..Len(ms)
        BY <3>2, <3>4
      <3>5. CASE i \in 1..Len(ms) /\ \E b \in 1..Len(new) : j = Len(ms) + b
        BY <3>1, <3>5
      <3>6. CASE j \in 1..Len(ms) /\ \E a \in 1..Len(new) : i = Len(ms) + a
        <4>1. PICK a \in 1..Len(new) : i = Len(ms) + a
          BY <3>6
        <4>2. Key(ms2[j]) # Key(ms2[Len(ms) + a])
          BY <3>1, <3>6
        <4> HIDE DEF Key
        <4> QED
          BY <4>1, <4>2
      <3>7. CASE (\E a \in 1..Len(new) : i = Len(ms) + a) /\ \E b \in 1..Len(new) : j = Len(ms) + b
        <4>1. PICK a \in 1..Len(new), b \in 1..Len(new) : i = Len(ms) + a /\ j = Len(ms) + b
          BY <3>7
        <4>2. a # b
          BY <4>1
        <4> QED
          BY <3>3, <4>1, <4>2
      <3> QED
        BY <2>6, <3>4, <3>5, <3>6, <3>7
    <2> QED
      BY <2>2, <2>5, <2>7, <2>8 DEF Good
  <1>5. Good(rows[N], N)
    <2>1. N \in S
      <3> HIDE DEF S, N
      <3> QED
        BY <1>1, <1>3, <1>4, NatSetInduction
    <2> QED
      BY <1>1, <2>1
  <1> QED
    BY <1>1, <1>5

-----------------------------------------------------------------------------
(* What is on the screen: the messages Chat shows and those of its load.   *)

\* A message Chat shows is of a turn that was sent to the selected conversation.
\* One it was sent shows what the turn was given, and is still being written
\* only while its stream runs or if the body ended of its own accord; one that
\* was loaded is one the tenant may read.
OnScreen(m) ==
    /\ fetch[m.turn] # "unsent" /\ posted[m.turn].conv = selectedId
    /\ m.local => posted[m.turn].tenant = tenantId
    /\ ~m.local => m.text = <<>> /\ m.status = "stored" /\ Allowed(tenantId, selectedId)
    /\ m.local /\ m.role = "user" => m.text = <<>> /\ m.status = "complete"
    /\ m.local /\ m.role = "assistant" =>
          /\ Reply(m, handled[m.turn])
          /\ m.status = "streaming" => abortRef = m.turn \/ reply[m.turn] \in {"stored", "closed"}

Screen ==
    /\ messages \in Seq(DisplayMessage) /\ Distinct(messages)
    /\ \A m \in DisplayMessage : (\E i \in 1..Len(messages) : messages[i] = m) => OnScreen(m)

\* What a load has read is of the selected conversation and may be shown.
Loading ==
    /\ load \in {NoLoad, Asked} \/ load.step = "read"
    /\ load # NoLoad => selectedId # NoConv
    /\ load.rows \in Seq(DisplayMessage)
    /\ load.step = "read" =>
          /\ Allowed(tenantId, selectedId) /\ Distinct(load.rows)
          /\ \A m \in DisplayMessage :
               (\E i \in 1..Len(load.rows) : load.rows[i] = m) => RowGood(m, selectedId)

\* App's lists and requests.
Desk ==
    /\ conversations \subseteq known /\ selectedId \in known \cup {NoConv}
    /\ loading \in BOOLEAN
    /\ lists \in Seq(TenantIds) /\ creates \in Seq(TenantIds)
    /\ asked \in 0..MaxRequests

LEMMA NewScreen ==
    ASSUME NEW ms \in Seq(DisplayMessage), messages' = ms, Distinct(ms),
           \A m \in DisplayMessage : (\E i \in 1..Len(ms) : ms[i] = m) => OnScreen(m)'
    PROVE  Screen'
  BY DEF Screen, Distinct

LEMMA EmptyScreen == ASSUME messages' = <<>> PROVE Screen'
  <1> PICK ms : ms = messages'
    OBVIOUS
  <1>1. ms = <<>>
    OBVIOUS
  <1>2. ms \in Seq(DisplayMessage) /\ Len(ms) = 0 /\ Distinct(ms)
    BY <1>1 DEF Distinct
  <1>3. \A m \in DisplayMessage : (\E i \in 1..Len(ms) : ms[i] = m) => OnScreen(m)'
    BY <1>2
  <1> QED
    BY <1>2, <1>3, NewScreen

\* A message stays what it is on the screen.
LEMMA MessageStays ==
    ASSUME NEW m \in DisplayMessage, OnScreen(m), NEW t, t = m.turn,
           UNCHANGED <<selectedId, tenantId>>,
           fetch'[t] # "unsent", posted'[t] = posted[t],
           m.local /\ m.role = "assistant" =>
             /\ handled'[t] = handled[t]
             /\ abortRef = t \/ reply[t] \in {"stored", "closed"}
                  => abortRef' = t \/ reply'[t] \in {"stored", "closed"}
    PROVE  OnScreen(m)'
  <1>1. m.local /\ m.role = "assistant" => Reply(m, handled'[t])
    BY DEF OnScreen
  <1> QED
    BY <1>1 DEF OnScreen, Allowed

LEMMA ScreenStays ==
    ASSUME Screen, UNCHANGED <<messages, selectedId, tenantId>>,
           \A t \in Turns : fetch[t] # "unsent" =>
             /\ fetch'[t] # "unsent" /\ posted'[t] = posted[t] /\ handled'[t] = handled[t]
             /\ abortRef = t \/ reply[t] \in {"stored", "closed"}
                  => abortRef' = t \/ reply'[t] \in {"stored", "closed"}
    PROVE  Screen'
  <1>1. ASSUME NEW m \in DisplayMessage, OnScreen(m) PROVE OnScreen(m)'
    <2>1. m.turn \in Turns /\ fetch[m.turn] # "unsent"
      BY <1>1 DEF DisplayMessage, OnScreen
    <2> QED
      BY <1>1, <2>1, MessageStays
  <1> QED
    BY <1>1 DEF Screen, Distinct

LEMMA LoadingStays ==
    ASSUME Loading, UNCHANGED <<load, selectedId>>, load = NoLoad \/ UNCHANGED tenantId,
           \A t \in Turns : Accepted(t) => Accepted(t)' /\ posted'[t] = posted[t]
    PROVE  Loading'
  <1>1. ASSUME NEW m \in DisplayMessage, RowGood(m, selectedId) PROVE RowGood(m, selectedId)'
    <2>1. m.turn \in Turns /\ Accepted(m.turn)
      BY <1>1 DEF DisplayMessage, RowGood
    <2>2. Accepted(m.turn)' /\ posted'[m.turn] = posted[m.turn]
      BY <2>1
    <2> QED
      BY <1>1, <2>2 DEF RowGood, Accepted
  <1>2. load.step = "read" => UNCHANGED tenantId
    BY DEF NoLoad
  <1> QED
    BY <1>1, <1>2 DEF Loading, Allowed, Distinct, NoLoad, Asked

\* No load, or one that was not answered yet.
LEMMA NewLoad ==
    ASSUME load' = NoLoad \/ (load' = Asked /\ selectedId' # NoConv)
    PROVE  Loading'
  <1>1. <<>> \in Seq(DisplayMessage)
    OBVIOUS
  <1>2. load'.rows = <<>> /\ load'.step # "read"
    BY DEF NoLoad, Asked
  <1> QED
    BY <1>1, <1>2 DEF Loading, NoLoad, Asked

\* What the streams of this step do not touch.
LEMMA SentOnScreen ==
    ASSUME Streams, Screen, NEW m \in DisplayMessage, OnScreen(m)
    PROVE  m.turn \in Turns /\ selectedId # NoConv
  BY DEF Streams, Sent, OnScreen, DisplayMessage

\* Another selection, or another tenant.
LEMMA SelectingScreen ==
    ASSUME IInv, Streams, Screen, Loading, NEW c, SetSelectedId(c), UNCHANGED <<posted, reply>>,
           c = selectedId => tenantId' = tenantId \/ c = NoConv
    PROVE  Screen' /\ Loading'
  <1>1. CASE c # selectedId
    <2>1. messages' = <<>> /\ selectedId' = c /\ load' = IF c = NoConv THEN NoLoad ELSE Asked
      BY <1>1 DEF SetSelectedId, Mount
    <2>2. Screen'
      BY <2>1, EmptyScreen
    <2>3. Loading'
      BY <2>1, NewLoad
    <2> QED
      BY <2>2, <2>3
  <1>2. CASE c = selectedId
    <2>1. UNCHANGED <<selectedId, messages, load, abortRef, fetch, handled>>
      BY <1>2 DEF SetSelectedId, chat, stream, log
    <2>2. CASE tenantId' = tenantId
      <3>1. Screen'
        BY <2>1, <2>2, ScreenStays
      <3>2. \A t \in Turns : Accepted(t) => Accepted(t)' /\ posted'[t] = posted[t]
        BY DEF Accepted
      <3>3. Loading'
        BY <2>1, <2>2, <3>2, LoadingStays
      <3> QED
        BY <3>1, <3>3
    <2>3. CASE c = NoConv
      <3>1. load = NoLoad
        BY <1>2, <2>3 DEF Loading
      <3>2. Loading'
        BY <2>1, <3>1, NewLoad
      <3>3. Len(messages) \in Nat /\ \A i \in 1..Len(messages) : messages[i] \in DisplayMessage
        BY DEF Screen
      <3>4. \A i \in 1..Len(messages) : FALSE
        <4> TAKE i \in 1..Len(messages)
        <4> PICK m : m = messages[i]
          OBVIOUS
        <4>1. m \in DisplayMessage /\ OnScreen(m)
          BY <3>3 DEF Screen
        <4> QED
          BY <1>2, <2>3, <4>1, SentOnScreen
      <3>5. messages = <<>>
        <4>1. Len(messages) = 0
          BY <3>3, <3>4
        <4> QED
          BY <4>1 DEF Screen
      <3> QED
        BY <2>1, <3>2, <3>5, EmptyScreen
    <2> QED
      BY <1>2, <2>2, <2>3
  <1> QED
    BY <1>1, <1>2

\* A message is sent: it appears with an empty reply.
LEMMA LocalMessages ==
    ASSUME NEW t \in Turns, NEW u, u = Local(t, "user", "complete"),
           NEW a, a = Local(t, "assistant", "streaming")
    PROVE  /\ u \in DisplayMessage /\ u.turn = t /\ u.role = "user" /\ u.local
           /\ u.text = <<>> /\ u.status = "complete"
           /\ a \in DisplayMessage /\ a.turn = t /\ a.role = "assistant" /\ a.local
           /\ a.text = <<>> /\ a.status = "streaming"
  <1>1. <<>> \in Seq(Pieces)
    OBVIOUS
  <1> QED
    BY <1>1 DEF Local, DisplayMessage

LEMMA DistinctWith ==
    ASSUME NEW ms \in Seq(DisplayMessage), Distinct(ms), NEW u \in DisplayMessage, NEW a \in DisplayMessage,
           u.turn = a.turn, u.role # a.role, \A i \in 1..Len(ms) : ms[i].turn # u.turn
    PROVE  /\ ms \o <<u, a>> \in Seq(DisplayMessage) /\ Distinct(ms \o <<u, a>>)
           /\ \A i \in 1..Len(ms \o <<u, a>>) :
                (ms \o <<u, a>>)[i] \in {u, a} \/ \E k \in 1..Len(ms) : (ms \o <<u, a>>)[i] = ms[k]
  <1>a. PICK new : new = <<u, a>>
    OBVIOUS
  <1>b. PICK ms2 : ms2 = ms \o new
    OBVIOUS
  <1>1. new \in Seq(DisplayMessage) /\ Len(new) = 2 /\ new[1] = u /\ new[2] = a
    BY <1>a
  <1>2. /\ ms2 \in Seq(DisplayMessage) /\ Len(ms2) = Len(ms) + 2 /\ Len(ms) \in Nat
        /\ \A i \in 1..(Len(ms) + 2) :
             ms2[i] = IF i <= Len(ms) THEN ms[i] ELSE new[i - Len(ms)]
    <2>1. /\ ms \o new \in Seq(DisplayMessage) /\ Len(ms \o new) = Len(ms) + Len(new)
          /\ \A i \in 1..Len(ms) + Len(new) :
               (ms \o new)[i] = IF i <= Len(ms) THEN ms[i] ELSE new[i - Len(ms)]
      BY <1>1, ConcatProperties
    <2>2. Len(ms) \in Nat
      OBVIOUS
    <2> QED
      BY <1>1, <1>b, <2>1, <2>2
  <1>c. PICK n : n = Len(ms)
    OBVIOUS
  <1>3. \A i \in 1..(n + 2) : i \in 1..n \/ i = n + 1 \/ i = n + 2
    BY <1>2, <1>c
  <1>4. \A i \in 1..n : ms2[i] = ms[i]
    BY <1>2, <1>c
  <1>5. ms2[n + 1] = u /\ ms2[n + 2] = a
    <2>1. n + 1 \in 1..(n + 2) /\ ~(n + 1 <= n) /\ (n + 1) - n = 1
      BY <1>2, <1>c
    <2>2. n + 2 \in 1..(n + 2) /\ ~(n + 2 <= n) /\ (n + 2) - n = 2
      BY <1>2, <1>c
    <2> QED
      BY <1>1, <1>2, <1>c, <2>1, <2>2
  <1>6. ASSUME NEW i \in 1..(n + 2) PROVE ms2[i] \in {u, a} \/ \E k \in 1..n : ms2[i] = ms[k]
    BY <1>3, <1>4, <1>5
  <1>7. Distinct(ms2)
    <2>1. ASSUME NEW i \in 1..n, NEW j \in 1..n, i # j
          PROVE  ms2[i].turn # ms2[j].turn \/ ms2[i].role # ms2[j].role
      BY <1>4, <1>c, <2>1 DEF Distinct
    <2>2. \A i \in 1..n : ms2[i].turn # u.turn
      BY <1>4, <1>c
    <2>3. ASSUME NEW i \in 1..(n + 2), NEW j \in 1..(n + 2), i # j
          PROVE  ms2[i].turn # ms2[j].turn \/ ms2[i].role # ms2[j].role
      <3>1. CASE i \in 1..n /\ j \in 1..n
        BY <2>1, <2>3, <3>1
      <3>2. CASE i \in 1..n /\ j \in {n + 1, n + 2}
        BY <1>5, <2>2, <3>2
      <3>3. CASE j \in 1..n /\ i \in {n + 1, n + 2}
        BY <1>5, <2>2, <3>3
      <3>4. CASE i \in {n + 1, n + 2} /\ j \in {n + 1, n + 2}
        BY <1>5, <2>3, <3>4
      <3> QED
        BY <1>3, <3>1, <3>2, <3>3, <3>4
    <2> QED
      BY <1>2, <1>c, <2>3 DEF Distinct
  <1> QED
    BY <1>a, <1>b, <1>c, <1>2, <1>6, <1>7

LEMMA SendingScreen ==
    ASSUME IInv, Streams, Screen, Loading, NEW t \in Turns, HandleSend(t)
    PROVE  Screen' /\ Loading'
  <1>1. /\ fetch[t] = "unsent" /\ ~generating
        /\ messages' = messages \o <<Local(t, "user", "complete"),
                                     Local(t, "assistant", "streaming")>>
        /\ abortRef' = t
        /\ posted' = [posted EXCEPT ![t] = [tenant |-> tenantId, conv |-> selectedId]]
        /\ fetch' = [fetch EXCEPT ![t] = "open"]
        /\ reply' = [reply EXCEPT ![t] = "asked"]
        /\ UNCHANGED <<tenantId, selectedId, load, handled>>
    BY DEF HandleSend, MaySend, app, log
  <1>2. /\ fetch \in [Turns -> {"unsent", "open", "over"}]
        /\ posted \in [Turns -> [tenant : TenantIds, conv : Convs \cup {NoConv}]]
        /\ abortRef = 0
    BY <1>1 DEF IInv, OneStream
  <1>3. /\ fetch'[t] = "open" /\ posted'[t].tenant = tenantId /\ posted'[t].conv = selectedId
        /\ \A v \in Turns : v # t => /\ fetch'[v] = fetch[v] /\ posted'[v] = posted[v]
                                     /\ reply'[v] = reply[v]
    BY <1>1, <1>2 DEF Streams
  <1>4. handled'[t] = <<>> /\ reply[t] = "none"
    BY <1>1 DEF Streams, Sent
  <1>u. PICK u : u = Local(t, "user", "complete")
    OBVIOUS
  <1>a. PICK a : a = Local(t, "assistant", "streaming")
    OBVIOUS
  <1>5. /\ u \in DisplayMessage /\ u.turn = t /\ u.role = "user" /\ u.local
        /\ u.text = <<>> /\ u.status = "complete"
        /\ a \in DisplayMessage /\ a.turn = t /\ a.role = "assistant" /\ a.local
        /\ a.text = <<>> /\ a.status = "streaming"
    BY <1>u, <1>a, LocalMessages
  <1>6. messages \in Seq(DisplayMessage) /\ Distinct(messages)
    BY DEF Screen
  <1>7. \A i \in 1..Len(messages) : messages[i] \in DisplayMessage /\ messages[i].turn # t
    <2> TAKE i \in 1..Len(messages)
    <2> PICK m : m = messages[i]
      OBVIOUS
    <2>1. m \in DisplayMessage /\ OnScreen(m)
      BY <1>6 DEF Screen
    <2> QED
      BY <1>1, <2>1 DEF OnScreen
  <1>b. PICK ms : ms = messages \o <<u, a>>
    OBVIOUS
  <1>8. /\ ms \in Seq(DisplayMessage) /\ Distinct(ms)
        /\ \A i \in 1..Len(ms) : ms[i] \in {u, a} \/ \E k \in 1..Len(messages) : ms[i] = messages[k]
    <2>1. /\ u \in DisplayMessage /\ a \in DisplayMessage /\ u.turn = a.turn /\ u.role # a.role
          /\ \A i \in 1..Len(messages) : messages[i].turn # u.turn
      BY <1>5, <1>7
    <2> QED
      BY <1>b, <1>6, <2>1, DistinctWith
  <1>9. OnScreen(u)'
    BY <1>1, <1>3, <1>5 DEF OnScreen
  <1>10. OnScreen(a)'
    <2>1. Reply(a, <<>>)
      <3>1. Range(<<>>) = {}
        BY DEF Range
      <3> QED
        BY <1>5, <3>1, NoTexts DEF Reply
    <2> QED
      BY <1>1, <1>3, <1>4, <1>5, <2>1 DEF OnScreen
  <1>11. ASSUME NEW k \in 1..Len(messages), NEW m, m = messages[k] PROVE OnScreen(m)'
    <2>1. m \in DisplayMessage /\ OnScreen(m) /\ m.turn # t
      BY <1>7, <1>11 DEF Screen
    <2>2. m.turn \in Turns /\ m.turn # 0
      BY <2>1, BrowserAssumption DEF DisplayMessage, Turns
    <2> QED
      BY <1>1, <1>2, <1>3, <2>1, <2>2, MessageStays DEF OnScreen
  <1>12. \A m \in DisplayMessage : (\E i \in 1..Len(ms) : ms[i] = m) => OnScreen(m)'
    BY <1>8, <1>9, <1>10, <1>11
  <1>13. Screen'
    BY <1>1, <1>u, <1>a, <1>b, <1>8, <1>12, NewScreen
  <1>14. Loading'
    <2>1. \A v \in Turns : Accepted(v) => Accepted(v)' /\ posted'[v] = posted[v]
      BY <1>3, <1>4 DEF Accepted
    <2> QED
      BY <1>1, <2>1, LoadingStays
  <1> QED
    BY <1>13, <1>14

\* The server answers or writes: only where it is with a turn changes.
LEMMA ServingScreen ==
    ASSUME IInv, Streams, Screen, Loading, NEW t \in Turns,
           Serve(t) \/ \E e \in {Text(NextPiece(t)), Done, Error} : Emit(t, e)
    PROVE  Screen' /\ Loading'
  <1>1. UNCHANGED <<messages, selectedId, tenantId, fetch, posted, handled, abortRef, load>>
    BY DEF Serve, Accept, Refuse, Close, Emit, app, chat, stream, log
  <1>2. \/ reply[t] = "asked" /\ \E r : reply' = [reply EXCEPT ![t] = r]
        \/ /\ reply[t] = "answering"
           /\ \E end \in {"stored", "closed"} : reply' = [reply EXCEPT ![t] = end]
        \/ UNCHANGED reply
    BY DEF Serve, Accept, Refuse, Close, Emit, server
  <1>3. \A v \in Turns : /\ Accepted(v) => Accepted(v)'
                         /\ reply[v] \in {"stored", "closed"} => reply'[v] \in {"stored", "closed"}
    BY <1>2 DEF Streams, Accepted
  <1>4. Screen'
    BY <1>1, <1>3, ScreenStays
  <1>5. Loading'
    BY <1>1, <1>3, LoadingStays
  <1> QED
    BY <1>4, <1>5

\* A load is read, shown, or fails.
LEMMA LoadingScreen ==
    ASSUME IInv, Streams, Screen, Loading, LoadRead \/ LoadAnswered \/ LoadFails
    PROVE  Screen' /\ Loading'
  <1>1. UNCHANGED <<selectedId, tenantId, fetch, posted, handled, abortRef, reply>>
    BY DEF LoadRead, LoadAnswered, LoadFails, app, stream, log, server
  <1>2. CASE LoadRead
    <2>1. UNCHANGED messages /\ load = Asked /\ Allowed(tenantId, selectedId)
      BY <1>2 DEF LoadRead
    <2> PICK rows : rows = Rows(selectedId)
      OBVIOUS
    <2>2. load' = [step |-> "read", rows |-> rows]
      BY <1>2 DEF LoadRead
    <2>3. /\ rows \in Seq(DisplayMessage) /\ Distinct(rows)
          /\ \A i \in 1..Len(rows) : RowGood(rows[i], selectedId)
      BY RowsOfConversation
    <2>4. \A m \in DisplayMessage :
            (\E i \in 1..Len(rows) : rows[i] = m) => RowGood(m, selectedId)'
      BY <1>1, <2>3 DEF RowGood, Accepted
    <2>5. selectedId # NoConv
      BY <2>1 DEF Loading, Asked, NoLoad
    <2>6. Loading'
      <3>1. load'.step = "read" /\ load'.rows = rows
        BY <2>2
      <3> QED
        BY <1>1, <2>1, <2>3, <2>4, <2>5, <3>1 DEF Loading, Allowed, Distinct
    <2>7. Screen'
      BY <1>1, <2>1, ScreenStays
    <2> QED
      BY <2>6, <2>7
  <1>3. CASE LoadAnswered
    <2> PICK rows : rows = load.rows
      OBVIOUS
    <2>1. load.step = "read" /\ messages' = rows /\ load' = NoLoad
      BY <1>3 DEF LoadAnswered
    <2>2. Loading'
      BY <2>1, NewLoad
    <2>3. rows \in Seq(DisplayMessage) /\ Distinct(rows) /\ Allowed(tenantId, selectedId)
      BY <2>1 DEF Loading
    <2>4. ASSUME NEW m \in DisplayMessage, \E i \in 1..Len(rows) : rows[i] = m
          PROVE  OnScreen(m)'
      <3>1. RowGood(m, selectedId) /\ m.turn \in Turns
        BY <2>1, <2>4 DEF Loading, DisplayMessage
      <3>2. fetch[m.turn] # "unsent"
        BY <3>1 DEF Streams, Sent, RowGood, Accepted
      <3> QED
        BY <1>1, <2>3, <3>1, <3>2 DEF OnScreen, RowGood, Allowed
    <2>5. Screen'
      BY <2>1, <2>3, <2>4, NewScreen
    <2> QED
      BY <2>2, <2>5
  <1>4. CASE LoadFails
    <2>1. UNCHANGED messages /\ load' = NoLoad
      BY <1>4 DEF LoadFails
    <2> QED
      BY <1>1, <2>1, NewLoad, ScreenStays
  <1> QED
    BY <1>2, <1>3, <1>4

\* What the catch block leaves of the messages.
LEMMA Caught ==
    ASSUME NEW ms \in Seq(DisplayMessage), NEW ms2 \in Seq(DisplayMessage), NEW t,
           Patched(ms, ms2, t), NEW given,
           NEW before, \A i \in 1..Len(ms) :
              IsReply(ms[i], t) /\ Reply(ms[i], before) => Reply(ms2[i], given)
    PROVE  /\ Patched(ms, Mark(ms2, t, "interrupted"), t)
           /\ \A i \in 1..Len(ms) : IsReply(ms[i], t) /\ Reply(ms[i], before) =>
                 /\ Reply(Mark(ms2, t, "interrupted")[i], given)
                 /\ Mark(ms2, t, "interrupted")[i].status = "interrupted"
  <1>a. PICK ms3 : ms3 = Mark(ms2, t, "interrupted")
    OBVIOUS
  <1>1. /\ Patched(ms2, ms3, t)
        /\ \A i \in 1..Len(ms2) : IsReply(ms2[i], t) =>
              ms3[i].status = "interrupted" /\ ms3[i].text = ms2[i].text
    BY <1>a, Marking
  <1>2. Patched(ms, ms3, t) /\ \A i \in 1..Len(ms) : IsReply(ms[i], t) <=> IsReply(ms2[i], t)
    BY <1>1, PatchedTwice
  <1>3. Len(ms2) = Len(ms)
    BY DEF Patched
  <1>4. ASSUME NEW i \in 1..Len(ms), IsReply(ms[i], t), Reply(ms[i], before)
        PROVE  Reply(ms3[i], given) /\ ms3[i].status = "interrupted"
    <2>1. Reply(ms2[i], given)
      BY <1>4
    <2>2. ms3[i].status = "interrupted" /\ ms3[i].text = ms2[i].text
      BY <1>1, <1>2, <1>3, <1>4
    <2> QED
      BY <2>1, <2>2 DEF Reply
  <1> QED
    BY <1>a, <1>2, <1>4

\* Chat takes what was given to it: the reply of the turn keeps up with it.
LEMMA TakingScreen ==
    ASSUME IInv, Streams, Screen, NEW t \in Turns, fetch[t] = "open",
           NEW events, NEW failed, Take(t, events, failed),
           NEW n \in 0..Len(emitted[t]), handled[t] = SubSeq(emitted[t], 1, n),
           NEW m \in n..Len(emitted[t]), events = SubSeq(emitted[t], n + 1, m),
           \A u \in Turns : fetch[u] # "unsent" => fetch'[u] # "unsent",
           failed \/ reply[t] \in {"stored", "closed"} \/ abortRef' = abortRef
    PROVE  Screen'
  <1>a. PICK es : es = emitted[t]
    OBVIOUS
  <1>b. PICK given : given = SubSeq(es, 1, m)
    OBVIOUS
  <1>c. PICK before : before = SubSeq(es, 1, n)
    OBVIOUS
  <1>d. PICK shown : shown = HandleAll(t, events)
    OBVIOUS
  <1>1. t \in mine /\ abortRef = t
    BY DEF IInv, Running
  <1>2. /\ handled' = [handled EXCEPT ![t] = @ \o events]
        /\ messages' = IF failed THEN Mark(shown, t, "interrupted") ELSE shown
        /\ UNCHANGED <<tenantId, selectedId, posted, reply>>
    BY <1>d, <1>1 DEF Take, app, server
  <1>3. es \in Seq(Event) /\ messages \in Seq(DisplayMessage) /\ Distinct(messages)
    BY <1>a DEF Streams, Screen
  <1>4. /\ handled'[t] = given
        /\ \A u \in Turns : u # t => handled'[u] = handled[u]
    <2>1. before \o events = given
      BY <1>a, <1>b, <1>c, <1>3, MoreIsGiven
    <2>2. handled[t] = before
      BY <1>a, <1>c
    <2> QED
      BY <1>2, <2>1, <2>2 DEF Streams
  <1>5. /\ Patched(messages, shown, t)
        /\ \A i \in 1..Len(messages) :
             IsReply(messages[i], t) /\ Reply(messages[i], before) => Reply(shown[i], given)
    <2>1. /\ n \in 0..Len(es) /\ m \in n..Len(es) /\ events = SubSeq(es, n + 1, m)
          /\ Script(es)
      BY <1>a DEF Streams, Streamed
    <2> QED
      BY <1>b, <1>c, <1>d, <1>3, <2>1, AllHandled
  <1>6. PICK ms : ms = messages'
    OBVIOUS
  <1>7. /\ Patched(messages, ms, t)
        /\ \A i \in 1..Len(messages) : IsReply(messages[i], t) /\ Reply(messages[i], before) =>
             Reply(ms[i], given) /\ (failed => ms[i].status = "interrupted")
    <2>1. CASE failed
      <3>1. ms = Mark(shown, t, "interrupted")
        BY <1>2, <1>6, <2>1
      <3>2. shown \in Seq(DisplayMessage)
        BY <1>5 DEF Patched
      <3>3. /\ Patched(messages, Mark(shown, t, "interrupted"), t)
            /\ \A i \in 1..Len(messages) :
                 IsReply(messages[i], t) /\ Reply(messages[i], before) =>
                   /\ Reply(Mark(shown, t, "interrupted")[i], given)
                   /\ Mark(shown, t, "interrupted")[i].status = "interrupted"
        BY <1>3, <1>5, <3>2, Caught
      <3> QED
        BY <3>1, <3>3
    <2>2. CASE ~failed
      <3>1. ms = shown
        BY <1>2, <1>6, <2>2
      <3> QED
        BY <1>5, <2>2, <3>1
    <2> QED
      BY <2>1, <2>2
  <1>8. ms \in Seq(DisplayMessage) /\ Len(ms) = Len(messages) /\ Distinct(ms)
    BY <1>3, <1>7 DEF Patched, SameButReply, Distinct
  <1>9. ASSUME NEW i \in 1..Len(messages), NEW x, x = messages[i], NEW y, y = ms[i]
        PROVE  OnScreen(y)'
    <2>1. x \in DisplayMessage /\ OnScreen(x) /\ SameButReply(x, y)
      BY <1>3, <1>7, <1>9 DEF Screen, Patched
    <2>2. x.turn \in Turns /\ fetch'[x.turn] # "unsent"
      BY <2>1 DEF DisplayMessage, OnScreen
    <2>3. CASE IsReply(x, t)
      <3>1. Reply(x, before)
        BY <1>a, <1>c, <2>1, <2>3 DEF OnScreen, IsReply
      <3>2. Reply(y, given) /\ (failed => y.status = "interrupted")
        BY <1>7, <1>9, <2>3, <3>1
      <3>3. y.turn = t /\ y.local /\ y.role = "assistant"
        BY <2>1, <2>3 DEF SameButReply, IsReply
      <3>4. y.status = "streaming" => abortRef' = t \/ reply'[t] \in {"stored", "closed"}
        BY <1>1, <1>2, <3>2
      <3>5. posted[t].conv = selectedId /\ posted[t].tenant = tenantId /\ fetch'[t] # "unsent"
        BY <2>1, <2>2, <2>3 DEF OnScreen, IsReply
      <3> QED
        BY <1>2, <1>4, <3>2, <3>3, <3>4, <3>5 DEF OnScreen
    <2>4. CASE ~IsReply(x, t)
      <3>1. y = x
        BY <1>7, <1>9, <2>4 DEF Patched
      <3>2. x.local /\ x.role = "assistant" => x.turn # t
        BY <2>4 DEF IsReply
      <3>3. OnScreen(x)'
        BY <1>1, <1>2, <1>4, <2>1, <2>2, <3>2, MessageStays
      <3> QED
        BY <3>1, <3>3
    <2> QED
      BY <2>3, <2>4
  <1>10. \A y \in DisplayMessage : (\E i \in 1..Len(ms) : ms[i] = y) => OnScreen(y)'
    BY <1>8, <1>9
  <1> QED
    BY <1>6, <1>8, <1>10, NewScreen

LEMMA TakingLoad ==
    ASSUME Loading, NEW t, NEW events, NEW failed, Take(t, events, failed)
    PROVE  Loading'
  <1>1. UNCHANGED <<load, selectedId, tenantId, posted, reply>>
    BY DEF Take, app, server
  <1>2. \A u \in Turns : Accepted(u) => Accepted(u)' /\ posted'[u] = posted[u]
    BY <1>1 DEF Accepted
  <1> QED
    BY <1>1, <1>2, LoadingStays

LEMMA ReadingScreen ==
    ASSUME IInv, Streams, Screen, Loading, NEW t \in Turns, NEW n \in 1..Len(wire[t]), Read(t, n)
    PROVE  Screen' /\ Loading'
  <1>1. fetch[t] = "open"
    BY DEF Read
  <1>2. PICK m1 \in 0..Len(emitted[t]) : \E m2 \in m1..Len(emitted[t]) : \E p2 :
             ReadsOn(t, n, m1, m2, p2)
    BY <1>1, ReadGives
  <1>a. PICK m2 \in m1..Len(emitted[t]) : \E p2 : ReadsOn(t, n, m1, m2, p2)
    BY <1>2
  <1>b. PICK p2 : ReadsOn(t, n, m1, m2, p2)
    BY <1>a
  <1>c. PICK events : events = SubSeq(emitted[t], m1 + 1, m2)
    OBVIOUS
  <1>d. PICK fed : fed = Feed(parser[t], SubSeq(wire[t], 1, n))
    OBVIOUS
  <1>3. handled[t] = SubSeq(emitted[t], 1, m1) /\ fed = During(p2, events)
    BY <1>b, <1>c, <1>d DEF ReadsOn
  <1>4. fed.events = events /\ fed.failed = FALSE
    BY <1>3 DEF During
  <1>5. Take(t, events, FALSE)
    <2>1. Take(t, fed.events, fed.failed)
      BY <1>d DEF Read
    <2> QED
      BY <1>4, <2>1
  <1>6. UNCHANGED <<fetch, abortRef>>
    BY <1>d, <1>4 DEF Read
  <1>7. Screen'
    BY <1>c, <1>1, <1>3, <1>5, <1>6, TakingScreen
  <1>8. Loading'
    BY <1>5, TakingLoad
  <1> QED
    BY <1>7, <1>8

LEMMA StoppingScreen ==
    ASSUME IInv, Streams, Screen, Loading, NEW t \in Turns, ReadDone(t) \/ ReadFails(t)
    PROVE  Screen' /\ Loading'
  <1>a. PICK es : es = emitted[t]
    OBVIOUS
  <1>b. PICK p : p = parser[t]
    OBVIOUS
  <1>c. PICK w : w = wire[t]
    OBVIOUS
  <1>1. fetch[t] = "open" /\ Finally(t)
    BY DEF ReadDone, ReadFails
  <1>2. es \in Seq(Event) /\ w \in Seq(Bytes)
    BY <1>a, <1>c DEF Streams
  <1>3. PICK n \in 0..Len(es) : handled[t] = SubSeq(es, 1, n) /\ Framed(p, n, es, w)
    BY <1>a, <1>b, <1>c, <1>1 DEF Streams, Streamed
  <1>4. \A u \in Turns : fetch[u] # "unsent" => fetch'[u] # "unsent"
    <2>1. fetch' = [fetch EXCEPT ![t] = "over"] /\ fetch \in [Turns -> {"unsent", "open", "over"}]
      BY <1>1 DEF Finally, EndFetch, IInv
    <2> QED
      BY <2>1
  <1>5. CASE ReadDone(t)
    <2>1. PICK m \in n..Len(es) : Flush(p).events = SubSeq(es, n + 1, m)
      <3>1. es \in Seq(Event)
        BY <1>2
      <3>2. w \in Seq(Bytes)
        BY <1>2
      <3>3. Framed(p, n, es, w)
        BY <1>3
      <3> QED
        BY Zenon, <3>1, <3>2, <3>3, FramedEnds
    <2>2. /\ Take(t, Flush(p).events, Flush(p).failed)
          /\ reply[t] \in {"stored", "closed"}
      BY <1>b, <1>5 DEF ReadDone
    <2>3. Screen'
      BY <1>a, <1>1, <1>3, <1>4, <2>1, <2>2, TakingScreen
    <2> QED
      BY <2>2, <2>3, TakingLoad
  <1>6. CASE ReadFails(t)
    <2>1. Take(t, <<>>, TRUE)
      BY <1>6 DEF ReadFails
    <2>2. n \in n..Len(es) /\ <<>> = SubSeq(es, n + 1, n)
      BY <1>2, SubSeqEmpty
    <2>3. Screen'
      BY <1>a, <1>1, <1>3, <1>4, <2>1, <2>2, TakingScreen
    <2> QED
      BY <2>1, <2>3, TakingLoad
  <1> QED
    BY <1>5, <1>6

LEMMA InitScreen == Init => Screen /\ Loading
  <1> SUFFICES ASSUME Init PROVE Screen /\ Loading
    OBVIOUS
  <1>1. messages = <<>> /\ load = NoLoad
    BY DEF Init
  <1>2. <<>> \in Seq(DisplayMessage) /\ Len(<<>>) = 0
    OBVIOUS
  <1>3. Screen
    BY <1>1, <1>2 DEF Screen, Distinct
  <1>4. Loading
    BY <1>1, <1>2 DEF Loading, NoLoad
  <1> QED
    BY <1>3, <1>4

LEMMA NextScreen == IInv /\ Streams /\ Screen /\ Loading /\ [Next]_vars => Screen' /\ Loading'
  <1> SUFFICES ASSUME IInv, Streams, Screen, Loading, [Next]_vars PROVE Screen' /\ Loading'
    OBVIOUS
  <1>1. ASSUME NEW c, SetSelectedId(c), UNCHANGED <<posted, reply>>,
               UNCHANGED tenantId \/ c = NoConv
        PROVE  Screen' /\ Loading'
    BY <1>1, SelectingScreen
  <1>2. CASE UNCHANGED <<messages, selectedId, tenantId, fetch, posted, handled, abortRef, reply, load>>
    <2>1. \A t \in Turns : Accepted(t) => Accepted(t)' /\ posted'[t] = posted[t]
      BY <1>2 DEF Accepted
    <2> QED
      BY <1>2, <2>1, ScreenStays, LoadingStays
  <1>3. CASE User
    <2>1. ASSUME NEW t \in TenantIds, SetTenantId(t) PROVE Screen' /\ Loading'
      BY <1>1, <2>1 DEF SetTenantId, server
    <2>2. CASE CreateConversation
      BY <1>2, <2>2 DEF CreateConversation, chat, stream, log, server
    <2>3. ASSUME NEW c \in Convs, Select(c) PROVE Screen' /\ Loading'
      BY <1>1, <2>3 DEF Select, server
    <2>4. ASSUME NEW t \in Turns, HandleSend(t) PROVE Screen' /\ Loading'
      BY <2>4, SendingScreen
    <2>5. CASE HandleStop
      BY <2>5, StoppingScreen DEF HandleStop, IInv, OneStream
    <2> QED
      BY <1>3, <2>1, <2>2, <2>3, <2>4, <2>5 DEF User
  <1>4. CASE Answers
    <2>1. ASSUME NEW i \in 1..Len(lists), ListAnswered(i) PROVE Screen' /\ Loading'
      BY <1>1, <2>1 DEF ListAnswered, server
    <2>2. ASSUME NEW i \in 1..Len(lists), ListFails(i) PROVE Screen' /\ Loading'
      BY <1>2, <2>2 DEF ListFails, chat, stream, log, server
    <2>3. ASSUME NEW i \in 1..Len(creates), CreateFails(i) PROVE Screen' /\ Loading'
      BY <1>2, <2>3 DEF CreateFails, chat, stream, log, server
    <2>4. ASSUME NEW i \in 1..Len(creates), NEW c \in Convs, CreateAnswered(i, c)
          PROVE  Screen' /\ Loading'
      BY <1>1, <2>4 DEF CreateAnswered
    <2> QED
      BY <1>4, <2>1, <2>2, <2>3, <2>4, LoadingScreen DEF Answers
  <1>5. ASSUME NEW t \in Turns,
               Serve(t) \/ \E e \in {Text(NextPiece(t)), Done, Error} : Emit(t, e)
        PROVE  Screen' /\ Loading'
    BY <1>5, ServingScreen
  <1>6. ASSUME NEW t \in Turns, Receive(t) \/ ReadFails(t) PROVE Screen' /\ Loading'
    BY <1>6, ReadingScreen, StoppingScreen DEF Receive
  <1>7. CASE UNCHANGED vars
    BY <1>2, <1>7 DEF vars, app, chat, stream, log, server
  <1> QED
    BY <1>3, <1>4, <1>5, <1>6, <1>7 DEF Next

-----------------------------------------------------------------------------
(* App's lists and requests.                                               *)

LEMMA RemovalIsTyped ==
    ASSUME NEW S, NEW s \in Seq(S), NEW i \in 1..Len(s)
    PROVE  RemoveAt(s, i) \in Seq(S)
  <1>1. Len(s) \in Nat /\ \A k \in 1..Len(s) : s[k] \in S
    OBVIOUS
  <1>2. SubSeq(s, 1, i - 1) \in Seq(S)
    <2>1. \A k \in 1..(i - 1) : s[k] \in S
      BY <1>1
    <2>2. 1 \in Int /\ i - 1 \in Int
      BY <1>1
    <2> QED
      BY <2>1, <2>2, SubSeqProperties
  <1>3. SubSeq(s, i + 1, Len(s)) \in Seq(S)
    <2>1. \A k \in (i + 1)..Len(s) : s[k] \in S
      BY <1>1
    <2>2. i + 1 \in Int /\ Len(s) \in Int
      BY <1>1
    <2> QED
      BY <2>1, <2>2, SubSeqProperties
  <1> QED
    BY <1>2, <1>3, ConcatProperties DEF RemoveAt

LEMMA NextDesk == IInv /\ Desk /\ [Next]_vars => Desk'
  <1> SUFFICES ASSUME IInv, Desk, [Next]_vars PROVE Desk'
    OBVIOUS
  <1>a. ASSUME NEW c, SetSelectedId(c) PROVE selectedId' = c
    BY <1>a DEF SetSelectedId
  <1>1. CASE UNCHANGED <<conversations, selectedId, loading, lists, creates, asked, known>>
    BY <1>1 DEF Desk
  <1>2. CASE User
    <2>1. ASSUME NEW t \in TenantIds, SetTenantId(t) PROVE Desk'
      <3>1. /\ asked < MaxRequests /\ asked' = asked + 1 /\ lists' = Append(lists, t)
            /\ loading' = TRUE /\ selectedId' = NoConv /\ UNCHANGED <<conversations, creates, known>>
        BY <1>a, <2>1 DEF SetTenantId, server
      <3>2. asked' \in 0..MaxRequests
        BY <3>1, BrowserAssumption DEF Desk
      <3>3. lists' \in Seq(TenantIds)
        BY <3>1, AppendProperties DEF Desk
      <3> QED
        BY <3>1, <3>2, <3>3 DEF Desk
    <2>2. CASE CreateConversation
      <3>1. /\ asked < MaxRequests /\ asked' = asked + 1 /\ creates' = Append(creates, tenantId)
            /\ loading' = TRUE /\ UNCHANGED <<conversations, selectedId, lists, known>>
        BY <2>2 DEF CreateConversation, server
      <3>2. asked' \in 0..MaxRequests
        BY <3>1, BrowserAssumption DEF Desk
      <3>3. creates' \in Seq(TenantIds)
        BY <3>1, AppendProperties DEF Desk, IInv
      <3> QED
        BY <3>1, <3>2, <3>3 DEF Desk
    <2>3. ASSUME NEW c \in Convs, Select(c) PROVE Desk'
      BY <1>a, <2>3 DEF Select, Desk, requests, server
    <2>4. ASSUME NEW t \in Turns, HandleSend(t) PROVE Desk'
      BY <1>1, <2>4 DEF HandleSend, app, requests
    <2>5. CASE HandleStop
      BY <1>1, <2>5 DEF HandleStop, ReadFails, Take, app, requests, server
    <2> QED
      BY <1>2, <2>1, <2>2, <2>3, <2>4, <2>5 DEF User
  <1>3. CASE Answers
    <2>1. ASSUME NEW i \in 1..Len(lists), ListAnswered(i) PROVE Desk'
      <3>1. /\ conversations' \subseteq known /\ lists' = RemoveAt(lists, i) /\ loading' = FALSE
            /\ UNCHANGED <<creates, asked, known>>
        BY <2>1 DEF ListAnswered, server
      <3>2. selectedId' \in known \cup {NoConv}
        BY <1>a, <2>1, <3>1 DEF ListAnswered
      <3>3. lists' \in Seq(TenantIds)
        BY <3>1, RemovalIsTyped DEF Desk
      <3> QED
        BY <3>1, <3>2, <3>3 DEF Desk
    <2>2. ASSUME NEW i \in 1..Len(lists), ListFails(i) PROVE Desk'
      <3>1. /\ conversations' = {} /\ lists' = RemoveAt(lists, i) /\ loading' = FALSE
            /\ UNCHANGED <<selectedId, creates, asked, known>>
        BY <2>2 DEF ListFails, server
      <3>2. lists' \in Seq(TenantIds)
        BY <3>1, RemovalIsTyped DEF Desk
      <3> QED
        BY <3>1, <3>2 DEF Desk
    <2>3. ASSUME NEW i \in 1..Len(creates), CreateFails(i) PROVE Desk'
      <3>1. /\ creates' = RemoveAt(creates, i) /\ loading' = FALSE
            /\ UNCHANGED <<conversations, selectedId, lists, asked, known>>
        BY <2>3 DEF CreateFails, server
      <3>2. creates' \in Seq(TenantIds)
        BY <3>1, RemovalIsTyped DEF Desk
      <3> QED
        BY <3>1, <3>2 DEF Desk
    <2>4. ASSUME NEW i \in 1..Len(creates), NEW c \in Convs, CreateAnswered(i, c) PROVE Desk'
      <3>1. /\ creates' = RemoveAt(creates, i) /\ loading' = FALSE
            /\ known' = known \cup {c} /\ conversations' = conversations \cup {c}
            /\ selectedId' = c /\ UNCHANGED <<lists, asked>>
        BY <1>a, <2>4 DEF CreateAnswered
      <3>2. creates' \in Seq(TenantIds)
        BY <3>1, RemovalIsTyped DEF Desk
      <3> QED
        BY <3>1, <3>2 DEF Desk
    <2>5. CASE LoadRead \/ LoadAnswered \/ LoadFails
      BY <1>1, <2>5 DEF LoadRead, LoadAnswered, LoadFails, app, requests, server
    <2> QED
      BY <1>3, <2>1, <2>2, <2>3, <2>4, <2>5 DEF Answers
  <1>4. ASSUME NEW t \in Turns, Serve(t) \/ \E e \in {Text(NextPiece(t)), Done, Error} : Emit(t, e)
        PROVE  Desk'
    BY <1>1, <1>4 DEF Serve, Accept, Refuse, Close, Emit, app, requests, server
  <1>5. ASSUME NEW t \in Turns, Receive(t) \/ ReadFails(t) PROVE Desk'
    <2>1. PICK events, failed : Take(t, events, failed)
      BY <1>5 DEF Receive, Read, ReadDone, ReadFails
    <2> QED
      BY <1>1, <2>1 DEF Take, app, requests, server
  <1>6. CASE UNCHANGED vars
    BY <1>1, <1>6 DEF vars, app, requests, server
  <1> QED
    BY <1>2, <1>3, <1>4, <1>5, <1>6 DEF Next

LEMMA InitDesk == Init => Desk
  <1> SUFFICES ASSUME Init PROVE Desk
    OBVIOUS
  <1>1. /\ conversations = {} /\ selectedId = NoConv /\ loading = TRUE /\ lists = <<tenantId>>
        /\ creates = <<>> /\ asked = 1 /\ tenantId \in TenantIds
    BY BrowserAssumption DEF Init
  <1>2. lists \in Seq(TenantIds) /\ creates \in Seq(TenantIds)
    BY <1>1
  <1>3. asked \in 0..MaxRequests
    BY <1>1, BrowserAssumption
  <1> QED
    BY <1>1, <1>2, <1>3 DEF Desk

\* What is on the screen is what the streams gave, the load read and the
\* selection allows.
THEOREM ScreenHolds == Spec => [](IInv /\ Streams /\ Screen /\ Loading)
  <1>1. Init => Screen /\ Loading
    BY InitScreen
  <1>2. IInv /\ Streams /\ Screen /\ Loading /\ [Next]_vars => Screen' /\ Loading'
    BY NextScreen
  <1> QED
    BY <1>1, <1>2, StreamsHold, PTL DEF Spec

\* Every variable has its type, Chat is generating exactly when it holds a
\* controller to abort, and shows each message of a turn once, however loads,
\* sends and answers overlap (Chat.tsx:57-98).
THEOREM TypeCorrect == Spec => []TypeOK
  <1>1. Spec => []Desk
    <2>1. Init => Desk
      BY InitDesk
    <2>2. IInv /\ Desk /\ [Next]_vars => Desk'
      BY NextDesk
    <2> QED
      BY <2>1, <2>2, Invariance, PTL DEF Spec
  <1>2. IInv /\ Streams /\ Screen /\ Loading /\ Desk => TypeOK
    <2> SUFFICES ASSUME IInv, Streams, Screen, Loading, Desk PROVE TypeOK
      OBVIOUS
    <2>1. load.step \in {"none", "asked", "read"} /\ load.rows \in Seq(DisplayMessage)
      BY DEF Loading, NoLoad, Asked
    <2>2. messages \in Seq(DisplayMessage) /\ Distinct(messages)
      BY DEF Screen
    <2>3. /\ tenantId \in TenantIds /\ generating \in BOOLEAN
          /\ abortRef \in {0} \cup mine /\ mine \subseteq Turns
          /\ posted \in [Turns -> [tenant : TenantIds, conv : Convs \cup {NoConv}]]
          /\ fetch \in [Turns -> {"unsent", "open", "over"}]
          /\ known \subseteq Convs /\ (generating <=> abortRef # 0)
      BY DEF IInv, OneStream
    <2>4. /\ handled \in [Turns -> Seq(Event)] /\ emitted \in [Turns -> Seq(Event)]
          /\ reply \in [Turns -> {"none", "asked", "refused", "answering", "stored", "closed"}]
      BY DEF Streams
    <2> QED
      BY <2>1, <2>2, <2>3, <2>4 DEF TypeOK, Desk, Distinct
  <1> QED
    BY <1>1, <1>2, ScreenHolds, PTL

\* Whatever answer to an earlier tenant's or conversation's request comes last,
\* the messages on the screen are of the selected conversation, and text the
\* server sent is of the tenant in the field (App.tsx:31-41, Chat.tsx:36-49).
THEOREM ShownIsSelectedHolds == Spec => []ShownIsSelected
  <1>1. IInv /\ Streams /\ Screen /\ Loading => ShownIsSelected
    <2> SUFFICES ASSUME IInv, Streams, Screen, NEW i \in 1..Len(messages)
                 PROVE  /\ posted[messages[i].turn].conv = selectedId
                        /\ ~messages[i].local \/ messages[i].text # <<>>
                             => TenantOf[selectedId] = tenantId
      BY DEF ShownIsSelected
    <2>a. PICK m : m = messages[i]
      OBVIOUS
    <2>b. PICK t : t = m.turn
      OBVIOUS
    <2>1. m \in DisplayMessage /\ OnScreen(m) /\ t \in Turns
      <3>1. m \in DisplayMessage /\ OnScreen(m)
        BY <2>a DEF Screen
      <3> QED
        BY <2>b, <3>1 DEF DisplayMessage
    <2>2. posted[t].conv = selectedId
      BY <2>b, <2>1 DEF OnScreen
    <2>3. CASE ~m.local
      BY <2>a, <2>b, <2>1, <2>2, <2>3 DEF OnScreen, Allowed
    <2>4. CASE m.local /\ m.text # <<>>
      <3>1. m.role = "assistant" /\ m.text = Texts(handled[t]) /\ posted[t].tenant = tenantId
        BY <2>b, <2>1, <2>4 DEF OnScreen, Reply, DisplayMessage
      <3>2. handled[t] # <<>>
        BY <2>4, <3>1, NoTexts
      <3>3. emitted[t] # <<>>
        <4>1. PICK n \in 0..Len(emitted[t]) : handled[t] = SubSeq(emitted[t], 1, n)
          BY <2>1 DEF Streams, Streamed
        <4>2. emitted[t] = <<>> => n = 0
          BY <4>1
        <4> QED
          BY <3>2, <4>1, <4>2, SubSeqEmpty
      <3>4. Allowed(posted[t].tenant, posted[t].conv)
        BY <2>1, <3>3 DEF Streams, Sent
      <3> QED
        BY <2>a, <2>b, <2>2, <3>1, <3>4 DEF Allowed
    <2> QED
      BY <2>a, <2>b, <2>2, <2>3, <2>4
  <1> QED
    BY <1>1, ScreenHolds, PTL

\* After a done that comes after text the server writes no more text, so a
\* stream that has given both has given all the text there is.
LEMMA TextIsOver ==
    ASSUME Streams, NEW t \in Turns, Concluded(handled[t])
    PROVE  Texts(handled[t]) = Texts(emitted[t])
  <1>a. PICK es : es = emitted[t]
    OBVIOUS
  <1>1. es \in Seq(Event) /\ Len(es) \in Nat /\ Script(es)
    BY <1>a DEF Streams, Streamed
  <1>2. PICK n \in 0..Len(es) : handled[t] = SubSeq(es, 1, n)
    BY <1>a DEF Streams, Streamed
  <1>3. /\ Len(handled[t]) = n
        /\ \A k \in 1..n : handled[t][k] = es[k]
    BY <1>1, <1>2, StartOfEvents
  <1>4. PICK i \in 1..n, j \in 1..n : i < j /\ es[i].type = "text_delta" /\ es[j] = Done
    BY <1>3 DEF Concluded
  <1>5. \A k \in (n + 1)..Len(es) : es[k] = Error
    <2> SUFFICES ASSUME NEW k \in (n + 1)..Len(es) PROVE es[k] = Error
      OBVIOUS
    <2>1. i \in 1..Len(es) /\ j \in 1..Len(es) /\ k \in 1..Len(es) /\ j < k
      BY <1>1
    <2> QED
      BY <1>1, <1>4, <2>1 DEF Script
  <1>10. n + (Len(es) - n) = Len(es)
    <2>1. n \in Int /\ Len(es) \in Int
      BY <1>1
    <2> QED
      BY <2>1
  <1> DEFINE P(m) == n + m <= Len(es) => Texts(SubSeq(es, 1, n + m)) = Texts(handled[t])
             S == {m \in Nat : P(m)}
  <1>6. 0 \in S
    BY <1>1, <1>2
  <1>7. ASSUME NEW m \in Nat, m \in S PROVE m + 1 \in S
    <2> SUFFICES ASSUME n + (m + 1) <= Len(es)
                 PROVE  Texts(SubSeq(es, 1, n + (m + 1))) = Texts(handled[t])
      OBVIOUS
    <2>1. /\ n + m \in Nat /\ n + m \in 0..Len(es) /\ n + (m + 1) = (n + m) + 1
          /\ (n + m) + 1 \in (n + 1)..Len(es) /\ (n + m) + 1 \in 1..Len(es)
      BY <1>1
    <2>2. Texts(SubSeq(es, 1, n + m)) = Texts(handled[t])
      BY <1>7, <2>1
    <2>3. /\ SubSeq(es, 1, (n + m) + 1) = Append(SubSeq(es, 1, n + m), Error)
          /\ SubSeq(es, 1, n + m) \in Seq(Event)
      BY <1>1, <1>5, <2>1, StartGrows, StartOfEvents
    <2>4. Error \in Event /\ Error.type # "text_delta"
      BY DEF Event, Error
    <2>5. Texts(Append(SubSeq(es, 1, n + m), Error)) = Texts(SubSeq(es, 1, n + m))
      BY <2>3, <2>4, TextsOfMore
    <2> QED
      BY <2>1, <2>2, <2>3, <2>5
  <1>8. Len(es) - n \in S
    <2>1. Len(es) - n \in Nat
      BY <1>1
    <2> HIDE DEF S
    <2> QED
      BY <1>6, <1>7, <2>1, NatSetInduction
  <1>9. SubSeq(es, 1, Len(es)) = es
    BY <1>1, SubSeqFull
  <1> QED
    <2>1. P(Len(es) - n)
      BY <1>8
    <2>2. Texts(SubSeq(es, 1, n + (Len(es) - n))) = Texts(handled[t])
      BY <1>1, <1>10, <2>1
    <2> HIDE DEF P, S
    <2>3. SubSeq(es, 1, n + (Len(es) - n)) = SubSeq(es, 1, Len(es))
      BY <1>10
    <2> QED
      BY <1>a, <1>9, <2>2, <2>3, Zenon

\* The reply on the screen holds exactly the text Chat was given.  One shown as
\* complete was given a done and no error, and if the done came after text, it
\* holds all the text the server wrote (Chat.tsx:74-94).
THEOREM CompleteIsWholeHolds == Spec => []CompleteIsWhole
  <1>1. IInv /\ Streams /\ Screen /\ Loading => CompleteIsWhole
    <2> SUFFICES ASSUME Streams, Screen, NEW i \in 1..Len(messages), NEW m, m = messages[i],
                        NEW t, t = m.turn, m.role = "assistant"
                 PROVE  /\ m.local => m.text = Texts(handled[t])
                        /\ m.status = "complete" =>
                             /\ Done \in Range(handled[t]) /\ Error \notin Range(handled[t])
                             /\ Concluded(handled[t]) => m.text = Texts(emitted[t])
      BY DEF CompleteIsWhole
    <2>1. m \in DisplayMessage /\ OnScreen(m) /\ t \in Turns
      <3>1. m \in DisplayMessage /\ OnScreen(m)
        BY DEF Screen
      <3> QED
        BY <3>1 DEF DisplayMessage
    <2>2. m.local => Reply(m, handled[t])
      BY <2>1 DEF OnScreen
    <2>3. m.status = "complete" => m.local
      BY <2>1 DEF OnScreen
    <2>4. Concluded(handled[t]) => Texts(handled[t]) = Texts(emitted[t])
      BY <2>1, TextIsOver
    <2> QED
      BY <2>2, <2>3, <2>4 DEF Reply
  <1> QED
    BY <1>1, ScreenHolds, PTL

\* A reply is shown as still being written only while its stream runs, or if
\* the body ended of its own accord with neither a done nor an error
\* (Chat.tsx:79-98).
THEOREM NoCursorIsLeftHolds == Spec => []NoCursorIsLeft
  <1>1. IInv /\ Streams /\ Screen /\ Loading => NoCursorIsLeft
    <2> SUFFICES ASSUME Streams, Screen, NEW i \in 1..Len(messages), NEW m, m = messages[i],
                        NEW t, t = m.turn, m.status = "streaming"
                 PROVE  \/ abortRef = t
                        \/ /\ reply[t] \in {"stored", "closed"}
                           /\ Range(handled[t]) \cap {Done, Error} = {}
      BY DEF NoCursorIsLeft
    <2>1. m \in DisplayMessage /\ OnScreen(m)
      BY DEF Screen
    <2>2. m.local /\ m.role = "assistant"
      BY <2>1 DEF OnScreen, DisplayMessage
    <2>3. Reply(m, handled[t]) /\ (abortRef = t \/ reply[t] \in {"stored", "closed"})
      BY <2>1, <2>2 DEF OnScreen
    <2> QED
      BY <2>3 DEF Reply
  <1> QED
    BY <1>1, ScreenHolds, PTL
=============================================================================
