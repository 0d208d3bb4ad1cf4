--------------------------- MODULE ChatTurnProofs ---------------------------
(***************************************************************************)
(* Theorems about ChatTurn, for every set of models and providers, every   *)
(* fallback list, every number of retries and every length of reply.       *)
(***************************************************************************)
EXTENDS ChatTurn, TLAPS

\* The candidates are models, and there is at least the requested one.
LEMMA CandidatesAreModels ==
    /\ Len(candidate_ids) \in Nat \ {0}
    /\ \A i \in 1..Len(candidate_ids) : candidate_ids[i] \in Models
  <1>1. Fallbacks \in Seq(Models) /\ Requested \in Models
    BY TurnAssumption
  <1>2. candidate_ids \in Seq(Models)
    BY <1>1 DEF candidate_ids
  <1>3. Len(candidate_ids) = 1 + Len(Fallbacks)
    BY <1>1 DEF candidate_ids
  <1> QED
    BY <1>1, <1>2, <1>3

\* What an event of each type carries.
LEMMA EventShape ==
    ASSUME NEW e \in Event \cup {NoEvent}
    PROVE  /\ e # NoEvent => e \in Event
           /\ e.type = "text" => e.by \in Author \cup {Canned}
           /\ e = NoEvent <=> e.type = "none"
  BY DEF Event, NoEvent

\* A job in one of its steps is a job.
LEMMA JobShape ==
    ASSUME NEW j \in Job \cup {NoJob}
    PROVE  /\ j # NoJob => j \in Job
           /\ j.step # "none" => j \in Job
  BY DEF Job, NoJob

LEMMA EventsAreEvents ==
    /\ Sources \in Event
    /\ \A a \in Author \cup {Canned} :
          TextDelta(a) \in Event /\ UsageReport(a) \in Event /\ Done(a) \in Event
    /\ \A m \in Models : FallbackTo(m) \in Event
    /\ \A k \in ProviderErrorKind : Error(k) \in Event
  BY DEF Event, Sources, TextDelta, UsageReport, Done, FallbackTo, Error

LEMMA MeIsAuthor ==
    ASSUME TypeOK
    PROVE  Me \in Author /\ Model \in Models
  BY CandidatesAreModels DEF TypeOK, Me, Author, Model

\* What a turn would store is well formed.
LEMMA TurnJobShape ==
    ASSUME TypeOK, NEW st \in Status, NEW p \in BOOLEAN
    PROVE  TurnJob(st, p) \in Job
  <1>1. ProviderOf[final_model_id] \in Providers /\ Requested \in Models
    BY TurnAssumption DEF TypeOK
  <1>2. TurnJob(st, p).message \in Message
    BY DEF TypeOK, TurnJob, Message
  <1>3. TurnJob(st, p).record \in UsageRecord
    BY <1>1 DEF TypeOK, TurnJob, UsageRecord
  <1> QED
    BY <1>2, <1>3 DEF TurnJob, Job

LEMMA CannedJobShape == CannedJob \in Job
  <1>1. CannedJob.message \in Message
    BY TurnAssumption DEF CannedJob, Message, Status
  <1> QED
    BY <1>1 DEF CannedJob, Job

LEMMA JobStep ==
    ASSUME NEW j \in Job, NEW step \in {"message", "usage", "commit"}
    PROVE  [j EXCEPT !.step = step] \in Job
  BY DEF Job

-----------------------------------------------------------------------------
(* Type correctness.                                                       *)

LEMMA TypeInit == Init => TypeOK
  <1> SUFFICES ASSUME Init PROVE TypeOK
    OBVIOUS
  <1>1. 1 \in 1..Len(candidate_ids) /\ Requested \in Models /\ 0 \in 0..MaxRetries
    BY CandidatesAreModels, TurnAssumption
  <1>2. text \in Seq(Author) /\ messages \in Seq(Message)
    BY DEF Init
  <1>3. usage_records \in Seq(UsageRecord) /\ seen \in Seq(Author \cup {Canned})
    BY DEF Init
  <1> QED
    BY <1>1, <1>2, <1>3 DEF Init, TypeOK, Running, Status

LEMMA TypeNext == TypeOK /\ [Next]_vars => TypeOK'
  <1> SUFFICES ASSUME TypeOK, [Next]_vars PROVE TypeOK'
    OBVIOUS
  <1> USE DEF TypeOK, Running, Ended, database, browser, account, attempts
  <1>1. CASE Begin
    BY <1>1, EventsAreEvents DEF Begin, Yield
  <1>2. CASE SendCanned
    BY <1>2, EventsAreEvents DEF SendCanned, Yield
  <1>3. CASE OpenCandidate
    <2>1. sending' \in Event \cup {NoEvent} /\ pc' \in Running
      BY <1>3, EventsAreEvents, MeIsAuthor DEF OpenCandidate, Announcement, Yield, ProviderErrorKind
    <2>2. attempt' \in 0..MaxRetries /\ stage' \in {"open", "metered", "closed"}
      BY <1>3, TurnAssumption DEF OpenCandidate
    <2> QED
      BY <1>3, <2>1, <2>2 DEF OpenCandidate
  <1>4. CASE ProviderText
    BY <1>4, MeIsAuthor, EventsAreEvents DEF ProviderText, Accumulated, Yield
  <1>5. CASE ProviderUsage
    BY <1>5, MeIsAuthor, EventsAreEvents DEF ProviderUsage, Yield
  <1>6. CASE ProviderDone
    BY <1>6, MeIsAuthor, EventsAreEvents DEF ProviderDone, Yield, Status
  <1>7. CASE ProviderEnds
    BY <1>7, MeIsAuthor DEF ProviderEnds
  <1>8. ASSUME NEW kind \in ProviderErrorKind, HandleFailure(kind)
        PROVE  TypeOK'
    <2>1. CASE MayRetry(kind) /\ Retry
      BY <1>8, <2>1, TurnAssumption DEF HandleFailure, MayRetry, Retry
    <2>2. CASE MayFallBack(kind) /\ FallBack
      BY <1>8, <2>2, CandidatesAreModels DEF HandleFailure, MayFallBack, FallBack
    <2>3. CASE GiveUp(kind)
      BY <1>8, <2>3, MeIsAuthor, EventsAreEvents DEF HandleFailure, GiveUp, Yield
    <2> QED
      BY <1>8, <2>1, <2>2, <2>3 DEF HandleFailure
  <1>9. CASE Wake
    BY <1>9 DEF Wake
  <1>10. CASE Settle
    BY <1>10, TurnJobShape, CannedJobShape DEF Settle
  <1>11. ASSUME NEW step \in {"message", "usage", "commit"}, job.step # "none",
                SaveGoesTo(step), UNCHANGED <<mode, generator, database, browser>>
         PROVE  TypeOK'
    <2>1. job' \in Job
      BY <1>11, JobShape, JobStep DEF SaveGoesTo
    <2> QED
      BY <1>11, <2>1 DEF generator
  <1>12. CASE Commit
    <2>1. job \in Job
      BY <1>12, JobShape DEF Commit
    <2>2. messages' \in Seq(Message) /\ usage_records' \in Seq(UsageRecord)
      BY <1>12, <2>1 DEF Commit, Job
    <2> QED
      BY <1>12, <2>2 DEF Commit, SaveEnds
  <1>13. CASE SaveFails
    BY <1>13 DEF SaveFails, SaveEnds
  <1>14. CASE Deliver
    <2>1. seen' \in Seq(Author \cup {Canned})
      <3>1. CASE client = "reading" /\ sending.type = "text"
        <4>1. sending.by \in Author \cup {Canned}
          BY <3>1, EventShape
        <4>2. seen' = Append(seen, sending.by)
          BY <1>14, <3>1 DEF Deliver
        <4>3. seen \in Seq(Author \cup {Canned})
          OBVIOUS
        <4> HIDE DEF TypeOK
        <4> QED
          BY <4>1, <4>2, <4>3
      <3> QED
        BY <1>14, <3>1 DEF Deliver
    <2>2. told' \subseteq Event
      BY <1>14, EventShape DEF Deliver, Idle
    <2> QED
      BY <1>14, <2>1, <2>2 DEF Deliver
  <1>15. CASE Leave
    BY <1>15 DEF Leave, generator
  <1>16. CASE CancelAwaiting
    BY <1>16, TurnJobShape DEF CancelAwaiting, CancelStatus, Status
  <1>17. CASE CancelSaving
    BY <1>17 DEF CancelSaving
  <1>18. CASE AbandonSending
    BY <1>18 DEF AbandonSending
  <1>19. CASE Crash
    BY <1>19 DEF Crash
  <1>20. CASE UNCHANGED vars
    BY <1>20 DEF vars, generator
  <1>21. ASSUME NEW kind \in ProviderErrorKind, ProviderFails(kind)
         PROVE  TypeOK'
    BY <1>8, <1>21 DEF ProviderFails
  <1>23. CASE TimerExpires
    <2>1. "timeout" \in ProviderErrorKind
      BY DEF ProviderErrorKind
    <2> QED
      BY <1>8, <1>23, <2>1 DEF TimerExpires
  <1>22. CASE Acquire \/ InsertMessage \/ InsertUsage
    BY <1>11, <1>22 DEF Acquire, InsertMessage, InsertUsage
  <1> HIDE DEF TypeOK, Running, Ended, database, browser, account, attempts
  <1> QED
    BY <1>1, <1>2, <1>3, <1>4, <1>5, <1>6, <1>7, <1>9, <1>10, <1>12, <1>13,
       <1>14, <1>15, <1>16, <1>17, <1>18, <1>19, <1>20, <1>21, <1>22, <1>23
       DEF Next, Finished

\* Every variable of a turn keeps its type.
THEOREM TypeCorrect == Spec => []TypeOK
  BY TypeInit, TypeNext, PTL DEF Spec

-----------------------------------------------------------------------------
(* One writer per turn.  The candidate and the attempt only change while   *)
(* the accumulated text is empty; then nothing the browser saw, nothing    *)
(* that is being sent and nothing that is stored has a writer yet.         *)

Writer == IF mode = "no_evidence" THEN Canned ELSE Me

\* A text that contains everything seen so far and belongs to the writer.
Whole(t) == AllBy(t, Writer) /\ Len(seen) <= Len(t) /\ Len(t) \in 1..MaxDeltas

Pending == IF sending.type = "text" THEN 1 ELSE 0

PlaceInv ==
    /\ pc \in {"canned", "canned_done"} => mode = "no_evidence"
    /\ mode = "no_evidence" => text = <<>> /\ pc \notin {"candidate", "streaming", "sleeping"}
    /\ pc \in {"open", "candidate", "sleeping"} => text = <<>>
    /\ pc \in Ended \cup {"saving", "open", "sleeping"} => sending = NoEvent

TextInv == AllBy(text, Me) /\ Len(text) <= MaxDeltas

SeenInv ==
    /\ AllBy(seen, Writer)
    /\ sending.type = "text" => sending.by = Writer
    /\ mode # "no_evidence" => Len(seen) + Pending <= Len(text)
    /\ mode = "no_evidence" =>
          Len(seen) + Pending <= IF pc \in {"open", "canned"} THEN 0 ELSE 1

StoreInv ==
    /\ Len(messages) <= 1
    /\ pc \in Running => messages = <<>>
    /\ pc \in Running \ {"saving"} => job = NoJob
    /\ job # NoJob =>
          /\ messages = <<>>
          /\ Whole(job.message.text)
          /\ job.shielded <=> pc # "saving"
          /\ job.shielded => job.message.status = "interrupted"
    /\ messages # <<>> => job = NoJob /\ Whole(messages[1].text)

IInv == PlaceInv /\ TextInv /\ SeenInv /\ StoreInv

LEMMA Events ==
    /\ NoEvent.type = "none" /\ Sources.type = "sources"
    /\ \A a : /\ TextDelta(a).type = "text" /\ TextDelta(a).by = a
             /\ UsageReport(a).type = "usage" /\ Done(a).type = "done"
    /\ \A m : FallbackTo(m).type = "fallback"
    /\ \A k : Error(k).type = "error"
  BY DEF NoEvent, Sources, TextDelta, UsageReport, Done, FallbackTo, Error

\* A text of the writer stays one when the writer and what was seen stay.
LEMMA WholeFrame ==
    ASSUME UNCHANGED <<mode, cand, attempt, seen>>
    PROVE  Writer' = Writer /\ Me' = Me /\ \A t : Whole(t)' = Whole(t)
  BY DEF Writer, Me, Whole, AllBy

\* Before there is any text there is nothing to disagree about.
LEMMA NothingYet ==
    ASSUME TypeOK, IInv, text = <<>>, mode # "no_evidence"
    PROVE  seen = <<>> /\ sending.type # "text"
  BY DEF TypeOK, IInv, SeenInv, Pending

LEMMA IInit == Init => IInv
  <1> SUFFICES ASSUME Init PROVE IInv
    OBVIOUS
  <1>1. PlaceInv /\ StoreInv
    BY DEF Init, PlaceInv, StoreInv, Ended, Running
  <1>2. TextInv /\ SeenInv
    BY TurnAssumption, Events DEF Init, TextInv, SeenInv, AllBy, Pending
  <1> QED
    BY <1>1, <1>2 DEF IInv

\* A step that writes no text, moves no attempt and stores nothing.
LEMMA QuietStep ==
    ASSUME TypeOK, IInv, PlaceInv', Idle,
           UNCHANGED <<mode, cand, attempt, text, seen, job, messages>>,
           sending'.type # "text", pc \in Running \ {"open", "canned", "saving"},
           pc' \in Running \ {"open", "canned", "saving"}
    PROVE  IInv'
  <1>1. TextInv'
    BY WholeFrame DEF IInv, TextInv, AllBy
  <1>2. SeenInv'
    BY WholeFrame, Events DEF IInv, SeenInv, Pending, AllBy, Idle
  <1>3. StoreInv'
    BY WholeFrame DEF IInv, StoreInv, Running
  <1> QED
    BY <1>1, <1>2, <1>3 DEF IInv

\* A step that ends the turn or leaves it ended, and stores nothing new.
LEMMA EndingStep ==
    ASSUME TypeOK, IInv, sending' = NoEvent,
           UNCHANGED <<mode, cand, attempt, text, seen, messages>>,
           pc' \in Ended,
           job' = NoJob \/ (job' = job /\ pc # "saving")
    PROVE  IInv'
  <1>1. PlaceInv'
    BY DEF IInv, PlaceInv, Ended
  <1>2. TextInv'
    BY WholeFrame DEF IInv, TextInv, AllBy
  <1>3. SeenInv'
    BY WholeFrame, Events DEF IInv, SeenInv, Pending, AllBy, Ended, TypeOK
  <1>4. StoreInv'
    BY WholeFrame DEF IInv, StoreInv, Running, Ended
  <1> QED
    BY <1>1, <1>2, <1>3, <1>4 DEF IInv

\* A step to another attempt or candidate, taken before there is any text.
LEMMA SwitchStep ==
    ASSUME TypeOK, IInv, mode # "no_evidence", text = <<>>, Idle,
           UNCHANGED <<mode, text, seen, job, messages>>,
           sending'.type # "text",
           pc \in {"candidate", "streaming", "sleeping"},
           pc' \in {"candidate", "streaming", "sleeping", "settle"},
           pc' = "sleeping" => sending' = NoEvent
    PROVE  IInv'
  <1>1. seen = <<>>
    BY NothingYet
  <1>2. PlaceInv'
    BY DEF IInv, PlaceInv, Ended
  <1>3. TextInv'
    BY TurnAssumption DEF TextInv, AllBy
  <1>4. SeenInv'
    BY <1>1 DEF SeenInv, Pending, AllBy
  <1>5. StoreInv'
    BY DEF IInv, StoreInv, Running
  <1> QED
    BY <1>2, <1>3, <1>4, <1>5 DEF IInv

\* The handler of ProviderError, from an attempt that awaits its provider.
LEMMA FailureStep ==
    ASSUME TypeOK, IInv, Listening, NEW kind \in ProviderErrorKind, HandleFailure(kind)
    PROVE  IInv'
  <1>1. mode # "no_evidence" /\ pc = "streaming" /\ Idle
    BY DEF IInv, PlaceInv, Listening
  <1>2. CASE MayRetry(kind) /\ Retry
    BY <1>1, <1>2, SwitchStep, Events DEF HandleFailure, MayRetry, Retry, database, browser, Idle
  <1>3. CASE MayFallBack(kind) /\ FallBack
    BY <1>1, <1>3, SwitchStep, Events DEF HandleFailure, MayFallBack, FallBack, database, browser, Idle
  <1>4. CASE GiveUp(kind)
    <2>1. /\ UNCHANGED <<mode, cand, attempt, text, seen, job, messages>>
          /\ sending' = Error(kind) /\ pc' = "settle"
      BY <1>4 DEF HandleFailure, GiveUp, Yield, attempts, database, browser
    <2>2. PlaceInv'
      BY <1>1, <2>1 DEF PlaceInv, Ended
    <2> QED
      BY <1>1, <2>1, <2>2, QuietStep, Events DEF Running
  <1> QED
    BY <1>2, <1>3, <1>4 DEF HandleFailure

LEMMA TextStep == TypeOK /\ IInv /\ ProviderText => IInv'
  <1> SUFFICES ASSUME TypeOK, IInv, ProviderText PROVE IInv'
    OBVIOUS
  <1>1. /\ UNCHANGED <<mode, cand, attempt, seen, job, messages>>
        /\ mode # "no_evidence" /\ pc = "streaming" /\ pc' = "streaming"
        /\ Idle /\ sending' = TextDelta(Me) /\ text' = Append(text, Me)
        /\ Len(text) < MaxDeltas
    BY DEF ProviderText, Accumulated, Listening, Yield, attempts, database, browser, IInv, PlaceInv
  <1>2. text \in Seq(Author) /\ Me \in Author
    BY MeIsAuthor DEF TypeOK
  <1>3. PlaceInv'
    BY <1>1 DEF PlaceInv, Ended
  <1>4. TextInv'
    BY <1>1, <1>2, WholeFrame, TurnAssumption DEF IInv, TextInv, AllBy
  <1>5. Len(text') = Len(text) + 1
    BY <1>1, <1>2
  <1>6. Len(seen) + Pending <= Len(text) /\ Pending = 0 /\ Pending' = 1 /\ Len(seen) \in Nat
    BY <1>1, Events DEF IInv, SeenInv, Pending, Idle, TypeOK
  <1>7. SeenInv'
    <2>1. AllBy(seen, Writer)'
      BY <1>1, WholeFrame DEF IInv, SeenInv, AllBy
    <2>2. (sending.type = "text" => sending.by = Writer)'
      BY <1>1, WholeFrame, Events DEF Writer
    <2>3. Len(seen') + Pending' <= Len(text')
      BY <1>1, <1>2, <1>5, <1>6
    <2> QED
      BY <1>1, <2>1, <2>2, <2>3 DEF SeenInv
  <1>8. StoreInv'
    BY <1>1, WholeFrame DEF IInv, StoreInv, Running
  <1> QED
    BY <1>3, <1>4, <1>7, <1>8 DEF IInv

\* A job that stores the accumulated text stores the writer's whole text.
LEMMA JobIsWhole ==
    ASSUME TypeOK, IInv, text # <<>>, mode # "no_evidence"
    PROVE  Whole(text)
  <1>1. Len(text) \in 1..MaxDeltas
    BY TurnAssumption DEF TypeOK, IInv, TextInv
  <1>2. Len(seen) <= Len(text)
    BY DEF TypeOK, IInv, SeenInv, Pending
  <1>3. AllBy(text, Writer)
    BY DEF IInv, TextInv, Writer
  <1> QED
    BY <1>1, <1>2, <1>3 DEF Whole

LEMMA CannedIsWhole ==
    ASSUME TypeOK, IInv, mode = "no_evidence"
    PROVE  Whole(<<Canned>>)
  BY TurnAssumption DEF TypeOK, IInv, SeenInv, Pending, Whole, Writer, AllBy

\* A step that opens the transaction of a turn.
LEMMA OpenStep ==
    ASSUME TypeOK, IInv, Idle,
           UNCHANGED <<mode, cand, attempt, text, seen, messages, sending>>,
           pc \in Running \ {"open", "canned", "saving"},
           \/ pc' = "saving" /\ ~job'.shielded
           \/ pc' = "cancelled" /\ job'.shielded /\ job'.message.status = "interrupted",
           Whole(job'.message.text), job'.shielded \in BOOLEAN
    PROVE  IInv'
  <1>1. PlaceInv'
    BY DEF IInv, PlaceInv, Ended, Idle
  <1>2. TextInv'
    BY WholeFrame DEF IInv, TextInv, AllBy
  <1>3. SeenInv'
    BY WholeFrame DEF IInv, SeenInv, Pending, AllBy
  <1>4. StoreInv'
    BY WholeFrame DEF IInv, StoreInv, Running, Ended
  <1> QED
    BY <1>1, <1>2, <1>3, <1>4 DEF IInv

LEMMA SaveStep ==
    ASSUME TypeOK, IInv, job.step # "none",
           NEW step \in {"message", "usage", "commit"}, SaveGoesTo(step),
           UNCHANGED <<mode, generator, database, browser>>
    PROVE  IInv'
  <1>1. job \in Job
    BY JobShape DEF TypeOK
  <1>2. /\ job'.message = job.message /\ job'.shielded = job.shielded
        /\ job # NoJob
    BY <1>1 DEF SaveGoesTo, Job, NoJob
  <1>3. UNCHANGED <<mode, pc, sending, cand, attempt, text, seen, messages>>
    BY DEF generator, database, browser, attempts
  <1>4. PlaceInv' /\ TextInv' /\ SeenInv'
    BY <1>3, WholeFrame DEF IInv, PlaceInv, TextInv, SeenInv, Pending, AllBy
  <1>5. StoreInv'
    BY <1>2, <1>3, WholeFrame DEF IInv, StoreInv, Running
  <1> QED
    BY <1>4, <1>5 DEF IInv

LEMMA CommitStep == TypeOK /\ IInv /\ Commit => IInv'
  <1> SUFFICES ASSUME TypeOK, IInv, Commit PROVE IInv'
    OBVIOUS
  <1>1. job \in Job /\ job # NoJob
    BY JobShape DEF TypeOK, Commit, Job, NoJob
  <1>2. /\ UNCHANGED <<mode, cand, attempt, text, seen, sending>>
        /\ messages' = Append(messages, job.message) /\ job' = NoJob
    BY DEF Commit, SaveEnds, attempts, browser
  <1>3. messages = <<>> /\ Whole(job.message.text) /\ (job.shielded <=> pc # "saving")
    BY <1>1 DEF IInv, StoreInv
  <1>4. pc' \in Ended
    BY <1>1, <1>3 DEF Commit, SaveEnds, IInv, StoreInv, Ended, Running, TypeOK
  <1>5. sending = NoEvent
    BY <1>1 DEF IInv, StoreInv, PlaceInv, Running, Ended, TypeOK
  <1>6. PlaceInv'
    BY <1>2, <1>4, <1>5 DEF IInv, PlaceInv, Ended
  <1>7. TextInv'
    BY <1>2, WholeFrame DEF IInv, TextInv, AllBy
  <1>8. SeenInv'
    BY <1>2, <1>4, <1>5, WholeFrame, Events DEF IInv, SeenInv, Pending, AllBy, Ended, TypeOK
  <1>9. messages' = <<job.message>> /\ Len(messages') = 1 /\ messages'[1] = job.message
    BY <1>2, <1>3
  <1>10. StoreInv'
    BY <1>2, <1>3, <1>4, <1>9, WholeFrame DEF StoreInv, Running, Ended
  <1> QED
    BY <1>6, <1>7, <1>8, <1>10 DEF IInv

LEMMA DeliverStep == TypeOK /\ IInv /\ Deliver => IInv'
  <1> SUFFICES ASSUME TypeOK, IInv, Deliver PROVE IInv'
    OBVIOUS
  <1>1. /\ UNCHANGED <<mode, pc, cand, attempt, text, job, messages>>
        /\ sending' = NoEvent /\ ~Idle
    BY DEF Deliver, attempts, database
  <1>2. pc \in Running \ {"open", "saving", "sleeping"} /\ messages = <<>> /\ job = NoJob
    BY <1>1 DEF IInv, PlaceInv, StoreInv, Idle, TypeOK, Ended, Running
  <1>3. Writer' = Writer /\ Me' = Me /\ Pending' = 0 /\ Pending \in {0, 1}
    BY <1>1, Events DEF Writer, Me, Pending
  <1>4. \/ sending.type = "text" /\ Pending = 1 /\ seen' = Append(seen, Writer)
        \/ seen' = seen
    BY DEF Deliver, IInv, SeenInv, Pending
  <1>5. Writer \in Author \cup {Canned}
    BY MeIsAuthor DEF Writer
  <1>6. seen \in Seq(Author \cup {Canned}) /\ text \in Seq(Author)
    BY DEF TypeOK
  <1>7. AllBy(seen, Writer)' /\ Len(seen') + Pending' <= Len(seen) + Pending
    BY <1>3, <1>4, <1>5, <1>6 DEF IInv, SeenInv, AllBy
  <1>8. PlaceInv'
    BY <1>1 DEF IInv, PlaceInv, Ended
  <1>9. TextInv'
    BY <1>1, <1>3 DEF IInv, TextInv, AllBy
  <1>10. SeenInv'
    <2>1. Len(seen') \in Nat /\ Len(seen) \in Nat /\ Len(text) \in Nat
      BY <1>4, <1>5, <1>6
    <2>2. mode # "no_evidence" => Len(seen') + Pending' <= Len(text)
      BY <1>3, <1>7, <2>1 DEF IInv, SeenInv
    <2>3. mode = "no_evidence" =>
            Len(seen') + Pending' <= IF pc \in {"open", "canned"} THEN 0 ELSE 1
      BY <1>3, <1>7, <2>1 DEF IInv, SeenInv
    <2> QED
      BY <1>1, <1>7, <2>2, <2>3, Events DEF SeenInv
  <1>11. StoreInv'
    BY <1>1, <1>2 DEF StoreInv
  <1> QED
    BY <1>8, <1>9, <1>10, <1>11 DEF IInv

LEMMA IStep == TypeOK /\ IInv /\ [Next]_vars => IInv'
  <1> SUFFICES ASSUME TypeOK, IInv, [Next]_vars PROVE IInv'
    OBVIOUS
  <1> USE DEF attempts, database, browser
  <1>1. CASE Begin
    <2>1. /\ UNCHANGED <<mode, cand, attempt, text, seen, job, messages>>
          /\ text = <<>> /\ sending'.type # "text" /\ sending = NoEvent
          /\ pc = "open" /\ pc' = IF mode = "no_evidence" THEN "canned" ELSE "candidate"
      BY <1>1, Events DEF Begin, Yield, IInv, PlaceInv
    <2>2. PlaceInv'
      BY <2>1 DEF PlaceInv, Ended
    <2>3. TextInv'
      BY <2>1, WholeFrame DEF IInv, TextInv, AllBy
    <2>4. SeenInv'
      BY <2>1, WholeFrame, Events DEF IInv, SeenInv, Pending, AllBy
    <2>5. StoreInv'
      BY <2>1, WholeFrame DEF IInv, StoreInv, Running
    <2> QED
      BY <2>2, <2>3, <2>4, <2>5 DEF IInv
  <1>2. CASE SendCanned
    <2>1. /\ UNCHANGED <<mode, cand, attempt, text, seen, job, messages>>
          /\ mode = "no_evidence" /\ Idle /\ text = <<>> /\ Writer = Canned
      BY <1>2 DEF SendCanned, IInv, PlaceInv, Writer
    <2>2. \/ pc = "canned" /\ sending' = TextDelta(Canned) /\ pc' = "canned_done"
          \/ pc = "canned_done" /\ sending' = Done(Canned) /\ pc' = "settle"
      BY <1>2 DEF SendCanned, Yield
    <2>3. PlaceInv'
      BY <2>1, <2>2 DEF PlaceInv, Ended
    <2>4. TextInv'
      BY <2>1, WholeFrame DEF IInv, TextInv, AllBy
    <2>5. SeenInv'
      BY <2>1, <2>2, WholeFrame, Events DEF IInv, SeenInv, Pending, AllBy, Idle, TypeOK
    <2>6. StoreInv'
      BY <2>1, <2>2, WholeFrame DEF IInv, StoreInv, Running
    <2> QED
      BY <2>3, <2>4, <2>5, <2>6 DEF IInv
  <1>3. CASE OpenCandidate
    <2>1. mode # "no_evidence" /\ text = <<>>
      BY <1>3 DEF OpenCandidate, IInv, PlaceInv
    <2> QED
      BY <1>3, <2>1, SwitchStep, Events DEF OpenCandidate, Announcement, Yield
  <1>4. CASE ProviderText
    BY <1>4, TextStep
  <1>5. CASE ProviderUsage \/ ProviderDone
    <2>1. /\ UNCHANGED <<mode, cand, attempt, text, seen, job, messages>>
          /\ Idle /\ pc = "streaming" /\ pc' = "streaming" /\ sending'.type # "text"
      BY <1>5, Events DEF ProviderUsage, ProviderDone, Listening, Yield
    <2>2. PlaceInv'
      BY <2>1 DEF IInv, PlaceInv, Ended
    <2> QED
      BY <2>1, <2>2, QuietStep DEF Running
  <1>6. CASE ProviderEnds
    <2>1. /\ UNCHANGED <<mode, cand, attempt, text, seen, job, messages, sending>>
          /\ Idle /\ pc = "streaming" /\ pc' = "settle" /\ sending'.type # "text"
      BY <1>6, Events DEF ProviderEnds, Listening, Idle
    <2>2. PlaceInv'
      BY <2>1 DEF IInv, PlaceInv, Ended
    <2> QED
      BY <2>1, <2>2, QuietStep DEF Running
  <1>7. ASSUME NEW kind \in ProviderErrorKind, ProviderFails(kind) PROVE IInv'
    BY <1>7, FailureStep DEF ProviderFails
  <1>8. CASE TimerExpires
    <2>1. "timeout" \in ProviderErrorKind
      BY DEF ProviderErrorKind
    <2> QED
      BY <1>8, <2>1, FailureStep DEF TimerExpires
  <1>9. CASE Wake
    <2>1. text = <<>> /\ mode # "no_evidence" /\ sending = NoEvent
      BY <1>9 DEF Wake, IInv, PlaceInv
    <2> QED
      BY <1>9, <2>1, SwitchStep, Events DEF Wake, Idle
  <1>10. CASE Settle
    <2>1. /\ UNCHANGED <<mode, cand, attempt, text, seen, messages, sending>>
          /\ Idle /\ pc = "settle" /\ messages = <<>> /\ job = NoJob
      BY <1>10 DEF Settle, IInv, StoreInv, Running
    <2>2. CASE mode = "no_evidence"
      <3>1. pc' = "saving" /\ job' = CannedJob
        BY <1>10, <2>2 DEF Settle
      <3>2. job'.message.text = <<Canned>> /\ job'.shielded = FALSE
        BY <3>1 DEF CannedJob
      <3> QED
        BY <2>1, <2>2, <3>1, <3>2, OpenStep, CannedIsWhole DEF Running
    <2>3. CASE mode # "no_evidence" /\ text # <<>>
      <3>1. pc' = "saving" /\ job' = TurnJob(status, FALSE)
        BY <1>10, <2>3 DEF Settle
      <3>2. job'.message.text = text /\ job'.shielded = FALSE
        BY <3>1 DEF TurnJob
      <3> QED
        BY <2>1, <2>3, <3>1, <3>2, OpenStep, JobIsWhole DEF Running
    <2>4. CASE mode # "no_evidence" /\ text = <<>>
      <3>1. pc' = "returned" /\ job' = job
        BY <1>10, <2>4 DEF Settle
      <3> QED
        BY <2>1, <3>1, EndingStep DEF Idle, Ended
    <2> QED
      BY <2>2, <2>3, <2>4
  <1>11. CASE Acquire \/ InsertMessage \/ InsertUsage
    BY <1>11, SaveStep DEF Acquire, InsertMessage, InsertUsage
  <1>12. CASE Commit
    BY <1>12, CommitStep
  <1>13. CASE SaveFails
    <2>1. job # NoJob /\ job \in Job
      BY <1>13, JobShape DEF SaveFails, TypeOK
    <2>2. pc' \in Ended
      BY <1>13, <2>1 DEF SaveFails, SaveEnds, IInv, StoreInv, Ended, Running, TypeOK
    <2>3. sending = NoEvent
      BY <2>1 DEF IInv, StoreInv, PlaceInv, Running, Ended, TypeOK
    <2> QED
      BY <1>13, <2>2, <2>3, EndingStep DEF SaveFails, SaveEnds
  <1>14. CASE Deliver
    BY <1>14, DeliverStep
  <1>15. CASE Leave \/ Finished \/ UNCHANGED vars
    <2>1. UNCHANGED <<mode, pc, sending, cand, attempt, text, seen, job, messages>>
      BY <1>15 DEF Leave, Finished, vars, generator
    <2>2. PlaceInv' /\ TextInv' /\ SeenInv' /\ StoreInv'
      BY <2>1, WholeFrame DEF IInv, PlaceInv, TextInv, SeenInv, StoreInv, Pending, AllBy
    <2> QED
      BY <2>2 DEF IInv
  <1>16. CASE CancelAwaiting
    <2>1. /\ UNCHANGED <<mode, cand, attempt, text, seen, messages, sending>>
          /\ Idle /\ pc \in {"streaming", "sleeping"} /\ pc' = "cancelled"
          /\ mode # "no_evidence"
      BY <1>16 DEF CancelAwaiting, CancelPoints, IInv, PlaceInv
    <2>2. CASE text # <<>>
      BY <1>16, <2>1, <2>2, OpenStep, JobIsWhole DEF CancelAwaiting, CancelStatus, TurnJob, Running
    <2>3. CASE text = <<>>
      <3>1. job' = job
        BY <1>16, <2>3 DEF CancelAwaiting
      <3> QED
        BY <2>1, <3>1, EndingStep DEF Idle, Ended
    <2> QED
      BY <2>2, <2>3
  <1>17. CASE CancelSaving
    <2>1. sending = NoEvent
      BY <1>17 DEF CancelSaving, IInv, PlaceInv
    <2> QED
      BY <1>17, <2>1, EndingStep DEF CancelSaving, Ended
  <1>18. CASE AbandonSending
    <2>1. pc # "saving"
      BY <1>18 DEF AbandonSending, Idle, IInv, PlaceInv
    <2> QED
      BY <1>18, <2>1, EndingStep DEF AbandonSending, Ended
  <1>19. CASE Crash
    BY <1>19, EndingStep DEF Crash, Ended
  <1> HIDE DEF attempts, database, browser
  <1> QED
    BY <1>1, <1>2, <1>3, <1>4, <1>5, <1>6, <1>7, <1>8, <1>9, <1>10, <1>11,
       <1>12, <1>13, <1>14, <1>15, <1>16, <1>17, <1>18, <1>19 DEF Next

LEMMA Invariance == Spec => [](TypeOK /\ IInv)
  BY TypeInit, TypeNext, IInit, IStep, PTL DEF Spec

-----------------------------------------------------------------------------
(* What the invariant gives.                                               *)

\* A turn never splices the output of two attempts, in the browser or in the
\* database.
THEOREM OneAuthorHolds == Spec => []OneAuthor
  <1>1. TypeOK /\ IInv => OneAuthor
    <2> SUFFICES ASSUME TypeOK, IInv PROVE OneAuthor
      OBVIOUS
    <2>1. Writer \in Author \cup {Canned}
      BY MeIsAuthor DEF Writer
    <2>2. AllBy(text, Writer)
      BY DEF IInv, PlaceInv, TextInv, Writer, AllBy
    <2>3. \A i \in 1..Len(messages) : AllBy(messages[i].text, Writer)
      BY DEF IInv, StoreInv, Whole, TypeOK
    <2> QED
      BY <2>1, <2>2, <2>3 DEF OneAuthor, IInv, SeenInv
  <1> QED
    BY <1>1, Invariance, PTL

\* What is stored extends what was shown.
THEOREM StoredCoversSeenHolds == Spec => []StoredCoversSeen
  <1>1. TypeOK /\ IInv => StoredCoversSeen
    <2> SUFFICES ASSUME TypeOK, IInv, NEW i \in 1..Len(messages)
                 PROVE  /\ Len(seen) <= Len(messages[i].text)
                        /\ seen = SubSeq(messages[i].text, 1, Len(seen))
      BY DEF StoredCoversSeen
    <2>1. messages \in Seq(Message) /\ i = 1 /\ Whole(messages[1].text)
      BY DEF TypeOK, IInv, StoreInv
    <2>2. messages[i].text \in Seq(Author \cup {Canned}) /\ seen \in Seq(Author \cup {Canned})
      <3>1. messages[i] \in Message
        BY <2>1
      <3> QED
        BY <3>1 DEF TypeOK, Message
    <2>3. Len(seen) <= Len(messages[i].text)
      BY <2>1 DEF Whole
    <2>4. \A k \in 1..Len(seen) : seen[k] = messages[i].text[k]
      BY <2>1, <2>2, <2>3 DEF IInv, SeenInv, Whole, AllBy
    <2> QED
      BY <2>2, <2>3, <2>4
  <1> QED
    BY <1>1, Invariance, PTL

\* After the first delta the turn stays with its attempt.
THEOREM NoSecondTryHolds == Spec => NoSecondTry
  <1>1. TypeOK /\ IInv /\ [Next]_vars =>
            [text # <<>> => UNCHANGED <<cand, attempt, retry_count, fallback_used>>]_vars
    <2> SUFFICES ASSUME TypeOK, IInv, Next, text # <<>>
                 PROVE  UNCHANGED <<cand, attempt, retry_count, fallback_used>>
      OBVIOUS
    <2> USE DEF attempts, account
    <2>1. CASE OpenCandidate \/ Wake
      BY <2>1 DEF OpenCandidate, Wake, IInv, PlaceInv
    <2>2. ASSUME NEW kind, HandleFailure(kind)
          PROVE  UNCHANGED <<cand, attempt, retry_count, fallback_used>>
      BY <2>2 DEF HandleFailure, MayRetry, MayFallBack, GiveUp, Yield
    <2>3. CASE Begin \/ SendCanned \/ Settle \/ Deliver
      BY <2>3 DEF Begin, SendCanned, Settle, Deliver
    <2>4. CASE ProviderText \/ ProviderUsage \/ ProviderDone \/ ProviderEnds
      BY <2>4 DEF ProviderText, ProviderUsage, ProviderDone, ProviderEnds
    <2>5. CASE Acquire \/ InsertMessage \/ InsertUsage \/ Leave \/ Finished
      BY <2>5 DEF Acquire, InsertMessage, InsertUsage, Leave, Finished, generator, vars
    <2>6. CASE Commit \/ SaveFails
      BY <2>6 DEF Commit, SaveFails
    <2>7. CASE CancelAwaiting \/ CancelSaving \/ AbandonSending \/ Crash
      BY <2>7 DEF CancelAwaiting, CancelSaving, AbandonSending, Crash
    <2>8. ASSUME NEW kind \in ProviderErrorKind, ProviderFails(kind)
          PROVE  UNCHANGED <<cand, attempt, retry_count, fallback_used>>
      BY <2>2, <2>8 DEF ProviderFails
    <2>9. CASE TimerExpires
      BY <2>2, <2>9 DEF TimerExpires
    <2> HIDE DEF attempts, account
    <2> QED
      BY <2>1, <2>3, <2>4, <2>5, <2>6, <2>7, <2>8, <2>9 DEF Next
  <1> QED
    BY <1>1, Invariance, PTL DEF Spec, NoSecondTry

-----------------------------------------------------------------------------
(* The message and the usage record are one transaction.                   *)

AccountInv ==
    /\ ReplyIsAccounted
    /\ job # NoJob => (job.record = NoRecord <=> mode = "no_evidence")

LEMMA RecordOfTurn ==
    ASSUME TypeOK, NEW st \in Status, NEW p \in BOOLEAN
    PROVE  TurnJob(st, p).record # NoRecord
  <1>1. ProviderOf[final_model_id] \in Providers /\ TurnJob(st, p).record \in UsageRecord
    BY TurnJobShape, TurnAssumption DEF TypeOK, TurnJob, UsageRecord
  <1>2. TurnJob(st, p).record.requested_model_id = Requested
    BY DEF TurnJob
  <1> QED
    BY <1>1, <1>2 DEF NoRecord, UsageRecord

\* Every step but the opening and the commit of a job.
LEMMA AccountFrame ==
    ASSUME AccountInv, UNCHANGED <<mode, messages, usage_records>>,
           job' = NoJob \/ (job # NoJob /\ job'.record = job.record)
    PROVE  AccountInv'
  BY DEF AccountInv, ReplyIsAccounted

LEMMA AccountStep == TypeOK /\ IInv /\ AccountInv /\ [Next]_vars => AccountInv'
  <1> SUFFICES ASSUME TypeOK, IInv, AccountInv, [Next]_vars PROVE AccountInv'
    OBVIOUS
  <1> USE DEF database
  <1>1. ASSUME UNCHANGED <<mode, job, database>> PROVE AccountInv'
    BY <1>1 DEF AccountInv, ReplyIsAccounted
  <1>2. CASE Begin \/ SendCanned \/ OpenCandidate \/ Wake \/ Deliver \/ Leave
    BY <1>1, <1>2 DEF Begin, SendCanned, OpenCandidate, Wake, Deliver, Leave
  <1>3. CASE ProviderText \/ ProviderUsage \/ ProviderDone \/ ProviderEnds
    BY <1>1, <1>3 DEF ProviderText, ProviderUsage, ProviderDone, ProviderEnds
  <1>4. ASSUME NEW kind, ProviderFails(kind) PROVE AccountInv'
    BY <1>1, <1>4 DEF ProviderFails, HandleFailure
  <1>5. CASE TimerExpires
    BY <1>1, <1>5 DEF TimerExpires, HandleFailure
  <1>6. CASE Settle
    <2>1. UNCHANGED <<mode, messages, usage_records>>
      BY <1>6 DEF Settle
    <2>2. CASE mode = "no_evidence"
      <3>1. job'.record = NoRecord
        BY <1>6, <2>2 DEF Settle, CannedJob
      <3> QED
        BY <2>1, <2>2, <3>1 DEF AccountInv, ReplyIsAccounted
    <2>3. CASE mode # "no_evidence" /\ text # <<>>
      <3>1. job' = TurnJob(status, FALSE) /\ status \in Status
        BY <1>6, <2>3 DEF Settle, TypeOK
      <3>2. job'.record # NoRecord
        BY <3>1, RecordOfTurn
      <3> QED
        BY <2>1, <2>3, <3>2 DEF AccountInv, ReplyIsAccounted
    <2>4. CASE mode # "no_evidence" /\ text = <<>>
      <3>1. job' = job
        BY <1>6, <2>4 DEF Settle
      <3> QED
        BY <1>1, <2>1, <3>1
    <2> QED
      BY <2>2, <2>3, <2>4
  <1>7. ASSUME NEW step \in {"message", "usage", "commit"}, job.step # "none",
               SaveGoesTo(step), UNCHANGED <<mode, generator, database, browser>>
        PROVE  AccountInv'
    <2>1. job \in Job /\ job # NoJob
      BY <1>7, JobShape DEF TypeOK, NoJob
    <2>2. job'.record = job.record
      BY <1>7, <2>1 DEF SaveGoesTo, Job
    <2> QED
      BY <1>7, <2>1, <2>2, AccountFrame
  <1>8. CASE Acquire \/ InsertMessage \/ InsertUsage
    BY <1>7, <1>8 DEF Acquire, InsertMessage, InsertUsage
  <1>9. CASE Commit
    <2>1. job \in Job /\ job # NoJob
      BY <1>9, JobShape DEF TypeOK, Commit, NoJob
    <2>2. /\ messages' = Append(messages, job.message) /\ mode' = mode /\ job' = NoJob
          /\ usage_records' = IF job.record = NoRecord THEN usage_records
                              ELSE Append(usage_records, job.record)
      BY <1>9 DEF Commit, SaveEnds
    <2>3. messages \in Seq(Message) /\ usage_records \in Seq(UsageRecord)
      BY DEF TypeOK
    <2>4. Len(messages') = Len(messages) + 1
      BY <2>2, <2>3
    <2>5. CASE job.record = NoRecord
      BY <2>1, <2>2, <2>5 DEF AccountInv, ReplyIsAccounted
    <2>6. CASE job.record # NoRecord
      <3>1. Len(usage_records') = Len(usage_records) + 1
        BY <2>2, <2>3, <2>6
      <3> QED
        BY <2>1, <2>2, <2>4, <2>6, <3>1 DEF AccountInv, ReplyIsAccounted
    <2> QED
      BY <2>5, <2>6
  <1>10. CASE SaveFails \/ CancelSaving \/ Crash
    BY <1>10, AccountFrame DEF SaveFails, SaveEnds, CancelSaving, Crash
  <1>11. CASE CancelAwaiting
    <2>1. mode # "no_evidence" /\ UNCHANGED <<mode, messages, usage_records>>
      BY <1>11 DEF CancelAwaiting, CancelPoints, IInv, PlaceInv
    <2>2. CASE text # <<>>
      <3>1. job' = TurnJob("interrupted", TRUE)
        BY <1>11, <2>2 DEF CancelAwaiting, CancelStatus
      <3>2. job'.record # NoRecord
        BY <3>1, RecordOfTurn DEF Status
      <3> QED
        BY <2>1, <3>2 DEF AccountInv, ReplyIsAccounted
    <2>3. CASE text = <<>>
      BY <1>1, <1>11, <2>1, <2>3 DEF CancelAwaiting
    <2> QED
      BY <2>2, <2>3
  <1>12. CASE AbandonSending \/ Finished \/ UNCHANGED vars
    BY <1>1, <1>12 DEF AbandonSending, Finished, vars
  <1> HIDE DEF database
  <1> QED
    BY <1>2, <1>3, <1>4, <1>5, <1>6, <1>8, <1>9, <1>10, <1>11, <1>12 DEF Next

LEMMA AccountInvariance == Spec => []AccountInv
  <1>1. Init => AccountInv
    BY DEF Init, AccountInv, ReplyIsAccounted
  <1> QED
    BY <1>1, AccountStep, Invariance, PTL DEF Spec

\* No reply without its usage record and no record without its reply.
THEOREM ReplyIsAccountedHolds == Spec => []ReplyIsAccounted
  BY AccountInvariance, PTL DEF AccountInv

\* A turn stores at most one reply and at most one usage record.
THEOREM AtMostOneReplyHolds == Spec => []AtMostOneReply
  <1>1. TypeOK /\ IInv /\ AccountInv => AtMostOneReply
    BY DEF TypeOK, IInv, StoreInv, AccountInv, ReplyIsAccounted, AtMostOneReply
  <1> QED
    BY <1>1, Invariance, AccountInvariance, PTL

-----------------------------------------------------------------------------
(* What the handler of ProviderError leaves behind: the announcement and   *)
(* the record of a fallback, the number of retries, the error shown.       *)

Announced == client = "gone" \/ FallbackTo(Model) \in told

FallbackInv ==
    /\ fallback_used <=> cand > 1
    /\ cand > 1 => mode # "no_evidence"
    /\ cand > 1 /\ pc \in {"streaming", "sleeping"} => Announced \/ sending = FallbackTo(Model)
    /\ cand > 1 /\ text # <<>> => Announced
    /\ cand > 1 /\ seen # <<>> => FallbackTo(Model) \in told
    /\ job # NoJob /\ job.record # NoRecord => (job.record.fallback_used <=> fallback_used)
    /\ \A i \in 1..Len(usage_records) : usage_records[i].fallback_used <=> fallback_used

\* Nothing the fallback is about changes.
LEMMA FallbackFrame ==
    ASSUME FallbackInv, UNCHANGED <<mode, cand, text, seen, told, fallback_used, usage_records>>,
           client' = client \/ client' = "gone",
           pc' \in {"streaming", "sleeping"} =>
              pc \in {"streaming", "sleeping"} /\ (sending = NoEvent \/ sending' = sending),
           job' = NoJob \/ (job # NoJob /\ job'.record = job.record)
    PROVE  FallbackInv'
  <1>1. Model' = Model /\ (Announced => Announced') /\ sending = NoEvent => sending # FallbackTo(Model)
    BY DEF Model, Announced, NoEvent, FallbackTo
  <1>2. NoEvent # FallbackTo(Model)
    BY DEF NoEvent, FallbackTo
  <1> QED
    BY <1>1, <1>2 DEF FallbackInv, FallbackTo, Model, Announced

LEMMA FallbackStep ==
    TypeOK /\ IInv /\ AccountInv /\ FallbackInv /\ [Next]_vars => FallbackInv'
  <1> SUFFICES ASSUME TypeOK, IInv, AccountInv, FallbackInv, [Next]_vars PROVE FallbackInv'
    OBVIOUS
  <1> USE DEF database, browser, attempts, account
  <1>1. CASE Begin \/ SendCanned
    BY <1>1, FallbackFrame DEF Begin, SendCanned, Yield, IInv, StoreInv, Running
  <1>2. CASE OpenCandidate
    <2>1. job = NoJob /\ text = <<>> /\ UNCHANGED <<mode, cand, text, seen, told, client, fallback_used, usage_records, job>>
      BY <1>2 DEF OpenCandidate, IInv, StoreInv, PlaceInv, Running
    <2>2. cand > 1 /\ pc' \in {"streaming", "sleeping"} => sending' = FallbackTo(Model)
      BY <1>2 DEF OpenCandidate, Announcement, Yield
    <2> QED
      BY <2>1, <2>2 DEF FallbackInv, Announced, Model, FallbackTo
  <1>3. CASE ProviderText
    <2>1. cand > 1 => Announced
      BY <1>3 DEF ProviderText, Listening, Idle, FallbackInv, NoEvent, FallbackTo
    <2>2. job = NoJob /\ UNCHANGED <<mode, cand, seen, told, client, fallback_used, usage_records, job>>
      BY <1>3 DEF ProviderText, Listening, IInv, StoreInv, Running
    <2> QED
      BY <2>1, <2>2 DEF FallbackInv, Announced, Model, FallbackTo
  <1>4. CASE ProviderUsage \/ ProviderDone \/ ProviderEnds \/ Wake
    <2>1. job = NoJob /\ UNCHANGED <<mode, cand, text, seen, told, client, fallback_used, usage_records, job>>
      BY <1>4 DEF ProviderUsage, ProviderDone, ProviderEnds, Wake, Listening, IInv, StoreInv, Running
    <2>2. pc \in {"streaming", "sleeping"} /\ sending = NoEvent
      BY <1>4 DEF ProviderUsage, ProviderDone, ProviderEnds, Wake, Listening, Idle, IInv, PlaceInv
    <2> QED
      BY <2>1, <2>2, FallbackFrame
  <1>5. ASSUME NEW kind \in ProviderErrorKind, Listening, HandleFailure(kind)
        PROVE  FallbackInv'
    <2>1. /\ pc = "streaming" /\ sending = NoEvent /\ job = NoJob /\ messages = <<>>
          /\ UNCHANGED <<mode, text, seen, told, client, usage_records, job>> /\ mode # "no_evidence"
      BY <1>5 DEF HandleFailure, Listening, Idle, IInv, StoreInv, PlaceInv, Running
    <2>2. CASE MayRetry(kind) /\ Retry
      BY <2>1, <2>2, FallbackFrame DEF Retry
    <2>3. CASE MayFallBack(kind) /\ FallBack
      <3>1. text = <<>> /\ seen = <<>>
        BY <2>1, <2>3, NothingYet DEF MayFallBack
      <3>2. usage_records = <<>>
        BY <2>1 DEF AccountInv, ReplyIsAccounted, TypeOK
      <3>3. fallback_used' = TRUE /\ cand' = cand + 1 /\ pc' = "candidate"
        BY <2>3 DEF FallBack
      <3> QED
        BY <2>1, <3>1, <3>2, <3>3 DEF FallbackInv, TypeOK
    <2>4. CASE GiveUp(kind)
      BY <2>1, <2>4, FallbackFrame DEF GiveUp, Yield
    <2> QED
      BY <1>5, <2>2, <2>3, <2>4 DEF HandleFailure
  <1>6. ASSUME NEW kind \in ProviderErrorKind, ProviderFails(kind) PROVE FallbackInv'
    BY <1>5, <1>6 DEF ProviderFails
  <1>7. CASE TimerExpires
    BY <1>5, <1>7 DEF TimerExpires, ProviderErrorKind
  <1>8. ASSUME UNCHANGED <<mode, cand, text, seen, told, client, fallback_used, usage_records>>,
               pc' \notin {"streaming", "sleeping"},
               \/ job' = NoJob \/ job' = CannedJob
               \/ \E st \in Status, p \in BOOLEAN : job' = TurnJob(st, p)
        PROVE  FallbackInv'
    BY <1>8 DEF FallbackInv, Announced, Model, FallbackTo, CannedJob, TurnJob
  <1>9. CASE Settle
    <2>1. job = NoJob
      BY <1>9 DEF Settle, IInv, StoreInv, Running
    <2> QED
      BY <1>8, <1>9, <2>1 DEF Settle, TypeOK
  <1>10. CASE CancelAwaiting
    <2>1. job = NoJob
      BY <1>10 DEF CancelAwaiting, CancelPoints, IInv, StoreInv, Running
    <2> QED
      BY <1>8, <1>10, <2>1 DEF CancelAwaiting, CancelStatus, Status
  <1>11. CASE Acquire \/ InsertMessage \/ InsertUsage
    <2>1. /\ job # NoJob /\ job' # NoJob /\ job'.record = job.record
          /\ UNCHANGED <<mode, generator, database, browser>>
      BY <1>11, JobShape DEF Acquire, InsertMessage, InsertUsage, SaveGoesTo, TypeOK, Job, NoJob
    <2> QED
      BY <2>1, FallbackFrame DEF generator
  <1>12. CASE Commit
    <2>1. job \in Job /\ job # NoJob /\ job' = NoJob /\ pc' \notin {"streaming", "sleeping"}
      BY <1>12, JobShape DEF Commit, SaveEnds, TypeOK, NoJob, IInv, StoreInv, Running
    <2>2. \A i \in 1..Len(usage_records') : usage_records'[i].fallback_used <=> fallback_used
      BY <1>12, <2>1 DEF Commit, TypeOK, FallbackInv, Job, UsageRecord
    <2> QED
      BY <1>12, <2>1, <2>2 DEF Commit, FallbackInv, Announced, Model, FallbackTo
  <1>13. CASE Deliver
    <2>1. UNCHANGED <<mode, cand, text, client, fallback_used, usage_records, job, pc>> /\ sending # NoEvent
      BY <1>13 DEF Deliver, Idle
    <2>2. told \subseteq told' /\ (FallbackTo(Model) = sending => client # "reading" \/ sending \in told')
      BY <1>13 DEF Deliver, FallbackTo
    <2>3. client # "reading" => client = "gone"
      BY DEF TypeOK
    <2>4. cand > 1 /\ seen' # seen => text # <<>> /\ client = "reading"
      BY <1>13 DEF Deliver, IInv, SeenInv, Pending, TypeOK, FallbackInv
    <2> QED
      BY <2>1, <2>2, <2>3, <2>4 DEF FallbackInv, Announced, Model, FallbackTo
  <1>14. CASE Leave \/ Finished \/ UNCHANGED vars
    BY <1>14, FallbackFrame DEF Leave, Finished, vars, generator
  <1>15. CASE SaveFails \/ CancelSaving \/ AbandonSending \/ Crash
    <2>1. /\ UNCHANGED <<mode, cand, text, seen, told, client, fallback_used, usage_records>>
          /\ pc' \notin {"streaming", "sleeping"} /\ (job' = NoJob \/ job' = job)
      BY <1>15 DEF SaveFails, SaveEnds, CancelSaving, AbandonSending, Crash, IInv, StoreInv, Running
    <2> QED
      BY <2>1, FallbackFrame
  <1> HIDE DEF database, browser, attempts, account
  <1> QED
    BY <1>1, <1>2, <1>3, <1>4, <1>6, <1>7, <1>9, <1>10, <1>11, <1>12, <1>13, <1>14, <1>15 DEF Next

\* No answer of a fallback passes for the requested model's: the browser has
\* been told of the fallback and the usage record says that there was one.
THEOREM FallbackIsToldHolds == Spec => []FallbackIsTold
  <1>1. Init => FallbackInv
    BY DEF Init, FallbackInv
  <1>2. TypeOK /\ IInv /\ AccountInv /\ FallbackInv => FallbackIsTold
    <2> SUFFICES ASSUME TypeOK, IInv, AccountInv, FallbackInv PROVE FallbackIsTold
      OBVIOUS
    <2>1. FallbackIsRecorded
      <3> SUFFICES ASSUME NEW i \in 1..Len(usage_records)
                   PROVE  usage_records[i].fallback_used <=> messages[i].text[1].candidate > 1
        BY DEF FallbackIsRecorded
      <3>1. mode # "no_evidence" /\ i = 1 /\ messages # <<>>
        BY DEF TypeOK, IInv, StoreInv, AccountInv, ReplyIsAccounted
      <3>2. Whole(messages[1].text) /\ Writer = Me
        BY <3>1 DEF IInv, StoreInv, Writer
      <3>3. messages[1].text[1] = Me
        BY <3>1, <3>2 DEF Whole, AllBy, TypeOK, Message
      <3> QED
        BY <3>1, <3>3 DEF Me, FallbackInv
    <2>2. FallbackIsAnnounced
      <3> SUFFICES ASSUME NEW i \in 1..Len(seen), seen[i].candidate > 1
                   PROVE  FallbackTo(candidate_ids[seen[i].candidate]) \in told
        BY DEF FallbackIsAnnounced
      <3>1. seen[i] = Writer /\ seen # <<>>
        BY DEF IInv, SeenInv, AllBy, TypeOK
      <3>2. Writer = Me
        BY <3>1 DEF Writer, Canned
      <3> QED
        BY <3>1, <3>2 DEF Me, FallbackInv, Model
    <2> QED
      BY <2>1, <2>2 DEF FallbackIsTold
  <1> QED
    BY <1>1, <1>2, FallbackStep, Invariance, AccountInvariance, PTL DEF Spec

-----------------------------------------------------------------------------
(* The error that ends a turn, and the number of retries.                  *)

Exhausted(kind) ==
    /\ kind \in RETRYABLE_KINDS => attempt = MaxRetries
    /\ kind \in FALLBACK_ELIGIBLE_KINDS => cand = Len(candidate_ids)

GivenUp == {"settle", "saving"} \cup Ended

ErrorInv ==
    /\ sending.type = "error" => pc = "settle" /\ (text = <<>> => Exhausted(sending.kind))
    /\ \A e \in told : e.type = "error" =>
          pc \in GivenUp /\ (text = <<>> => Exhausted(e.kind))

\* A step that tells the browser nothing and leaves a turn that gave up so.
LEMMA ErrorFrame ==
    ASSUME ErrorInv, UNCHANGED <<cand, attempt, text, told>>,
           sending'.type # "error" \/ (sending' = sending /\ pc' = pc),
           pc \in GivenUp => pc' \in GivenUp
    PROVE  ErrorInv'
  BY DEF ErrorInv, Exhausted, GivenUp, Ended

\* A step of a turn that has not given up.
LEMMA ErrorsLater ==
    ASSUME ErrorInv, pc \notin GivenUp, told' = told,
           sending'.type = "error" =>
              pc' = "settle" /\ (text = <<>> => Exhausted(sending.kind))'
    PROVE  ErrorInv'
  BY DEF ErrorInv

LEMMA ErrorStep == TypeOK /\ IInv /\ ErrorInv /\ [Next]_vars => ErrorInv'
  <1> SUFFICES ASSUME TypeOK, IInv, ErrorInv, [Next]_vars PROVE ErrorInv'
    OBVIOUS
  <1> USE DEF database, browser, attempts, GivenUp, Ended
  <1>1. CASE Begin \/ SendCanned
    BY <1>1, ErrorsLater, Events, ErrorFrame DEF Begin, SendCanned, Yield
  <1>2. CASE OpenCandidate
    <2>1. sending' = Error("unknown") => pc' = "settle" /\ Exhausted("unknown")'
      BY <1>2 DEF OpenCandidate, Yield, Announcement, Exhausted, RETRYABLE_KINDS,
                  FALLBACK_ELIGIBLE_KINDS, Error, FallbackTo, NoEvent
    <2>2. sending' = Error("unknown") \/ sending'.type # "error"
      BY <1>2, Events DEF OpenCandidate, Yield, Announcement
    <2>3. Error("unknown").kind = "unknown"
      BY DEF Error
    <2> QED
      BY <1>2, <2>1, <2>2, <2>3, ErrorsLater DEF OpenCandidate
  <1>3. CASE ProviderText \/ ProviderUsage \/ ProviderDone \/ ProviderEnds
    BY <1>3, ErrorsLater, Events
    DEF ProviderText, ProviderUsage, ProviderDone, ProviderEnds, Listening, Yield, Idle
  <1>4. ASSUME NEW kind \in ProviderErrorKind, Listening, HandleFailure(kind)
        PROVE  ErrorInv'
    <2>1. pc \notin GivenUp /\ told' = told /\ text' = text /\ sending = NoEvent
      BY <1>4 DEF Listening, HandleFailure, Idle
    <2>2. CASE Retry \/ FallBack
      BY <2>1, <2>2, ErrorsLater, Events DEF Retry, FallBack
    <2>3. CASE ~MayRetry(kind) /\ ~MayFallBack(kind) /\ GiveUp(kind)
      <3>1. /\ sending' = Error(kind) /\ pc' = "settle" /\ Error(kind).kind = kind
            /\ UNCHANGED <<cand, attempt>>
        BY <2>3 DEF GiveUp, Yield, Error
      <3>2. text = <<>> => Exhausted(kind)
        BY <2>3, TurnAssumption, CandidatesAreModels
        DEF MayRetry, MayFallBack, Exhausted, TypeOK, RETRYABLE_KINDS, FALLBACK_ELIGIBLE_KINDS
      <3> QED
        BY <2>1, <3>1, <3>2, ErrorsLater DEF Exhausted
    <2> QED
      BY <1>4, <2>2, <2>3 DEF HandleFailure
  <1>5. ASSUME NEW kind \in ProviderErrorKind, ProviderFails(kind) PROVE ErrorInv'
    BY <1>4, <1>5 DEF ProviderFails
  <1>6. CASE TimerExpires
    BY <1>4, <1>6 DEF TimerExpires, ProviderErrorKind
  <1>7. CASE Wake
    BY <1>7, ErrorsLater, Events DEF Wake, IInv, PlaceInv
  <1>8. CASE Settle
    BY <1>8, ErrorFrame, Events DEF Settle, Idle
  <1>9. CASE Acquire \/ InsertMessage \/ InsertUsage \/ Leave \/ Finished \/ UNCHANGED vars
    BY <1>9, ErrorFrame DEF Acquire, InsertMessage, InsertUsage, Leave, Finished, vars, generator
  <1>10. CASE Commit \/ SaveFails
    <2>1. UNCHANGED <<cand, attempt, text, told, sending>> /\ (pc' = pc \/ pc' \in Ended)
      BY <1>10 DEF Commit, SaveFails, SaveEnds
    <2>2. pc' # pc => pc = "saving"
      BY <1>10, JobShape
      DEF Commit, SaveFails, SaveEnds, IInv, StoreInv, TypeOK, Running, NoJob
    <2>3. pc = "saving" => sending.type # "error"
      BY DEF ErrorInv
    <2> QED
      BY <2>1, <2>2, <2>3, ErrorFrame
  <1>11. CASE Deliver
    <2>1. UNCHANGED <<cand, attempt, text, pc>> /\ sending'.type # "error"
      BY <1>11, Events DEF Deliver
    <2>2. \A e \in told' : e \in told \/ e = sending
      BY <1>11 DEF Deliver
    <2> QED
      BY <2>1, <2>2 DEF ErrorInv, Exhausted
  <1>12. CASE CancelAwaiting \/ CancelSaving \/ AbandonSending \/ Crash
    <2>1. /\ UNCHANGED <<cand, attempt, text, told>> /\ pc' \in Ended
          /\ sending' = NoEvent \/ (sending' = sending /\ pc \in {"streaming", "sleeping", "saving"})
      BY <1>12 DEF CancelAwaiting, CancelSaving, AbandonSending, Crash, CancelPoints
    <2>2. sending'.type # "error"
      BY <2>1, Events DEF ErrorInv
    <2> QED
      BY <2>1, <2>2, ErrorFrame
  <1> HIDE DEF database, browser, attempts, GivenUp, Ended
  <1> QED
    BY <1>1, <1>2, <1>3, <1>5, <1>6, <1>7, <1>8, <1>9, <1>10, <1>11, <1>12 DEF Next

\* No failure that could still have been retried or handed to a fallback is
\* shown in place of an answer.
THEOREM ErrorsAreExhaustedHolds == Spec => []ErrorsAreExhausted
  <1>1. Init => ErrorInv
    BY DEF Init, ErrorInv, NoEvent
  <1>2. ErrorInv => ErrorsAreExhausted
    BY DEF ErrorInv, ErrorsAreExhausted, Exhausted
  <1> QED
    BY <1>1, <1>2, ErrorStep, Invariance, PTL DEF Spec

-----------------------------------------------------------------------------
(* The number of retries: an attempt counter that starts over with every   *)
(* candidate, and a count for the turn that does not.                      *)

Fresh == {"open", "candidate"}

RetryInv ==
    /\ retry_count <= (cand - 1) * MaxRetries + attempt
    /\ pc \in Fresh => retry_count <= (cand - 1) * MaxRetries
    /\ attempt <= retry_count

LEMMA OneMoreCandidate ==
    ASSUME NEW c \in Nat \ {0}, NEW m \in Nat
    PROVE  (c - 1) * m \in Nat /\ (c - 1) * m + m = c * m
  OBVIOUS

LEMMA RetryStep == TypeOK /\ RetryInv /\ [Next]_vars => RetryInv'
  <1> SUFFICES ASSUME TypeOK, RetryInv, [Next]_vars PROVE RetryInv'
    OBVIOUS
  <1>1. /\ cand \in Nat \ {0} /\ MaxRetries \in Nat
        /\ attempt \in 0..MaxRetries /\ retry_count \in Nat
    BY TurnAssumption, CandidatesAreModels DEF TypeOK
  <1>2. PICK before \in Nat : before = (cand - 1) * MaxRetries /\ before + MaxRetries = cand * MaxRetries
    BY <1>1, OneMoreCandidate
  <1>3. /\ retry_count <= before + attempt
        /\ pc \in Fresh => retry_count <= before
        /\ attempt <= retry_count
    BY <1>2 DEF RetryInv
  <1>4. ASSUME UNCHANGED <<cand, retry_count>>,
               attempt' = attempt \/ (attempt' = 0 /\ pc \in Fresh),
               pc' \in Fresh => pc \in Fresh
        PROVE  RetryInv'
    <2>1. /\ retry_count <= before + attempt'
          /\ pc' \in Fresh => retry_count <= before
          /\ attempt' <= retry_count
      <3>1. CASE attempt' = attempt
        BY <1>1, <1>3, <1>4, <3>1
      <3>2. CASE attempt' = 0 /\ pc \in Fresh
        BY <1>1, <1>3, <1>4, <3>2
      <3> QED
        BY <1>4, <3>1, <3>2
    <2> QED
      BY <1>2, <1>4, <2>1 DEF RetryInv
  <1> USE DEF attempts, account, Fresh, database, browser
  <1>5. CASE Begin \/ SendCanned \/ OpenCandidate \/ Settle \/ Deliver \/ Leave
    BY <1>4, <1>5 DEF Begin, SendCanned, OpenCandidate, Settle, Deliver, Leave, Yield, generator
  <1>6. CASE ProviderText \/ ProviderUsage \/ ProviderDone \/ ProviderEnds \/ Wake
    BY <1>4, <1>6 DEF ProviderText, ProviderUsage, ProviderDone, ProviderEnds, Wake, Yield, Listening
  <1>7. ASSUME NEW kind, Listening, HandleFailure(kind) PROVE RetryInv'
    <2>1. CASE MayRetry(kind) /\ Retry
      <3>1. cand' = cand /\ attempt' = attempt + 1 /\ retry_count' = retry_count + 1 /\ pc' = "sleeping"
        BY <2>1 DEF Retry
      <3>2. retry_count' <= before + attempt' /\ attempt' <= retry_count'
        BY <1>1, <1>3, <1>7, <3>1 DEF Listening
      <3> QED
        BY <1>2, <3>1, <3>2 DEF RetryInv
    <2>2. CASE FallBack
      <3>1. cand' = cand + 1 /\ UNCHANGED <<attempt, retry_count>> /\ pc' = "candidate"
        BY <2>2 DEF FallBack
      <3>2. retry_count <= before + MaxRetries
        BY <1>1, <1>3
      <3>3. cand' - 1 = cand
        BY <1>1, <3>1
      <3>4. /\ retry_count' <= (cand' - 1) * MaxRetries
            /\ retry_count' <= (cand' - 1) * MaxRetries + attempt'
        BY <1>1, <1>2, <3>1, <3>2, <3>3
      <3> QED
        BY <1>3, <3>1, <3>4 DEF RetryInv
    <2>3. CASE GiveUp(kind)
      BY <1>4, <2>3 DEF GiveUp, Yield
    <2> QED
      BY <1>7, <2>1, <2>2, <2>3 DEF HandleFailure
  <1>8. ASSUME NEW kind \in ProviderErrorKind, ProviderFails(kind) PROVE RetryInv'
    BY <1>7, <1>8 DEF ProviderFails
  <1>9. CASE TimerExpires
    BY <1>7, <1>9 DEF TimerExpires
  <1>10. CASE Acquire \/ InsertMessage \/ InsertUsage \/ Finished \/ UNCHANGED vars
    BY <1>4, <1>10 DEF Acquire, InsertMessage, InsertUsage, Finished, vars, generator
  <1>11. CASE Commit \/ SaveFails \/ CancelAwaiting \/ CancelSaving \/ AbandonSending \/ Crash
    BY <1>4, <1>11 DEF Commit, SaveFails, SaveEnds, CancelAwaiting, CancelSaving, AbandonSending, Crash
  <1> HIDE DEF attempts, account, Fresh, database, browser
  <1> QED
    BY <1>5, <1>6, <1>8, <1>9, <1>10, <1>11 DEF Next

\* However candidates and attempts alternate, a turn makes at most MaxRetries
\* retries for each candidate it has opened.
THEOREM RetriesAreBoundedHolds == Spec => []RetriesAreBounded
  <1>1. Init => RetryInv
    BY TurnAssumption DEF Init, RetryInv, Fresh
  <1>2. TypeOK /\ RetryInv => RetriesAreBounded
    <2> SUFFICES ASSUME TypeOK, RetryInv PROVE RetriesAreBounded
      OBVIOUS
    <2>1. /\ cand \in Nat \ {0} /\ MaxRetries \in Nat
          /\ attempt \in 0..MaxRetries /\ retry_count \in Nat
      BY TurnAssumption, CandidatesAreModels DEF TypeOK
    <2>2. PICK before \in Nat : before = (cand - 1) * MaxRetries /\ before + MaxRetries = cand * MaxRetries
      BY <2>1, OneMoreCandidate
    <2>3. retry_count <= before + MaxRetries /\ attempt <= retry_count
      BY <2>1, <2>2 DEF RetryInv
    <2> QED
      BY <2>1, <2>2, <2>3 DEF RetriesAreBounded
  <1> QED
    BY <1>1, <1>2, RetryStep, TypeCorrect, PTL DEF Spec

-----------------------------------------------------------------------------
(* What a cancelled turn stores.                                           *)

LEMMA CancelledStep ==
    TypeOK /\ IInv /\ [Next]_vars =>
        [pc = "cancelled" => \A i \in DOMAIN messages' \ DOMAIN messages :
                                messages'[i].status = "interrupted"]_vars
  <1> SUFFICES ASSUME TypeOK, IInv, Next, pc = "cancelled",
                      NEW i \in DOMAIN messages' \ DOMAIN messages
               PROVE  messages'[i].status = "interrupted"
    OBVIOUS
  <1> USE DEF database
  <1>1. CASE Commit
    <2>1. job \in Job /\ job # NoJob
      BY <1>1, JobShape DEF TypeOK, Commit, NoJob
    <2>2. messages = <<>> /\ job.message.status = "interrupted"
      BY <2>1 DEF IInv, StoreInv
    <2>3. messages' = <<job.message>> /\ i = 1
      BY <1>1, <2>2 DEF Commit
    <2> QED
      BY <2>2, <2>3
  <1>2. messages' # messages
    OBVIOUS
  <1>3. CASE Begin \/ SendCanned \/ OpenCandidate \/ Wake \/ Settle \/ Deliver \/ Leave
    BY <1>2, <1>3 DEF Begin, SendCanned, OpenCandidate, Wake, Settle, Deliver, Leave
  <1>4. CASE ProviderText \/ ProviderUsage \/ ProviderDone \/ ProviderEnds \/ TimerExpires
    BY <1>2, <1>4
    DEF ProviderText, ProviderUsage, ProviderDone, ProviderEnds, TimerExpires, HandleFailure
  <1>5. ASSUME NEW kind \in ProviderErrorKind, ProviderFails(kind) PROVE FALSE
    BY <1>2, <1>5 DEF ProviderFails, HandleFailure
  <1>6. CASE Acquire \/ InsertMessage \/ InsertUsage \/ SaveFails \/ Finished
    BY <1>2, <1>6 DEF Acquire, InsertMessage, InsertUsage, SaveFails, Finished, vars
  <1>7. CASE CancelAwaiting \/ CancelSaving \/ AbandonSending \/ Crash
    BY <1>2, <1>7 DEF CancelAwaiting, CancelSaving, AbandonSending, Crash
  <1> HIDE DEF database
  <1> QED
    BY <1>1, <1>3, <1>4, <1>5, <1>6, <1>7 DEF Next

\* What a cancelled turn still stores is marked interrupted.
THEOREM CancelledIsInterruptedHolds == Spec => CancelledIsInterrupted
  BY CancelledStep, Invariance, PTL DEF Spec, CancelledIsInterrupted

-----------------------------------------------------------------------------
(* stream_reply implements TurnPromise.                                    *)

LEMMA SeenIsWritten ==
    ASSUME TypeOK, IInv
    PROVE  seen = Promise!Written(Writer, Len(seen))
  BY SMTT(30) DEF TypeOK, IInv, SeenInv, AllBy, Promise!Written

\* The refinement mapping of a message table with one row.
LEMMA KeptOne ==
    ASSUME NEW m
    PROVE  KeptOf(<<m>>) = <<[text |-> m.text, status |-> m.status]>>
  BY DEF KeptOf

LEMMA PromiseInit == Init => Promise!Init
  BY DEF Init, Promise!Init, KeptOf, Ended

LEMMA PromiseStep == TypeOK /\ IInv /\ TypeOK' /\ IInv' /\ [Next]_vars
                        => [Promise!Next]_Promise!promise
  <1> SUFFICES ASSUME TypeOK, IInv, TypeOK', IInv', [Next]_vars
               PROVE  [Promise!Next]_Promise!promise
    OBVIOUS
  <1> USE DEF database, attempts, browser
  <1>1. ASSUME UNCHANGED <<seen, messages>>, pc \in Ended <=> pc' \in Ended
        PROVE  UNCHANGED Promise!promise
    BY <1>1 DEF Promise!promise
  <1>2. ASSUME UNCHANGED <<seen, messages>>, pc \notin Ended, pc' \in Ended
        PROVE  Promise!Next
    BY <1>2 DEF Promise!Next, Promise!End
  <1>3. ASSUME UNCHANGED <<seen, messages>>, pc \in Ended => pc' \in Ended
        PROVE  [Promise!Next]_Promise!promise
    BY <1>1, <1>2, <1>3
  <1>4. CASE Commit
    <2>1. job \in Job /\ job # NoJob
      BY <1>4, JobShape DEF TypeOK, Commit, NoJob
    <2>2. /\ messages = <<>> /\ Whole(job.message.text) /\ job.message \in Message
          /\ pc \in Ended => job.message.status = "interrupted"
      BY <2>1 DEF IInv, StoreInv, Job, Ended
    <2>3. messages' = <<job.message>> /\ seen' = seen /\ pc' \in Ended
      BY <1>4, <2>1, <2>2 DEF Commit, SaveEnds, IInv, StoreInv, Ended, Running, TypeOK
    <2>4. PICK w \in Author \cup {Canned} : w = Writer
      BY MeIsAuthor DEF Writer
    <2>5. PICK k \in 1..MaxDeltas : k = Len(job.message.text)
      BY <2>2 DEF Whole
    <2>6. PICK st \in {"complete", "interrupted"} : st = job.message.status
      BY <2>2 DEF Message, Status
    <2>7. job.message.text = Promise!Written(w, k)
      BY <2>2, <2>4, <2>5 DEF Whole, AllBy, Message, Promise!Written
    <2>8. seen = Promise!Written(w, Len(seen))
      BY <2>4, SeenIsWritten
    <2>9. KeptOf(messages) = <<>>
      BY <2>2 DEF KeptOf
    <2>10. KeptOf(messages') = <<[text |-> Promise!Written(w, k), status |-> st]>>
      BY <2>3, <2>6, <2>7, KeptOne
    <2>11. Len(seen) <= k /\ (pc \in Ended => st = "interrupted")
      BY <2>2, <2>5, <2>6 DEF Whole
    <2>12. Promise!Keep(w, k, st)
      BY <2>3, <2>8, <2>9, <2>10, <2>11 DEF Promise!Keep, KeptOf
    <2> QED
      BY <2>12 DEF Promise!Next
  <1>5. CASE Deliver
    <2>1. UNCHANGED <<pc, messages>> /\ ~Idle
      BY <1>5 DEF Deliver
    <2>2. pc \notin Ended /\ messages = <<>>
      BY <2>1 DEF IInv, PlaceInv, StoreInv, Idle, TypeOK
    <2>3. CASE client = "reading" /\ sending.type = "text"
      <3>1. seen' = Append(seen, Writer) /\ Writer \in Author \cup {Canned}
        BY <1>5, <2>3, MeIsAuthor DEF Deliver, IInv, SeenInv, Writer
      <3>2. Promise!Hear(Writer)
        BY <2>1, <2>2, <3>1, SeenIsWritten DEF Promise!Hear, KeptOf
      <3> QED
        BY <3>1, <3>2 DEF Promise!Next
    <2>4. CASE ~(client = "reading" /\ sending.type = "text")
      BY <1>5, <1>3, <2>1, <2>4 DEF Deliver
    <2> QED
      BY <2>3, <2>4
  <1>6. CASE Begin \/ SendCanned \/ OpenCandidate \/ Wake \/ Settle
    BY <1>3, <1>6 DEF Begin, SendCanned, OpenCandidate, Wake, Settle, Ended
  <1>7. CASE ProviderText \/ ProviderUsage \/ ProviderDone \/ ProviderEnds
    BY <1>3, <1>7 DEF ProviderText, ProviderUsage, ProviderDone, ProviderEnds, Listening, Ended
  <1>8. ASSUME NEW kind, Listening, HandleFailure(kind)
        PROVE  [Promise!Next]_Promise!promise
    BY <1>3, <1>8 DEF HandleFailure, Listening, Ended
  <1>9. ASSUME NEW kind \in ProviderErrorKind, ProviderFails(kind)
        PROVE  [Promise!Next]_Promise!promise
    BY <1>8, <1>9 DEF ProviderFails
  <1>10. CASE TimerExpires
    BY <1>8, <1>10 DEF TimerExpires
  <1>11. CASE Acquire \/ InsertMessage \/ InsertUsage \/ Leave \/ Finished \/ UNCHANGED vars
    BY <1>3, <1>11 DEF Acquire, InsertMessage, InsertUsage, Leave, Finished, vars, generator
  <1>12. CASE SaveFails
    BY <1>3, <1>12 DEF SaveFails, SaveEnds, Ended
  <1>13. CASE CancelAwaiting \/ CancelSaving \/ AbandonSending \/ Crash
    BY <1>3, <1>13 DEF CancelAwaiting, CancelSaving, AbandonSending, Crash, Ended
  <1> HIDE DEF database, attempts, browser
  <1> QED
    BY <1>4, <1>5, <1>6, <1>7, <1>9, <1>10, <1>11, <1>12, <1>13 DEF Next

\* Every behaviour of a turn is, to its user, a behaviour of TurnPromise.
THEOREM TurnKeepsPromise == Spec => KeepsPromise
  BY PromiseInit, PromiseStep, Invariance, PTL DEF Spec, KeepsPromise, Promise!Spec

=============================================================================
