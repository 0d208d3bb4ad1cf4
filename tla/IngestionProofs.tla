-------------------------- MODULE IngestionProofs --------------------------
(***************************************************************************)
(* Theorems about Ingestion, for any number of uploads of any length.      *)
(***************************************************************************)
EXTENDS Ingestion, TLAPS

\* What the row of an upload can say, by where its request is.  A request
\* that raised or was lost had registered its document or had not.
Rows(place) ==
    CASE place \in {"arrived", "admitted", "rejected"} -> {"none"}
      [] place = "answered_ready" -> {"ready"}
      [] place = "answered_failed" -> {"failed"}
      [] place \in {"raised", "lost"} -> {"none", "processing"}
      [] OTHER -> {"processing"}

\* What the two tables and the open transaction hold for an upload.
UploadInv(u) ==
    /\ documents[u] \in Rows(pc[u])
    /\ written[u] = IF pc[u] \in {"inserted", "marked"} THEN 1..pieces[u] ELSE {}
    /\ Stored(u) = IF pc[u] = "answered_ready" THEN AllPieces(u) ELSE {}

IInv == TypeOK /\ \A u \in Uploads : UploadInv(u)

\* The steps of one upload leave the others alone.
Untouched(v) ==
    /\ pc'[v] = pc[v] /\ pieces'[v] = pieces[v] /\ written'[v] = written[v]
    /\ documents'[v] = documents[v] /\ Stored(v)' = Stored(v)

LEMMA UntouchedKeeps ==
    ASSUME NEW v \in Uploads, UploadInv(v), Untouched(v)
    PROVE  UploadInv(v)'
  BY DEF UploadInv, Untouched, AllPieces

LEMMA OthersUntouched ==
    ASSUME IInv, NEW u \in Uploads, NEW v \in Uploads, v # u, Step(u)
    PROVE  Untouched(v)
  <1> USE DEF IInv, TypeOK, Untouched, Goto, Stored
  <1>1. CASE Admit(u)
    BY <1>1 DEF Admit
  <1>2. CASE Register(u)
    BY <1>2 DEF Register
  <1>3. CASE Extract(u)
    BY <1>3 DEF Extract
  <1>4. CASE Embed(u)
    BY <1>4 DEF Embed
  <1>5. CASE InsertChunks(u)
    BY <1>5 DEF InsertChunks
  <1>6. CASE MarkReady(u)
    BY <1>6 DEF MarkReady
  <1>7. CASE CommitReady(u)
    BY <1>7 DEF CommitReady
  <1>8. CASE Fail(u)
    BY <1>8 DEF Fail
  <1>9. CASE Raise(u)
    BY <1>9 DEF Raise
  <1> QED
    BY <1>1, <1>2, <1>3, <1>4, <1>5, <1>6, <1>7, <1>8, <1>9 DEF Step

\* A step of an upload keeps the state well typed.
LEMMA StepTypeOK ==
    ASSUME IInv, NEW u \in Uploads, Step(u)
    PROVE  TypeOK'
  <1> USE IngestionAssumption DEF IInv, TypeOK, Goto, Working, Over
  <1>1. CASE Admit(u)
    BY <1>1 DEF Admit
  <1>2. CASE Register(u)
    BY <1>2 DEF Register
  <1>3. CASE Extract(u)
    BY <1>3 DEF Extract
  <1>4. CASE Embed(u)
    BY <1>4 DEF Embed
  <1>5. CASE InsertChunks(u)
    BY <1>5 DEF InsertChunks
  <1>6. CASE MarkReady(u)
    BY <1>6 DEF MarkReady
  <1>7. CASE CommitReady(u)
    BY <1>7 DEF CommitReady
  <1>8. CASE Fail(u)
    BY <1>8 DEF Fail
  <1>9. CASE Raise(u)
    BY <1>9 DEF Raise, RaisePoints
  <1> QED
    BY <1>1, <1>2, <1>3, <1>4, <1>5, <1>6, <1>7, <1>8, <1>9 DEF Step

\* A step of an upload keeps what the tables hold for it.
LEMMA StepUploadInv ==
    ASSUME IInv, NEW u \in Uploads, Step(u)
    PROVE  UploadInv(u)'
  <1> USE IngestionAssumption
      DEF IInv, TypeOK, UploadInv, Rows, Goto, Stored, AllPieces
  <1>1. CASE Admit(u)
    BY <1>1 DEF Admit
  <1>2. CASE Register(u)
    BY <1>2 DEF Register
  <1>3. CASE Extract(u)
    <2>1. pc[u] = "registered" /\ pc'[u] \in {"extracted", "failing"}
      BY <1>3 DEF Extract
    <2>2. UNCHANGED <<written, documents, chunks>>
      BY <1>3 DEF Extract
    <2>3. documents[u] = "processing" /\ written[u] = {} /\ Stored(u) = {}
      BY <2>1
    <2>4. documents'[u] = "processing" /\ written'[u] = {} /\ Stored(u)' = {}
      BY <2>2, <2>3
    <2> QED
      BY <2>1, <2>4
  <1>4. CASE Embed(u)
    BY <1>4 DEF Embed
  <1>5. CASE InsertChunks(u)
    BY <1>5 DEF InsertChunks
  <1>6. CASE MarkReady(u)
    BY <1>6 DEF MarkReady
  <1>7. CASE CommitReady(u)
    BY <1>7 DEF CommitReady
  <1>8. CASE Fail(u)
    BY <1>8 DEF Fail
  <1>9. CASE Raise(u)
    BY <1>9 DEF Raise, RaisePoints
  <1> QED
    BY <1>1, <1>2, <1>3, <1>4, <1>5, <1>6, <1>7, <1>8, <1>9 DEF Step

LEMMA RestartKeeps ==
    ASSUME IInv, Restart
    PROVE  IInv'
  <1>1. TypeOK'
    BY DEF IInv, TypeOK, Restart, Working, Over
  <1>2. ASSUME NEW u \in Uploads
        PROVE  UploadInv(u)'
    <2>1. CASE pc[u] \in Working
      BY <2>1 DEF IInv, UploadInv, Rows, Restart, Working, Stored, AllPieces
    <2>2. CASE pc[u] \notin Working
      BY <2>2 DEF IInv, UploadInv, Rows, Restart, Working, Stored, AllPieces
    <2> QED
      BY <2>1, <2>2
  <1> QED
    BY <1>1, <1>2 DEF IInv

LEMMA Inductive == IInv /\ [Next]_vars => IInv'
  <1> SUFFICES ASSUME IInv, [Next]_vars
               PROVE  IInv'
    OBVIOUS
  <1>1. ASSUME NEW u \in Uploads, Step(u)
        PROVE  IInv'
    <2>1. ASSUME NEW v \in Uploads, v # u
          PROVE  UploadInv(v)'
      BY <1>1, <2>1, OthersUntouched, UntouchedKeeps DEF IInv
    <2> QED
      BY <1>1, <2>1, StepTypeOK, StepUploadInv DEF IInv
  <1>2. CASE UNCHANGED vars
    BY <1>2 DEF vars, IInv, TypeOK, UploadInv, Stored, AllPieces
  <1> QED
    BY <1>1, <1>2, RestartKeeps DEF Next, Finished

LEMMA Initially == Init => IInv
  BY IngestionAssumption
     DEF Init, IInv, TypeOK, UploadInv, Rows, Stored, AllPieces, Working, Over

LEMMA Invariance == Spec => []IInv
  BY Initially, Inductive, PTL DEF Spec

\* Every value the ingestion keeps has its type, and no document reaches its
\* closing transaction without a piece.
THEOREM TypeCorrect == Spec => []TypeOK
  BY Invariance, PTL DEF IInv

\* A document is ready exactly when all its chunks are stored, and no chunk of
\* another document ever is: ingest's closing transaction is all or nothing.
THEOREM ReadyIsCompleteHolds == Spec => []ReadyIsComplete
  <1>1. IInv => ReadyIsComplete
    BY DEF IInv, TypeOK, UploadInv, Rows, ReadyIsComplete, Working, Over
  <1> QED
    BY <1>1, Invariance, PTL

\* The status upload_document answers with is the one that is stored.
THEOREM AnswerIsStoredHolds == Spec => []AnswerIsStored
  <1>1. IInv => AnswerIsStored
    BY DEF IInv, UploadInv, Rows, AnswerIsStored
  <1> QED
    BY <1>1, Invariance, PTL

\* Nothing takes a ready or failed document, or its chunks, back.
THEOREM OutcomeIsFinalHolds == Spec => OutcomeIsFinal
  <1> DEFINE Kept(v) == documents[v] \in {"ready", "failed"} =>
                           documents'[v] = documents[v] /\ Stored(v)' = Stored(v)
  <1>1. ASSUME IInv, [Next]_vars, NEW v \in Uploads
        PROVE  Kept(v)
    <2>1. ASSUME NEW u \in Uploads, Step(u)
          PROVE  Kept(v)
      <3>1. CASE v # u
        BY <1>1, <2>1, <3>1, OthersUntouched DEF Untouched
      <3>2. CASE v = u
        <4>1. pc[u] \in Working
          BY <2>1 DEF Step, Goto, Working, Admit, Register, Extract, Embed,
                      InsertChunks, MarkReady, CommitReady, Fail, Raise, RaisePoints
        <4>2. documents[u] \in {"none", "processing"}
          BY <1>1, <4>1 DEF IInv, UploadInv, Rows, Working
        <4> QED
          BY <3>2, <4>2
      <3> QED
        BY <3>1, <3>2
    <2>2. CASE Restart
      BY <2>2 DEF Restart, Stored
    <2>3. CASE UNCHANGED vars
      BY <2>3 DEF vars, Stored
    <2> QED
      BY <1>1, <2>1, <2>2, <2>3 DEF Next, Finished
  <1>2. IInv /\ [Next]_vars => [KeepsOutcomes]_vars
    BY <1>1 DEF KeepsOutcomes
  <1> QED
    BY <1>2, Invariance, PTL DEF Spec, OutcomeIsFinal
=============================================================================
