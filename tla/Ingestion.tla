----------------------------- MODULE Ingestion -----------------------------
(***************************************************************************)
(* Uploading documents into a collection: the route upload_document and    *)
(* IngestionService.ingest, for any number of concurrent uploads, with the *)
(* tables documents and chunks, failures of extraction, of the embedding   *)
(* provider and of the database, and restarts of the server.               *)
(*                                                                         *)
(* An upload stands for its document row (every upload creates its own).   *)
(* Text, embeddings and error wording are abstracted: what matters is how  *)
(* many pieces the document is cut into and which of them are stored.      *)
(***************************************************************************)
EXTENDS Integers, FiniteSets

CONSTANTS Uploads,   \* the upload requests
          MaxPieces  \* bound: pieces a document is cut into

ASSUME IngestionAssumption == MaxPieces \in Nat \ {0}

VARIABLES
    pc,         \* where the request of each upload is
    pieces,     \* len(texts) of each upload, once extracted
    written,    \* the chunk indexes its open transaction has inserted
    documents,  \* committed: the status of each upload's row
    chunks      \* committed: pairs of an upload and a chunk index

vars == <<pc, pieces, written, documents, chunks>>

Working == {"arrived", "admitted", "registered", "extracted", "embedded",
            "inserted", "marked", "failing"}
Over == {"rejected", "answered_ready", "answered_failed", "raised", "lost"}

Init ==
    /\ pc = [u \in Uploads |-> "arrived"]
    /\ pieces = [u \in Uploads |-> 0]
    /\ written = [u \in Uploads |-> {}]
    /\ documents = [u \in Uploads |-> "none"]
    /\ chunks = {}

Goto(u, from, to) == pc[u] = from /\ pc' = [pc EXCEPT ![u] = to]
Stored(u) == {c \in chunks : c[1] = u}
AllPieces(u) == {u} \X (1..pieces[u])

-----------------------------------------------------------------------------
\* The route's guards: unknown collection, unsupported or missing file type,
\* empty or oversized body, bad chunking parameters.
Admit(u) ==
    /\ Goto(u, "arrived", "admitted") \/ Goto(u, "arrived", "rejected")
    /\ UNCHANGED <<pieces, written, documents, chunks>>

\* The document row is committed before anything can fail.
Register(u) ==
    /\ Goto(u, "admitted", "registered")
    /\ documents' = [documents EXCEPT ![u] = "processing"]
    /\ UNCHANGED <<pieces, written, chunks>>

\* extract and chunk_text: at least one piece, or an ExtractionError.
Extract(u) ==
    /\ \/ /\ Goto(u, "registered", "extracted")
          /\ \E n \in 1..MaxPieces : pieces' = [pieces EXCEPT ![u] = n]
       \/ Goto(u, "registered", "failing") /\ pieces' = pieces
    /\ UNCHANGED <<written, documents, chunks>>

\* embed_documents: vectors, a ProviderError, or no configured provider.  (Each
\* definition named X_Something is X with a plausible bug: the properties are
\* tried against it.)
Embed_StartsOver(u) ==
    /\ Goto(u, "extracted", "embedded") \/ Goto(u, "extracted", "registered")
    /\ UNCHANGED <<pieces, written, documents, chunks>>
Embed(u) ==
    /\ Goto(u, "extracted", "embedded") \/ Goto(u, "extracted", "failing")
    /\ UNCHANGED <<pieces, written, documents, chunks>>

\* The closing transaction: create_many, mark_ready, commit.
InsertChunks_Committed(u) ==
    /\ Goto(u, "embedded", "inserted")
    /\ chunks' = chunks \cup AllPieces(u)
    /\ UNCHANGED <<pieces, written, documents>>
InsertChunks(u) ==
    /\ Goto(u, "embedded", "inserted")
    /\ written' = [written EXCEPT ![u] = 1..pieces[u]]
    /\ UNCHANGED <<pieces, documents, chunks>>

MarkReady(u) ==
    /\ Goto(u, "inserted", "marked")
    /\ UNCHANGED <<pieces, written, documents, chunks>>

CommitReady(u) ==
    /\ Goto(u, "marked", "answered_ready")
    /\ documents' = [documents EXCEPT ![u] = "ready"]
    /\ chunks' = chunks \cup ({u} \X written[u])
    /\ written' = [written EXCEPT ![u] = {}]
    /\ UNCHANGED pieces

\* _fail: one committed update.
Fail(u) ==
    /\ Goto(u, "failing", "answered_failed")
    /\ documents' = [documents EXCEPT ![u] = "failed"]
    /\ UNCHANGED <<pieces, written, chunks>>

\* An exception ingest does not catch leaves the request; an open transaction
\* rolls back.  The database may refuse any statement (a NUL character in a
\* text, a vector of another dimension, a lost connection), and extraction may
\* raise something else than ExtractionError.  (A COMMIT whose answer is lost is
\* Register, CommitReady or Fail: only what the browser is told differs.)
RaisePoints == {"arrived", "admitted", "registered", "embedded", "inserted",
                "marked", "failing"}
Raise(u) ==
    /\ pc[u] \in RaisePoints
    /\ pc' = [pc EXCEPT ![u] = "raised"]
    /\ written' = [written EXCEPT ![u] = {}]
    /\ UNCHANGED <<pieces, documents, chunks>>

\* The server restarts: every request under way is lost.
Restart_SweepsAll ==
    /\ \E u \in Uploads : pc[u] \in Working
    /\ pc' = [u \in Uploads |-> IF pc[u] \in Working THEN "lost" ELSE pc[u]]
    /\ written' = [u \in Uploads |-> {}]
    /\ documents' = [u \in Uploads |-> IF documents[u] = "none" THEN "none" ELSE "failed"]
    /\ UNCHANGED <<pieces, chunks>>
Restart ==
    /\ \E u \in Uploads : pc[u] \in Working
    /\ pc' = [u \in Uploads |-> IF pc[u] \in Working THEN "lost" ELSE pc[u]]
    /\ written' = [u \in Uploads |-> {}]
    /\ UNCHANGED <<pieces, documents, chunks>>

Step(u) ==
    \/ Admit(u) \/ Register(u) \/ Extract(u) \/ Embed(u)
    \/ InsertChunks(u) \/ MarkReady(u) \/ CommitReady(u) \/ Fail(u)
    \/ Raise(u)

Finished == (\A u \in Uploads : pc[u] \in Over) /\ UNCHANGED vars

Next == (\E u \in Uploads : Step(u)) \/ Restart \/ Finished

Spec == Init /\ [][Next]_vars

\* The event loop runs every request; the embedding SDK gives up by itself
\* when the provider does not answer.
FairSpec == Spec /\ \A u \in Uploads : WF_vars(Step(u))

-----------------------------------------------------------------------------
TypeOK ==
    /\ pc \in [Uploads -> Working \cup Over]
    /\ pieces \in [Uploads -> 0..MaxPieces]
    /\ written \in [Uploads -> SUBSET (1..MaxPieces)]
    /\ documents \in [Uploads -> {"none", "processing", "ready", "failed"}]
    /\ chunks \subseteq Uploads \X (1..MaxPieces)
    /\ \A u \in Uploads : pc[u] \in {"extracted", "embedded", "inserted", "marked",
                                    "answered_ready"} => pieces[u] # 0

\* Retrieval reads chunks without looking at the document's status: a document
\* is ready exactly when all its pieces can be retrieved, and no piece of
\* another document ever can, whatever fails and whenever the server restarts.
ReadyIsComplete ==
    \A u \in Uploads :
        Stored(u) = IF documents[u] = "ready" THEN AllPieces(u) ELSE {}

\* The status a request answers with is the stored one.
AnswerIsStored ==
    \A u \in Uploads :
        /\ pc[u] = "answered_ready" => documents[u] = "ready"
        /\ pc[u] = "answered_failed" => documents[u] = "failed"

\* A document that is ready or failed stays so, and its chunks with it: no
\* later failure, restart or other upload takes them back.
KeepsOutcomes ==
    \A u \in Uploads : documents[u] \in {"ready", "failed"} =>
        documents'[u] = documents[u] /\ Stored(u)' = Stored(u)

OutcomeIsFinal == [][KeepsOutcomes]_vars

\* Every upload request comes to an end.
UploadsEnd == \A u \in Uploads : <>(pc[u] \in Over)

\* ingestion.py and DESIGN.md: a document is never left at 'processing'.
NeverStuck ==
    \A u \in Uploads : documents[u] = "processing" => pc[u] \in Working
=============================================================================
