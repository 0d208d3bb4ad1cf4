------------------------------ MODULE Evidence ------------------------------
(***************************************************************************)
(* From uploaded documents to the numbered sources of a grounded answer:   *)
(* documents are cut and stored (Chunking) while a question is asked of    *)
(* their collection, which reads the chunks stored so far, embeds the      *)
(* question, ranks them (RetrievalService.retrieve), numbers what is left  *)
(* (assign_source_ids) and, once the model has answered, looks up the      *)
(* citations in its text (extract_valid_citations).                        *)
(*                                                                         *)
(* A chunk is a document and the index of one of its pieces.  Embeddings   *)
(* are abstracted to the similarity of each chunk with the question.       *)
(***************************************************************************)
EXTENDS Chunking

CONSTANTS
    Similarities,         \* bound: the values of cosine_similarity
    similarity_threshold,
    MIN_TOP_K, MAX_TOP_K,
    Answers               \* bound: the numbers [S<n>] in the model's answer, in order

ASSUME EvidenceAssumption ==
    /\ Similarities \subseteq Int /\ similarity_threshold \in Int
    /\ MIN_TOP_K \in Nat \ {0} /\ MAX_TOP_K \in Nat /\ MIN_TOP_K <= MAX_TOP_K
    /\ Answers \subseteq Seq(Nat)

VARIABLES
    asked,       \* how far the question is
    top_k,       \* how many sources it asks for
    candidates,  \* the chunks its query returned
    similarity,  \* of each candidate with the question
    sources,     \* the chunks numbered S1, S2, ...
    answer,      \* the citation marks of the answer
    cited        \* those that name a source

question_vars == <<asked, top_k, candidates, similarity, sources, answer, cited>>
vars == <<chunking_vars, question_vars>>

Chunk == [doc : DocumentIds, index : Nat \ {0}]

Init ==
    /\ ChunkingInit
    /\ asked = "not_yet" /\ top_k = MIN_TOP_K
    /\ candidates = {} /\ similarity = <<>> /\ sources = <<>>
    /\ answer = <<>> /\ cited = <<>>

-----------------------------------------------------------------------------
\* list_for_collection_with_filenames, one query.
StoredChunks ==
    UNION {{[doc |-> d, index |-> i] : i \in DOMAIN pieces[d]}
           : d \in {d \in DocumentIds : place[d] = "ready"}}

\* Without any chunk there are no sources: the answer is NO_EVIDENCE_MESSAGE and
\* nothing is embedded.  (Each definition named X_Something is X with a plausible
\* bug: the properties are tried against it.)
Ask_AnyTopK ==
    /\ cursor = NoCursor /\ asked = "not_yet"
    /\ top_k' \in 0..MAX_TOP_K
    /\ candidates' = StoredChunks
    /\ asked' = IF StoredChunks = {} THEN "unanswerable" ELSE "embedding"
    /\ UNCHANGED <<chunking_vars, similarity, sources, answer, cited>>
Ask ==
    /\ cursor = NoCursor /\ asked = "not_yet"
    /\ top_k' \in MIN_TOP_K..MAX_TOP_K
    /\ candidates' = StoredChunks
    /\ asked' = IF StoredChunks = {} THEN "unanswerable" ELSE "embedding"
    /\ UNCHANGED <<chunking_vars, similarity, sources, answer, cited>>

\* embed_query fails: prepare_turn raises and its transaction rolls back.
EmbedQueryFails ==
    /\ cursor = NoCursor /\ asked = "embedding"
    /\ asked' = "refused"
    /\ UNCHANGED <<chunking_vars, top_k, candidates, similarity, sources, answer, cited>>

\* scored.sort(reverse=True) is stable: equal similarities stay in the order of
\* the query, document_id then chunk_index.
Earlier(c, d) == c.doc < d.doc \/ (c.doc = d.doc /\ c.index < d.index)
Better(score, c, d) == score[c] > score[d] \/ (score[c] = score[d] /\ Earlier(c, d))
InOrder(S, Before(_, _)) ==
    [k \in 1..Cardinality(S) |->
        CHOOSE c \in S : Cardinality({d \in S : Before(d, c)}) = k - 1]
Sorted(S, score) == InOrder(S, LAMBDA c, d : Better(score, c, d))
FirstOf(s, n) == SubSeq(s, 1, IF Len(s) < n THEN Len(s) ELSE n)

\* Ranked, then the threshold, then the cut: what is left of a sorted list is
\* the sorted list of what is left.
Retrieved_CutsFirst(score) ==
    LET first == {FirstOf(InOrder(candidates, Earlier), top_k)[i] :
                    i \in 1..Len(FirstOf(InOrder(candidates, Earlier), top_k))}
    IN  Sorted({c \in first : score[c] >= similarity_threshold}, score)
Retrieved(score) ==
    FirstOf(Sorted({c \in candidates : score[c] >= similarity_threshold}, score), top_k)

Rank ==
    /\ cursor = NoCursor /\ asked = "embedding"
    /\ similarity' \in [candidates -> Similarities]
    /\ sources' = Retrieved(similarity')
    /\ asked' = IF sources' = <<>> THEN "unanswerable" ELSE "grounded"
    /\ UNCHANGED <<chunking_vars, top_k, candidates, answer, cited>>

\* extract_valid_citations: known ids, each once, in the order first seen.
FirstSeen(marks, valid_ids) ==
    LET result[k \in 0..Len(marks)] ==
            IF k = 0 THEN <<>>
            ELSE IF marks[k] \in valid_ids /\ ~ Contains(result[k - 1], marks[k])
                 THEN Append(result[k - 1], marks[k]) ELSE result[k - 1]
    IN  result[Len(marks)]
Citations_Trusted(marks, n) == FirstSeen(marks, Nat)
Citations(marks, n) == FirstSeen(marks, 1..n)

Cite ==
    /\ cursor = NoCursor /\ asked = "grounded"
    /\ answer' \in Answers
    /\ cited' = Citations(answer', Len(sources))
    /\ asked' = "answered"
    /\ UNCHANGED <<chunking_vars, top_k, candidates, similarity, sources>>

Uploading(d) == (Upload(d) \/ Ingest(d)) /\ UNCHANGED question_vars
Finished ==
    /\ asked \in {"unanswerable", "refused", "answered"}
    /\ \A d \in DocumentIds : place[d] \in {"ready", "failed", "lost"}
    /\ UNCHANGED vars

Next == (\E d \in DocumentIds : Uploading(d)) \/ Ask \/ EmbedQueryFails \/ Rank \/ Cite \/ Finished

Spec == Init /\ [][Next]_vars

\* chunk_text runs to its end without giving way; the embedding SDK gives up by
\* itself when the provider does not answer.
FairSpec == Spec /\ \A d \in DocumentIds : WF_vars(Ingest(d) /\ UNCHANGED question_vars)

-----------------------------------------------------------------------------
\* Every variable has its type, and a document is being cut exactly while the
\* cursor is in it (ingestion.py:49-55).  What the sources and the citations
\* are is said by TopAreBest and CitationsAreSources.
TypeOK ==
    /\ place \in [DocumentIds -> Places]
    /\ file \in [DocumentIds -> Seq(Page)]
    /\ config \in [DocumentIds -> ChunkingConfig]
    /\ pieces \in [DocumentIds -> Seq([page : Nat, from : Nat, to : Nat])]
    /\ cursor = NoCursor \/
       cursor \in [doc : DocumentIds, page : Nat, lo : Nat, hi : Nat, start : Nat]
    /\ \A d \in DocumentIds : place[d] = "chunking" <=> cursor # NoCursor /\ cursor.doc = d
    /\ asked \in {"not_yet", "embedding", "unanswerable", "refused", "grounded", "answered"}
    /\ top_k \in MIN_TOP_K..MAX_TOP_K
    /\ candidates \subseteq Chunk
    /\ answer \in Seq(Nat)

\* The chunks S of document d hold whole, in one of them, every passage of at
\* most overlap + 1 characters of every page.
Whole(d, S) ==
    \A p \in DOMAIN file[d] : \A s, e \in DOMAIN file[d][p] :
        /\ file[d][p][s] /\ file[d][p][e]
        /\ s <= e /\ e - s <= config[d].overlap
        => \E i \in S : pieces[d][i].page = p /\ pieces[d][i].from <= s /\ e <= pieces[d][i].to

\* What overlap is for (chunk_text, ChunkingConfig): nothing visible is lost
\* between two windows, a dropped blank slice, two pages or the end of a page,
\* and no passage of up to overlap + 1 characters is cut in two everywhere.
SpansAreWhole ==
    \A d \in DocumentIds : place[d] \in {"embedding", "ready"} => Whole(d, DOMAIN pieces[d])

\* chunk_index is the reading order (create_many enumerates the texts in the
\* order ingest collected them), and no two chunks begin at the same character:
\* the window always advances, so a document has no more chunks than characters.
PiecesAreOrdered ==
    \A d \in DocumentIds : \A i, j \in DOMAIN pieces[d] : i < j =>
        \/ pieces[d][i].page < pieces[d][j].page
        \/ pieces[d][i].page = pieces[d][j].page /\ pieces[d][i].from < pieces[d][j].from

\* A question asked while documents are uploaded sees each of them whole or not
\* at all, whatever the embedding provider answered for its texts.
EvidenceIsWhole ==
    \A d \in {c.doc : c \in candidates} :
        Whole(d, {i \in DOMAIN pieces[d] : [doc |-> d, index |-> i] \in candidates})

\* The sources S1, S2, ... of an answer (retrieve) are the top_k candidates that
\* reach the threshold: none left out is better, equals keep the order of the
\* documents, and only without any such candidate is the answer that nothing is
\* known.
TopAreBest ==
    asked \in {"unanswerable", "grounded", "answered"} =>
        LET enough == {c \in candidates : similarity[c] >= similarity_threshold}
            best == {sources[i] : i \in DOMAIN sources}
        IN  /\ best \subseteq enough
            /\ \A i, j \in DOMAIN sources : i < j => Better(similarity, sources[i], sources[j])
            /\ \A c \in enough \ best : \A i \in DOMAIN sources : Better(similarity, sources[i], c)
            /\ Len(sources) = (IF Cardinality(enough) < top_k THEN Cardinality(enough) ELSE top_k)
            /\ (asked = "unanswerable") = (enough = {})

\* The citations of an answer (extract_valid_citations) are its marks that name
\* a source, each once, in the order they are first seen.
CitationsAreSources ==
    asked = "answered" =>
        /\ \A m \in {answer[a] : a \in DOMAIN answer} \cup {cited[i] : i \in DOMAIN cited} :
               Contains(cited, m) <=> Contains(answer, m) /\ m \in DOMAIN sources
        /\ \A i, j \in DOMAIN cited : i < j =>
               \E a \in DOMAIN answer : /\ answer[a] = cited[i]
                                        /\ \A b \in 1..a : answer[b] # cited[j]

\* Every upload comes to an end: the window reaches the end of every page.
IngestionEnds ==
    \A d \in DocumentIds : place[d] = "chunking" ~> place[d] \in {"ready", "failed", "lost"}
=============================================================================
