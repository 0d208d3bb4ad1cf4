------------------------------ MODULE Chunking ------------------------------
(***************************************************************************)
(* Cutting an uploaded document into the chunks that are embedded and      *)
(* stored: extract, chunk_text and the loop of IngestionService.ingest.    *)
(*                                                                         *)
(* A page is a sequence of characters of which only one thing matters,     *)
(* whether it is visible (TRUE) or whitespace.  A piece is the part        *)
(* from..to of a page.  Nothing is awaited between extract and the         *)
(* embedding call, so one document is cut at a time; what becomes of the   *)
(* rows when a step fails is the module Ingestion.                         *)
(***************************************************************************)
EXTENDS Integers, Sequences, SequencesExt

CONSTANTS
    MIN_CHUNK_SIZE, MAX_CHUNK_SIZE,
    DocumentIds,  \* bound: documents; ids are random, and compare
    Inputs,       \* bound: what may be uploaded as each document, and how
    NoCursor

Page == Seq(BOOLEAN)
ChunkingConfig == [chunk_size : Nat, overlap : Int]

ASSUME ChunkingAssumption ==
    /\ MIN_CHUNK_SIZE \in Nat \ {0} /\ MAX_CHUNK_SIZE \in Nat
    /\ DocumentIds \subseteq Nat
    /\ Inputs \in [DocumentIds -> SUBSET [pages : Seq(Page), config : ChunkingConfig]]
    /\ NoCursor \notin [doc : DocumentIds, page : Nat, lo : Nat, hi : Nat, start : Nat]

VARIABLES
    place,   \* how far the ingestion of each document is
    file,    \* its pages
    config,  \* its ChunkingConfig
    pieces,  \* texts and page_numbers; the chunks once it is ready
    cursor   \* the page being cut, its stripped text lo..hi, and start in it

chunking_vars == <<place, file, config, pieces, cursor>>

Places == {"none", "chunking", "embedding", "ready", "failed", "lost"}

ChunkingInit ==
    /\ place = [d \in DocumentIds |-> "none"]
    /\ file = [d \in DocumentIds |-> <<>>]
    /\ config = [d \in DocumentIds |-> [chunk_size |-> MIN_CHUNK_SIZE, overlap |-> 0]]
    /\ pieces = [d \in DocumentIds |-> <<>>]
    /\ cursor = NoCursor

-----------------------------------------------------------------------------
\* ChunkingConfig.__post_init__.  (Each definition named X_Something is X with
\* a plausible bug: the properties are tried against it.)
Valid_AllowsEqual(c) ==
    c.chunk_size \in MIN_CHUNK_SIZE..MAX_CHUNK_SIZE /\ c.overlap \in 0..c.chunk_size
Valid(c) ==
    c.chunk_size \in MIN_CHUNK_SIZE..MAX_CHUNK_SIZE /\ c.overlap \in 0..(c.chunk_size - 1)

\* A document that passed the route's guards gets its row, and its id.
Upload(d) ==
    /\ cursor = NoCursor /\ place[d] = "none"
    /\ place' = [place EXCEPT ![d] = "chunking"]
    /\ \E input \in Inputs[d] :
        /\ Valid(input.config)
        /\ file' = [file EXCEPT ![d] = input.pages]
        /\ config' = [config EXCEPT ![d] = input.config]
    /\ cursor' = [doc |-> d, page |-> 0, lo |-> 1, hi |-> 0, start |-> 0]
    /\ UNCHANGED pieces

Cutting(d) == place[d] = "chunking" /\ cursor # NoCursor /\ cursor.doc = d

\* extract raises: bytes that are not a text, or a PDF that cannot be read.
ExtractFails(d) ==
    /\ Cutting(d) /\ cursor.page = 0
    /\ place' = [place EXCEPT ![d] = "failed"] /\ cursor' = NoCursor
    /\ UNCHANGED <<file, config, pieces>>

\* What strip() leaves of a text is text[lo..hi]; nothing when it is blank.
Blank(text) == \A i \in DOMAIN text : ~ text[i]
Stripped(text, lo, hi) ==
    IF Blank(text) THEN lo = 1 /\ hi = 0
    ELSE /\ lo \in DOMAIN text /\ text[lo]
         /\ hi \in DOMAIN text /\ text[hi]
         /\ \A i \in DOMAIN text : text[i] => i \in lo..hi

\* start < len(stripped)
MoreToCut == cursor.lo + cursor.start <= cursor.hi

NextPage_StartsOver(d) ==
    /\ Cutting(d) /\ ~ MoreToCut /\ cursor.page < Len(file[d])
    /\ LET text == file[d][cursor.page + 1]
       IN  \E lo, hi \in 0..(Len(text) + 1) :
            /\ Stripped(text, lo, hi)
            /\ cursor' = [doc |-> d, page |-> cursor.page + 1, lo |-> lo, hi |-> hi, start |-> 0]
    /\ pieces' = [pieces EXCEPT ![d] = <<>>]
    /\ UNCHANGED <<place, file, config>>
NextPage(d) ==
    /\ Cutting(d) /\ ~ MoreToCut /\ cursor.page < Len(file[d])
    /\ LET text == file[d][cursor.page + 1]
       IN  \E lo, hi \in 0..(Len(text) + 1) :
            /\ Stripped(text, lo, hi)
            /\ cursor' = [doc |-> d, page |-> cursor.page + 1, lo |-> lo, hi |-> hi, start |-> 0]
    /\ UNCHANGED <<place, file, config, pieces>>

\* stripped[start : start + chunk_size]; a slice of whitespace is dropped.
Window(d) ==
    LET from == cursor.lo + cursor.start
        past == from + config[d].chunk_size - 1
    IN  [page |-> cursor.page, from |-> from, to |-> IF past < cursor.hi THEN past ELSE cursor.hi]
Visible(d, piece) == \E i \in piece.from..piece.to : file[d][piece.page][i]
TheStep(d) == config[d].chunk_size - config[d].overlap

Slide_NoOverlap(d) ==
    /\ Cutting(d) /\ MoreToCut
    /\ pieces' = IF Visible(d, Window(d))
                 THEN [pieces EXCEPT ![d] = Append(@, Window(d))] ELSE pieces
    /\ cursor' = [cursor EXCEPT !.start = @ + config[d].chunk_size]
    /\ UNCHANGED <<place, file, config>>
Slide_StaysOnBlank(d) ==
    /\ Cutting(d) /\ MoreToCut
    /\ pieces' = IF Visible(d, Window(d))
                 THEN [pieces EXCEPT ![d] = Append(@, Window(d))] ELSE pieces
    /\ cursor' = IF Visible(d, Window(d))
                 THEN [cursor EXCEPT !.start = @ + TheStep(d)] ELSE cursor
    /\ UNCHANGED <<place, file, config>>
Slide(d) ==
    /\ Cutting(d) /\ MoreToCut
    /\ pieces' = IF Visible(d, Window(d))
                 THEN [pieces EXCEPT ![d] = Append(@, Window(d))] ELSE pieces
    /\ cursor' = [cursor EXCEPT !.start = @ + TheStep(d)]
    /\ UNCHANGED <<place, file, config>>

\* No chunk at all is an ExtractionError; otherwise they are sent to the
\* embedding provider.
AllCut(d) ==
    /\ Cutting(d) /\ ~ MoreToCut /\ cursor.page = Len(file[d])
    /\ place' = [place EXCEPT ![d] = IF pieces[d] = <<>> THEN "failed" ELSE "embedding"]
    /\ cursor' = NoCursor
    /\ UNCHANGED <<file, config, pieces>>

\* The provider answers with n vectors and the closing transaction writes the
\* rows: create_many asserts that there is one for each text, and zip would
\* stop at the shortest.
Store_Zips(d) ==
    /\ cursor = NoCursor /\ place[d] = "embedding"
    /\ \E n \in 0..Len(pieces[d]) :
        /\ place' = [place EXCEPT ![d] = "ready"]
        /\ pieces' = [pieces EXCEPT ![d] = SubSeq(@, 1, n)]
    /\ UNCHANGED <<file, config, cursor>>
Store(d) ==
    /\ cursor = NoCursor /\ place[d] = "embedding"
    /\ \E n \in 0..Len(pieces[d]) :
        place' = [place EXCEPT ![d] = IF n = Len(pieces[d]) THEN "ready" ELSE "lost"]
    /\ UNCHANGED <<file, config, pieces, cursor>>

\* The embedding call fails.
EmbedFails(d) ==
    /\ cursor = NoCursor /\ place[d] = "embedding"
    /\ place' = [place EXCEPT ![d] = "failed"]
    /\ UNCHANGED <<file, config, pieces, cursor>>

Ingest(d) ==
    \/ ExtractFails(d) \/ NextPage(d) \/ Slide(d) \/ AllCut(d) \/ Store(d) \/ EmbedFails(d)
=============================================================================
