--------------------------- MODULE EvidenceProofs ---------------------------
(***************************************************************************)
(* What overlapping windows guarantee for every document, chunk size and   *)
(* overlap: every short enough passage is whole in a chunk, the chunks are *)
(* in reading order, and a question finds each document whole or not.      *)
(*                                                                         *)
(* While a document is being cut the first two hold up to the cursor: all  *)
(* that begins on an earlier page, or before start on this one, is done.   *)
(***************************************************************************)
EXTENDS Evidence, FiniteSetTheorems, WellFoundedInduction, TLAPS

Piece == [page : Nat, from : Nat, to : Nat]
Cursors == [doc : DocumentIds, page : Nat, lo : Nat, hi : Nat, start : Nat]

Types ==
    /\ place \in [DocumentIds -> Places]
    /\ file \in [DocumentIds -> Seq(Page)]
    /\ config \in [DocumentIds -> ChunkingConfig]
    /\ pieces \in [DocumentIds -> Seq(Piece)]
    /\ cursor = NoCursor \/ cursor \in Cursors

On(d) == cursor # NoCursor /\ cursor.doc = d

CursorFits(d) ==
    On(d) =>
        /\ place[d] = "chunking" /\ cursor.page <= Len(file[d])
        /\ cursor.page = 0 => cursor.lo + cursor.start > cursor.hi
        /\ cursor.page # 0 => Stripped(file[d][cursor.page], cursor.lo, cursor.hi)

Prepared(d) ==
    /\ place[d] = "none" => pieces[d] = <<>>
    /\ place[d] # "none" => Valid(config[d])

Passage(d, p, s, e) ==
    /\ file[d][p][s] /\ file[d][p][e]
    /\ s <= e /\ e - s <= config[d].overlap
Held(d, p, s, e) ==
    \E i \in DOMAIN pieces[d] :
        pieces[d][i].page = p /\ pieces[d][i].from <= s /\ e <= pieces[d][i].to

\* The characters the window has passed begin no passage that is not held.
Behind(p, s) == p < cursor.page \/ (p = cursor.page /\ s < cursor.lo + cursor.start)
HeldBehind(d) ==
    On(d) => \A p \in DOMAIN file[d] : \A s, e \in DOMAIN file[d][p] :
        Passage(d, p, s, e) /\ Behind(p, s) => Held(d, p, s, e)
HeldAll(d) ==
    place[d] \in {"embedding", "ready"} =>
        \A p \in DOMAIN file[d] : \A s, e \in DOMAIN file[d][p] :
            Passage(d, p, s, e) => Held(d, p, s, e)

Ordered(d) ==
    \A i, j \in DOMAIN pieces[d] : i < j =>
        \/ pieces[d][i].page < pieces[d][j].page
        \/ pieces[d][i].page = pieces[d][j].page /\ pieces[d][i].from < pieces[d][j].from
PiecesBehind(d) ==
    On(d) => \A i \in DOMAIN pieces[d] : Behind(pieces[d][i].page, pieces[d][i].from)

\* A question's candidates: all the chunks of documents that are ready.
AllOrNone(d) ==
    (\E c \in candidates : c.doc = d) =>
        /\ place[d] = "ready"
        /\ \A i \in DOMAIN pieces[d] : [doc |-> d, index |-> i] \in candidates

Good(d) ==
    /\ CursorFits(d) /\ Prepared(d) /\ HeldBehind(d) /\ HeldAll(d)
    /\ Ordered(d) /\ PiecesBehind(d) /\ AllOrNone(d)

IInv == Types /\ candidates \subseteq Chunk /\ \A d \in DocumentIds : Good(d)

-----------------------------------------------------------------------------
\* What does not change for a document keeps all that is said of it.
LEMMA Untouched ==
    ASSUME NEW d \in DocumentIds, Good(d), ~ On(d), ~ On(d)',
           place'[d] = place[d], file'[d] = file[d], config'[d] = config[d],
           pieces'[d] = pieces[d], candidates' = candidates
    PROVE  Good(d)'
BY DEF Good, CursorFits, Prepared, HeldBehind, HeldAll, Ordered, PiecesBehind, AllOrNone,
       Passage, Held, Valid

LEMMA InitGood == Init => IInv
<1> SUFFICES ASSUME Init PROVE IInv
    OBVIOUS
<1> USE DEF Init, ChunkingInit
<1>1. Types
    BY ChunkingAssumption DEF Types, Places, ChunkingConfig, Page
<1>2. ASSUME NEW d \in DocumentIds PROVE Good(d)
    BY DEF Good, CursorFits, Prepared, HeldBehind, HeldAll, Ordered, PiecesBehind, AllOrNone,
           Passage, Held, On
<1> QED
    BY <1>1, <1>2 DEF IInv

\* The windows: the next one lies in the text, and begins where the last but
\* its overlap ended.
LEMMA Windows ==
    ASSUME Types, NEW d \in DocumentIds, Good(d), On(d), MoreToCut
    PROVE  /\ cursor.page # 0 /\ cursor.page \in DOMAIN file[d]
           /\ Window(d) \in Piece
           /\ Window(d).page = cursor.page /\ Window(d).from = cursor.lo + cursor.start
           /\ TheStep(d) \in Nat \ {0}
           /\ \A s, e \in DOMAIN file[d][cursor.page] :
                Passage(d, cursor.page, s, e) /\ s \in Window(d).from..(Window(d).from + TheStep(d) - 1)
                => e <= Window(d).to /\ Visible(d, Window(d))
<1> DEFINE text == file[d][cursor.page]
           from == cursor.lo + cursor.start
           size == config[d].chunk_size
           overlap == config[d].overlap
<1>1. /\ cursor.page \in Nat \ {0} /\ cursor.lo \in Nat /\ cursor.hi \in Nat /\ cursor.start \in Nat
      /\ cursor.page <= Len(file[d]) /\ Stripped(text, cursor.lo, cursor.hi)
    BY DEF Good, CursorFits, On, MoreToCut, Types, Cursors
<1>2. /\ cursor.page \in DOMAIN file[d] /\ text \in Seq(BOOLEAN)
      /\ \A i \in DOMAIN text : i \in Nat
    BY <1>1 DEF Types, Page
<1>3. size \in Nat /\ overlap \in Nat /\ overlap < size
    <2>1. place[d] = "chunking"
        BY DEF Good, CursorFits
    <2>2. Valid(config[d]) /\ config[d] \in ChunkingConfig
        BY <2>1 DEF Good, Prepared, Types
    <2> QED
        BY <2>2, ChunkingAssumption DEF Valid, ChunkingConfig
<1>4. from \in Nat /\ from + size - 1 \in Nat
    <2>1. cursor.lo \in Nat /\ cursor.start \in Nat
        BY <1>1
    <2> QED
        BY <2>1, <1>3
<1>5. /\ Window(d) \in Piece /\ Window(d).page = cursor.page /\ Window(d).from = from
      /\ Window(d).to = IF from + size - 1 < cursor.hi THEN from + size - 1 ELSE cursor.hi
    BY <1>1, <1>4 DEF Window, Piece
<1>6. TheStep(d) \in Nat \ {0} /\ TheStep(d) + overlap = size
    BY <1>3 DEF TheStep
<1>7. ASSUME NEW s \in DOMAIN text, NEW e \in DOMAIN text, Passage(d, cursor.page, s, e),
             s \in from..(from + TheStep(d) - 1)
      PROVE  e <= Window(d).to /\ Visible(d, Window(d))
    <2>1. s \in Nat /\ e \in Nat
        BY <1>2
    <2>2. text[s] /\ text[e] /\ s <= e /\ e - s <= overlap
        BY <1>7 DEF Passage
    <2>3. e \in cursor.lo..cursor.hi
        BY <1>1, <2>2 DEF Stripped, Blank
    <2>4. e <= from + size - 1 /\ from <= s
        BY <1>3, <1>4, <1>6, <1>7, <2>1, <2>2
    <2> HIDE DEF text, from, size, overlap
    <2>5. e <= Window(d).to
        BY <1>1, <1>3, <1>4, <1>5, <2>1, <2>3, <2>4
    <2>6. s \in Window(d).from..Window(d).to
        BY <1>1, <1>4, <1>5, <2>1, <2>2, <2>4, <2>5 DEF Piece
    <2>7. file[d][Window(d).page][s]
        BY <1>5, <2>2 DEF text
    <2> QED
        BY <2>5, <2>6, <2>7 DEF Visible
<1> QED
    BY <1>1, <1>2, <1>5, <1>6, <1>7

\* When there is nothing more to cut, all of the page is behind the window.
LEMMA PageIsBehind ==
    ASSUME Types, NEW d \in DocumentIds, Good(d), On(d), ~ MoreToCut,
           NEW p \in DOMAIN file[d], p <= cursor.page,
           NEW s \in DOMAIN file[d][p], NEW e \in DOMAIN file[d][p], Passage(d, p, s, e)
    PROVE  Behind(p, s) /\ Held(d, p, s, e)
<1> USE DEF Types, Cursors, Page
<1>1. cursor \in Cursors /\ p \in Nat /\ s \in Nat /\ p # 0
    BY DEF On
<1>2. CASE p = cursor.page
    <2>1. Stripped(file[d][p], cursor.lo, cursor.hi)
        BY <1>1, <1>2 DEF Good, CursorFits
    <2>2. s <= cursor.hi
        BY SMTT(30), <2>1, <1>1 DEF Passage, Stripped, Blank
    <2> QED
        BY SMTT(30), <2>2, <1>1, <1>2 DEF MoreToCut, Behind, Good, HeldBehind
<1> QED
    BY <1>1, <1>2 DEF Behind, Good, HeldBehind

-----------------------------------------------------------------------------
\* One lemma for each step of an upload.
LEMMA UploadKeeps ==
    ASSUME IInv, NEW d \in DocumentIds, Upload(d), UNCHANGED question_vars
    PROVE  IInv'
<1>1. Types'
    <2>1. PICK input \in Inputs[d] : file' = [file EXCEPT ![d] = input.pages]
                                    /\ config' = [config EXCEPT ![d] = input.config]
        BY DEF Upload
    <2>2. input.pages \in Seq(Page) /\ input.config \in ChunkingConfig
        BY ChunkingAssumption
    <2>3. file' \in [DocumentIds -> Seq(Page)] /\ config' \in [DocumentIds -> ChunkingConfig]
        BY <2>1, <2>2 DEF IInv, Types
    <2>4. cursor' \in Cursors
        BY DEF Upload, Cursors
    <2> QED
        BY <2>3, <2>4 DEF IInv, Types, Upload, Places
<1>2. Good(d)'
    <2>1. /\ On(d)' /\ place'[d] = "chunking" /\ pieces'[d] = <<>> /\ Valid(config'[d])
          /\ cursor' = [doc |-> d, page |-> 0, lo |-> 1, hi |-> 0, start |-> 0]
          /\ candidates' = candidates /\ place[d] = "none"
        BY <1>1, ChunkingAssumption
           DEF IInv, Good, Types, Upload, Prepared, On, Cursors, ChunkingConfig, question_vars
    <2>2. file'[d] \in Seq(Page)
        BY <1>1 DEF Types
    <2>3. CursorFits(d)' /\ Prepared(d)'
        BY <2>1, <2>2 DEF CursorFits, Prepared, Valid
    <2>4. HeldBehind(d)' /\ HeldAll(d)'
        <3>1. ASSUME NEW p \in DOMAIN file'[d], NEW s \in DOMAIN file'[d][p], Behind(p, s)'
              PROVE FALSE
            BY <2>1, <2>2, <3>1 DEF Behind
        <3> QED
            BY <2>1, <3>1 DEF HeldBehind, HeldAll
    <2>5. Ordered(d)' /\ PiecesBehind(d)'
        BY <2>1 DEF Ordered, PiecesBehind
    <2>6. AllOrNone(d)'
        BY <2>1 DEF IInv, Good, AllOrNone
    <2> QED
        BY <2>3, <2>4, <2>5, <2>6 DEF Good
<1>3. ASSUME NEW x \in DocumentIds, x # d PROVE Good(x)'
    <2>1. /\ place'[x] = place[x] /\ file'[x] = file[x] /\ config'[x] = config[x]
          /\ pieces'[x] = pieces[x] /\ ~ On(x) /\ ~ On(x)' /\ candidates' = candidates
        BY <1>3 DEF IInv, Types, Upload, On, question_vars
    <2> QED
        BY <2>1, Untouched DEF IInv
<1> QED
    BY <1>1, <1>2, <1>3 DEF IInv, question_vars

LEMMA ExtractFailsKeeps ==
    ASSUME IInv, NEW d \in DocumentIds, ExtractFails(d), UNCHANGED question_vars
    PROVE  IInv'
<1>1. Types'
    BY DEF IInv, Types, ExtractFails, Places
<1>2. Good(d)'
    <2>1. /\ place[d] = "chunking" /\ place'[d] = "failed" /\ ~ On(d)'
          /\ UNCHANGED <<file, config, pieces, candidates>> /\ Good(d)
        BY DEF IInv, Types, ExtractFails, Cutting, On, question_vars
    <2> QED
        BY <2>1 DEF Good, CursorFits, Prepared, HeldBehind, HeldAll,
                    Ordered, PiecesBehind, AllOrNone, Valid
<1>3. ASSUME NEW x \in DocumentIds, x # d PROVE Good(x)'
    <2>1. /\ place'[x] = place[x] /\ file'[x] = file[x] /\ config'[x] = config[x]
          /\ pieces'[x] = pieces[x] /\ ~ On(x) /\ ~ On(x)' /\ candidates' = candidates
        BY <1>3 DEF IInv, Types, ExtractFails, Cutting, On, question_vars
    <2> QED
        BY <2>1, Untouched DEF IInv
<1> QED
    BY <1>1, <1>2, <1>3 DEF IInv, question_vars

LEMMA NextPageKeeps ==
    ASSUME IInv, NEW d \in DocumentIds, NextPage(d), UNCHANGED question_vars
    PROVE  IInv' /\ On(d)'
<1>1. PICK lo \in Nat, hi \in Nat :
        /\ On(d) /\ ~ MoreToCut /\ cursor.page \in Nat /\ cursor.page < Len(file[d])
        /\ Stripped(file[d][cursor.page + 1], lo, hi)
        /\ cursor' = [doc |-> d, page |-> cursor.page + 1, lo |-> lo, hi |-> hi, start |-> 0]
    BY DEF IInv, Types, NextPage, Cutting, On, Cursors, Page
<1>2. /\ UNCHANGED <<place, file, config, pieces, candidates>> /\ place[d] = "chunking"
      /\ cursor \in Cursors /\ cursor' \in Cursors /\ On(d)'
      /\ \A x \in DocumentIds \ {d} : ~ On(x) /\ ~ On(x)'
    BY <1>1, ChunkingAssumption DEF NextPage, Cutting, On, Cursors, question_vars, IInv, Types
<1>3. Types'
    BY <1>2 DEF IInv, Types
<1>4. Good(d)'
    <2>1. Types /\ Good(d) /\ file[d] \in Seq(Page)
        BY DEF IInv, Types
    <2>2. CursorFits(d)' /\ Prepared(d)'
        BY <1>1, <1>2, <2>1 DEF CursorFits, Good, Prepared, Valid
    <2>3. HeldBehind(d)'
        <3> SUFFICES ASSUME NEW p \in DOMAIN file[d], NEW s \in DOMAIN file[d][p],
                            NEW e \in DOMAIN file[d][p], Passage(d, p, s, e), Behind(p, s)'
                     PROVE  Held(d, p, s, e)
            BY <1>2 DEF HeldBehind, Passage, Held
        <3>1. p \in Nat /\ file[d][p] \in Seq(BOOLEAN) /\ s \in Nat
            BY <2>1 DEF Page
        <3>2. CASE p <= cursor.page
            BY <3>2, <1>1, <2>1, PageIsBehind
        <3>3. CASE p = cursor.page + 1
            <4>1. s >= lo
                BY SMTT(30), <1>1, <3>1, <3>3 DEF Passage, Stripped, Blank
            <4> QED
                BY <1>1, <3>1, <3>3, <4>1 DEF Behind
        <3> QED
            BY <1>1, <3>1, <3>2, <3>3 DEF Behind
    <2>4. HeldAll(d)' /\ Ordered(d)' /\ AllOrNone(d)'
        BY <1>2, <2>1 DEF Good, HeldAll, Ordered, AllOrNone, Held
    <2>5. PiecesBehind(d)'
        <3> SUFFICES ASSUME NEW i \in DOMAIN pieces[d]
                     PROVE  Behind(pieces[d][i].page, pieces[d][i].from)'
            BY <1>2 DEF PiecesBehind
        <3>1. pieces[d][i] \in Piece
            BY <2>1 DEF Types
        <3>2. pieces[d][i].page \in Nat
            BY <3>1 DEF Piece
        <3>3. Behind(pieces[d][i].page, pieces[d][i].from)
            BY <1>1, <2>1 DEF Good, PiecesBehind
        <3> QED
            BY <1>1, <1>2, <3>2, <3>3 DEF Behind
    <2> QED
        BY <2>2, <2>3, <2>4, <2>5 DEF Good
<1>5. ASSUME NEW x \in DocumentIds, x # d PROVE Good(x)'
    BY <1>2, <1>5, Untouched DEF IInv
<1> QED
    BY <1>2, <1>3, <1>4, <1>5 DEF IInv

LEMMA SlideKeeps ==
    ASSUME IInv, NEW d \in DocumentIds, Slide(d), UNCHANGED question_vars
    PROVE  IInv' /\ On(d)'
<1> DEFINE w == Window(d)
           text == file[d][cursor.page]
<1>1. Types /\ Good(d) /\ On(d) /\ MoreToCut /\ place[d] = "chunking" /\ cursor \in Cursors
    BY DEF IInv, Types, Slide, Cutting, On
<1>2. /\ cursor.page # 0 /\ cursor.page \in DOMAIN file[d]
      /\ w \in Piece /\ w.page = cursor.page /\ w.from = cursor.lo + cursor.start
      /\ TheStep(d) \in Nat \ {0}
      /\ \A s, e \in DOMAIN text :
            Passage(d, cursor.page, s, e) /\ s \in w.from..(w.from + TheStep(d) - 1)
            => e <= w.to /\ Visible(d, w)
    BY <1>1, Windows
<1>3. /\ UNCHANGED <<place, file, config, candidates>>
      /\ pieces' = IF Visible(d, w) THEN [pieces EXCEPT ![d] = Append(@, w)] ELSE pieces
      /\ cursor' = [cursor EXCEPT !.start = @ + TheStep(d)]
    BY DEF Slide, question_vars
<1>4. /\ cursor.page \in Nat /\ cursor.lo \in Nat /\ cursor.hi \in Nat /\ cursor.start \in Nat
      /\ cursor.doc = d
    BY <1>1 DEF Cursors, On
<1>5. /\ cursor' \in Cursors /\ On(d)' /\ cursor'.page = cursor.page /\ cursor'.lo = cursor.lo
      /\ cursor'.hi = cursor.hi /\ cursor'.start = cursor.start + TheStep(d)
      /\ \A x \in DocumentIds \ {d} : ~ On(x) /\ ~ On(x)'
    <2>1. /\ cursor' \in Cursors /\ cursor'.doc = d /\ cursor'.page = cursor.page
          /\ cursor'.lo = cursor.lo /\ cursor'.hi = cursor.hi
          /\ cursor'.start = cursor.start + TheStep(d)
        BY <1>1, <1>2, <1>3, <1>4 DEF Cursors
    <2> QED
        BY <2>1, <1>4, ChunkingAssumption DEF On, Cursors
<1>6. pieces[d] \in Seq(Piece) /\ pieces'[d] \in Seq(Piece)
      /\ pieces' \in [DocumentIds -> Seq(Piece)]
      /\ \A x \in DocumentIds \ {d} : pieces'[x] = pieces[x]
    BY <1>1, <1>2, <1>3 DEF Types
<1> DEFINE n == Len(pieces[d]) + 1
<1>7. /\ DOMAIN pieces[d] \subseteq DOMAIN pieces'[d]
      /\ \A i \in DOMAIN pieces[d] : i \in Nat /\ i < n /\ pieces'[d][i] = pieces[d][i]
      /\ \A i \in DOMAIN pieces'[d] \ DOMAIN pieces[d] : i = n /\ pieces'[d][i] = w
      /\ Visible(d, w) => n \in DOMAIN pieces'[d] /\ pieces'[d][n] = w
    <2>1. CASE Visible(d, w)
        <3>1. pieces'[d] = Append(pieces[d], w)
            BY <1>1, <1>3, <2>1 DEF Types
        <3> HIDE DEF w
        <3> QED
            BY <3>1, <1>2, <1>6
    <2>2. CASE ~ Visible(d, w)
        BY <1>3, <1>6, <2>2
    <2> QED
        BY <2>1, <2>2
<1> HIDE DEF w, n
<1>8. Types'
    BY <1>1, <1>3, <1>5, <1>6 DEF Types
<1>9. CursorFits(d)' /\ Prepared(d)' /\ HeldAll(d)'
    BY <1>1, <1>2, <1>3, <1>5 DEF Good, CursorFits, Prepared, HeldAll, Valid
<1>10. HeldBehind(d)'
    <2> SUFFICES ASSUME NEW p \in DOMAIN file[d], NEW s \in DOMAIN file[d][p],
                        NEW e \in DOMAIN file[d][p], Passage(d, p, s, e), Behind(p, s)'
                 PROVE  Held(d, p, s, e)'
        BY <1>3 DEF HeldBehind, Passage
    <2>1. p \in Nat /\ s \in Nat
        BY <1>1 DEF Types, Page
    <2>2. CASE Behind(p, s)
        <3>1. Held(d, p, s, e)
            BY <1>1, <2>2 DEF Good, HeldBehind
        <3> QED
            BY <3>1, <1>7 DEF Held
    <2>3. CASE ~ Behind(p, s)
        <3>1. p = cursor.page /\ s \in w.from..(w.from + TheStep(d) - 1)
            BY <2>1, <2>3, <1>2, <1>4, <1>5 DEF Behind
        <3>2. e <= w.to /\ Visible(d, w) /\ w.from <= s
            BY <3>1, <2>1, <1>2, <1>4
        <3> QED
            BY <3>1, <3>2, <1>2, <1>7 DEF Held
    <2> QED
        BY <2>2, <2>3
<1>11. Ordered(d)' /\ PiecesBehind(d)'
    <2> DEFINE Passed(p, s) == p < cursor'.page \/ (p = cursor'.page /\ s < cursor'.lo + cursor'.start)
    <2>1. \A i \in DOMAIN pieces[d] :
            pieces[d][i] \in Piece /\ Behind(pieces[d][i].page, pieces[d][i].from)
        BY <1>1, <1>6 DEF Good, PiecesBehind
    <2>0. /\ w.page = cursor.page /\ w.from = cursor.lo + cursor.start
          /\ TheStep(d) \in Nat /\ TheStep(d) > 0
        BY <1>2
    <2>2. \A i \in DOMAIN pieces[d] :
            /\ pieces[d][i].page < w.page \/ (pieces[d][i].page = w.page /\ pieces[d][i].from < w.from)
            /\ Passed(pieces[d][i].page, pieces[d][i].from)
        <3> SUFFICES ASSUME NEW i \in DOMAIN pieces[d]
                     PROVE  /\ \/ pieces[d][i].page < w.page
                               \/ pieces[d][i].page = w.page /\ pieces[d][i].from < w.from
                            /\ Passed(pieces[d][i].page, pieces[d][i].from)
            OBVIOUS
        <3>1. pieces[d][i].page \in Nat /\ pieces[d][i].from \in Nat
            BY <2>1 DEF Piece
        <3>2. Behind(pieces[d][i].page, pieces[d][i].from)
            BY <2>1
        <3> QED
            BY <2>0, <3>1, <3>2, <1>4, <1>5 DEF Behind
    <2>3. Passed(w.page, w.from)
        BY <2>0, <1>4, <1>5 DEF Behind
    <2>4. Ordered(d)'
        <3> SUFFICES ASSUME NEW i \in DOMAIN pieces'[d], NEW j \in DOMAIN pieces'[d], i < j
                     PROVE  \/ pieces'[d][i].page < pieces'[d][j].page
                            \/ /\ pieces'[d][i].page = pieces'[d][j].page
                               /\ pieces'[d][i].from < pieces'[d][j].from
            BY DEF Ordered
        <3>1. CASE i \in DOMAIN pieces[d] /\ j \in DOMAIN pieces[d]
            BY <3>1, <1>1, <1>7 DEF Good, Ordered
        <3>2. CASE i \in DOMAIN pieces[d] /\ j \notin DOMAIN pieces[d]
            BY <3>2, <1>7, <2>2
        <3>3. i \in DOMAIN pieces[d]
            <4>1. n \in Nat /\ i \in Nat /\ j \in Nat
                BY <1>6 DEF n
            <4> QED
                BY <4>1, <1>7
        <3> QED
            BY <3>1, <3>2, <3>3
    <2>5. PiecesBehind(d)'
        <3>1. ASSUME NEW i \in DOMAIN pieces'[d]
              PROVE  Passed(pieces'[d][i].page, pieces'[d][i].from)
            BY <2>2, <2>3, <1>7
        <3> QED
            BY <3>1 DEF PiecesBehind, Behind
    <2> QED
        BY <2>4, <2>5
<1>12. AllOrNone(d)'
    BY <1>1, <1>3 DEF Good, AllOrNone
<1>13. ASSUME NEW x \in DocumentIds, x # d PROVE Good(x)'
    BY <1>3, <1>5, <1>6, <1>13, Untouched DEF IInv
<1> QED
    BY <1>3, <1>5, <1>8, <1>9, <1>10, <1>11, <1>12, <1>13 DEF IInv, Good

LEMMA AllCutKeeps ==
    ASSUME IInv, NEW d \in DocumentIds, AllCut(d), UNCHANGED question_vars
    PROVE  IInv'
<1>1. /\ Types /\ Good(d) /\ On(d) /\ ~ MoreToCut /\ place[d] = "chunking"
      /\ cursor.page = Len(file[d]) /\ file[d] \in Seq(Page) /\ ~ On(d)'
      /\ place'[d] \in {"failed", "embedding"} /\ UNCHANGED <<file, config, pieces, candidates>>
    BY DEF IInv, Types, AllCut, Cutting, On, question_vars
<1>2. Types'
    BY DEF IInv, Types, AllCut, Places
<1>3. HeldAll(d)'
    <2> SUFFICES ASSUME NEW p \in DOMAIN file[d], NEW s \in DOMAIN file[d][p],
                        NEW e \in DOMAIN file[d][p], Passage(d, p, s, e)
                 PROVE  Held(d, p, s, e)
        BY <1>1 DEF HeldAll, Passage, Held
    <2>1. p <= cursor.page
        BY <1>1
    <2> QED
        BY <1>1, <2>1, PageIsBehind
<1>4. Good(d)'
    BY <1>1, <1>3 DEF Good, CursorFits, Prepared, HeldBehind, Ordered, PiecesBehind, AllOrNone, Valid
<1>5. ASSUME NEW x \in DocumentIds, x # d PROVE Good(x)'
    <2>1. /\ place'[x] = place[x] /\ file'[x] = file[x] /\ config'[x] = config[x]
          /\ pieces'[x] = pieces[x] /\ ~ On(x) /\ ~ On(x)' /\ candidates' = candidates
        BY <1>5 DEF IInv, Types, AllCut, Cutting, On, question_vars
    <2> QED
        BY <2>1, Untouched DEF IInv
<1> QED
    BY <1>2, <1>4, <1>5 DEF IInv, question_vars

\* Store writes all the chunks or none; EmbedFails writes none.
LEMMA SettledKeeps ==
    ASSUME IInv, NEW d \in DocumentIds, Store(d) \/ EmbedFails(d), UNCHANGED question_vars
    PROVE  IInv'
<1>1. /\ Types /\ Good(d) /\ cursor = NoCursor /\ place[d] = "embedding"
      /\ place'[d] \in {"ready", "lost", "failed"}
      /\ UNCHANGED <<file, config, pieces, cursor, candidates>>
      /\ \A x \in DocumentIds \ {d} : place'[x] = place[x]
    BY DEF IInv, Types, Store, EmbedFails, question_vars
<1>2. Types'
    BY DEF IInv, Types, Store, EmbedFails, Places
<1>3. Good(d)'
    BY <1>1 DEF Good, CursorFits, Prepared, HeldBehind, HeldAll, Ordered, PiecesBehind, AllOrNone,
                On, Valid, Passage, Held
<1>4. ASSUME NEW x \in DocumentIds, x # d PROVE Good(x)'
    BY <1>1, <1>4, Untouched DEF IInv, On
<1> QED
    BY <1>2, <1>3, <1>4 DEF IInv, question_vars

-----------------------------------------------------------------------------
\* The question's steps leave the documents alone.
LEMMA QuestionKeeps ==
    ASSUME IInv, Ask \/ EmbedQueryFails \/ Rank \/ Cite \/ UNCHANGED vars
    PROVE  IInv'
<1>1. UNCHANGED chunking_vars
    BY DEF Ask, EmbedQueryFails, Rank, Cite, vars
<1>2. candidates' = candidates \/ candidates' = StoredChunks
    BY DEF Ask, EmbedQueryFails, Rank, Cite, vars, question_vars
<1>3. Types'
    BY <1>1 DEF IInv, Types, chunking_vars
<1>4. candidates' \subseteq Chunk
    <2>1. StoredChunks \subseteq Chunk
        BY DEF StoredChunks, Chunk, IInv, Types
    <2> QED
        BY <1>2, <2>1 DEF IInv
<1>5. ASSUME NEW d \in DocumentIds PROVE Good(d)'
    <2>1. AllOrNone(d)'
        <3>1. CASE candidates' = candidates
            BY <1>1, <3>1 DEF IInv, Good, AllOrNone, chunking_vars
        <3>2. CASE candidates' = StoredChunks
            BY <1>1, <3>2 DEF AllOrNone, StoredChunks, chunking_vars
        <3> QED
            BY <1>2, <3>1, <3>2
    <2> QED
        BY <1>1, <2>1 DEF IInv, Good, CursorFits, Prepared, HeldBehind, HeldAll, Ordered,
           PiecesBehind, On, Behind, Passage, Held, chunking_vars
<1> QED
    BY <1>3, <1>4, <1>5 DEF IInv

LEMMA NextKeeps == IInv /\ [Next]_vars => IInv'
<1> SUFFICES ASSUME IInv, [Next]_vars PROVE IInv'
    OBVIOUS
<1>1. ASSUME NEW d \in DocumentIds, Uploading(d) PROVE IInv'
    BY <1>1, UploadKeeps, ExtractFailsKeeps, NextPageKeeps, SlideKeeps, AllCutKeeps, SettledKeeps
       DEF Uploading, Ingest
<1>2. CASE Ask \/ EmbedQueryFails \/ Rank \/ Cite \/ UNCHANGED vars
    BY <1>2, QuestionKeeps
<1> QED
    BY <1>1, <1>2 DEF Next, Finished

\* The invariant holds in every reachable state.
THEOREM Invariance == Spec => []IInv
<1> QED
    BY InitGood, NextKeeps, PTL DEF Spec

\* The question, and the document that is being cut.
Rest ==
    /\ asked \in {"not_yet", "embedding", "unanswerable", "refused", "grounded", "answered"}
    /\ top_k \in MIN_TOP_K..MAX_TOP_K
    /\ answer \in Seq(Nat)
    /\ \A d \in DocumentIds : place[d] = "chunking" => On(d)

LEMMA RestKeeps == IInv /\ Rest /\ [Next]_vars => Rest'
<1> SUFFICES ASSUME IInv, Rest, [Next]_vars PROVE Rest'
    OBVIOUS
<1>1. place \in [DocumentIds -> Places]
    BY DEF IInv, Types
<1>2. ASSUME NEW d \in DocumentIds, Upload(d), UNCHANGED question_vars PROVE Rest'
    <2>1. cursor = NoCursor /\ place' = [place EXCEPT ![d] = "chunking"]
          /\ cursor' = [doc |-> d, page |-> 0, lo |-> 1, hi |-> 0, start |-> 0]
        BY <1>2 DEF Upload
    <2>2. cursor' # NoCursor /\ cursor'.doc = d
        BY <2>1, ChunkingAssumption
    <2> QED
        BY <1>1, <1>2, <2>1, <2>2 DEF Rest, On, question_vars
<1>3. ASSUME NEW d \in DocumentIds, ExtractFails(d) \/ AllCut(d), UNCHANGED question_vars
      PROVE  Rest'
    BY <1>1, <1>3 DEF Rest, On, ExtractFails, AllCut, Cutting, question_vars
<1>4. ASSUME NEW d \in DocumentIds, NextPage(d) \/ Slide(d), UNCHANGED question_vars
      PROVE  Rest'
    <2>1. On(d) /\ place' = place
        BY <1>4 DEF NextPage, Slide, Cutting, On
    <2>2. On(d)'
        BY <1>4, NextPageKeeps, SlideKeeps
    <2> QED
        BY <1>4, <2>1, <2>2 DEF Rest, On, question_vars
<1>5. ASSUME NEW d \in DocumentIds, Store(d) \/ EmbedFails(d), UNCHANGED question_vars
      PROVE  Rest'
    BY <1>1, <1>5 DEF Rest, On, Store, EmbedFails, question_vars
<1>6. CASE Ask \/ EmbedQueryFails \/ Rank
    BY <1>6 DEF Rest, On, Ask, EmbedQueryFails, Rank, chunking_vars
<1>7. CASE Cite
    BY <1>7, EvidenceAssumption DEF Rest, On, Cite, chunking_vars
<1>8. CASE UNCHANGED vars
    BY <1>8 DEF Rest, On, vars, chunking_vars, question_vars
<1> QED
    BY <1>2, <1>3, <1>4, <1>5, <1>6, <1>7, <1>8 DEF Next, Uploading, Ingest, Finished

-----------------------------------------------------------------------------
(* What a question ranks.  Sorting by rank: of n things in a strict total   *)
(* order (before[x] is the set of those that come before x), each number    *)
(* below n is the rank of exactly one.                                      *)

LEMMA RanksAreUnique ==
    ASSUME NEW S, IsFiniteSet(S), NEW before \in [S -> SUBSET S],
           \A x \in S : x \notin before[x],
           \A x, y \in S : x \in before[y] => before[x] \subseteq before[y],
           \A x, y \in S : x = y \/ x \in before[y] \/ y \in before[x]
    PROVE  /\ Cardinality(S) \in Nat
           /\ \A x \in S : Cardinality(before[x]) \in 0..(Cardinality(S) - 1)
           /\ \A x, y \in S :
                x \in before[y] <=> Cardinality(before[x]) < Cardinality(before[y])
           /\ \A k \in 0..(Cardinality(S) - 1) : \E x \in S : Cardinality(before[x]) = k
  <1> DEFINE n == Cardinality(S)
             rank == [x \in S |-> Cardinality(before[x]) + 1]
  <1>1. n \in Nat
    BY FS_CardinalityType
  <1>2. ASSUME NEW x \in S
        PROVE  IsFiniteSet(before[x]) /\ Cardinality(before[x]) \in 0..(n - 1)
    <2>1. before[x] \in SUBSET S /\ before[x] # S
      OBVIOUS
    <2>2. /\ IsFiniteSet(before[x])
          /\ Cardinality(before[x]) <= Cardinality(S)
          /\ Cardinality(S) = Cardinality(before[x]) => S = before[x]
      BY <2>1, FS_Subset
    <2>3. Cardinality(before[x]) \in Nat
      BY <2>2, FS_CardinalityType
    <2> QED
      BY <1>1, <2>1, <2>2, <2>3
  <1>3. ASSUME NEW x \in S, NEW y \in S, x \in before[y]
        PROVE  Cardinality(before[x]) < Cardinality(before[y])
    <2>1. before[x] \in SUBSET before[y] /\ before[x] # before[y]
      BY <1>3
    <2>2. /\ Cardinality(before[x]) <= Cardinality(before[y])
          /\ Cardinality(before[y]) = Cardinality(before[x]) => before[y] = before[x]
      BY <1>2, <2>1, FS_Subset
    <2> QED
      BY <1>1, <1>2, <2>1, <2>2
  <1>4. ASSUME NEW x \in S, NEW y \in S
        PROVE  x \in before[y] <=> Cardinality(before[x]) < Cardinality(before[y])
    <2>1. Cardinality(before[x]) \in Nat /\ Cardinality(before[y]) \in Nat
      BY <1>1, <1>2
    <2>2. CASE x = y
      BY <2>1, <2>2
    <2>3. CASE x \in before[y]
      BY <1>3, <2>3
    <2>4. CASE y \in before[x]
      <3>1. Cardinality(before[y]) < Cardinality(before[x])
        BY <1>3, <2>4
      <3>2. x \notin before[y]
        BY <1>3, <2>1, <3>1
      <3> QED
        BY <2>1, <3>1, <3>2
    <2> QED
      BY <2>2, <2>3, <2>4
  <1>5. rank \in Injection(S, 1..n)
    <2>1. rank \in [S -> 1..n]
      BY <1>1, <1>2
    <2>2. \A x, y \in S : rank[x] = rank[y] => x = y
      <3> SUFFICES ASSUME NEW x \in S, NEW y \in S, rank[x] = rank[y]
                   PROVE  x = y
        OBVIOUS
      <3>1. Cardinality(before[x]) \in Nat /\ Cardinality(before[y]) \in Nat
            /\ Cardinality(before[x]) = Cardinality(before[y])
        BY <1>1, <1>2
      <3> HIDE DEF rank
      <3> QED
        BY <3>1, <1>4
    <2> HIDE DEF rank
    <2> QED
      BY <2>1, <2>2 DEF Injection, IsInjective
  <1>6. rank \in Surjection(S, 1..n)
    <2>1. IsFiniteSet(1..n) /\ Cardinality(1..n) = n
      BY <1>1, FS_Interval
    <2> HIDE DEF rank
    <2> QED
      BY <1>5, <2>1, FS_Injection
  <1>7. ASSUME NEW k \in 0..(n - 1)
        PROVE  \E x \in S : Cardinality(before[x]) = k
    <2>1. k + 1 \in 1..n
      BY <1>1
    <2>2. PICK x \in S : rank[x] = k + 1
      <3> HIDE DEF rank, n
      <3> QED
        BY <1>6, <2>1 DEF Surjection
    <2>3. Cardinality(before[x]) \in Nat /\ Cardinality(before[x]) + 1 = k + 1
      BY <1>1, <1>2, <2>2
    <2> QED
      BY <2>3, <1>1
  <1> QED
    BY <1>1, <1>2, <1>4, <1>7

\* In Better's order, Sorted lists every element of a finite set once, the
\* better one first (scored.sort).
LEMMA SortedIsSorted ==
    ASSUME NEW S \in SUBSET Chunk, IsFiniteSet(S), NEW score, \A c \in S : score[c] \in Int
    PROVE  LET seq == Sorted(S, score)
               n == Cardinality(S)
           IN  /\ n \in Nat /\ seq \in [1..n -> S] /\ Len(seq) = n
               /\ \A c \in S : \E k \in 1..n : seq[k] = c
               /\ \A j, k \in 1..n : j < k <=> Better(score, seq[j], seq[k])
<1> DEFINE n == Cardinality(S)
           before == [c \in S |-> {d \in S : Better(score, d, c)}]
           rank(c) == Cardinality({d \in S : Better(score, d, c)})
           seq == Sorted(S, score)
<1>1. \A c \in S : score[c] \in Int /\ c.doc \in Nat /\ c.index \in Nat
    BY ChunkingAssumption DEF Chunk
<1>2. \A c, d \in S : c = d \/ c.doc # d.doc \/ c.index # d.index
    BY DEF Chunk
<1>3. /\ \A c \in S : ~ Better(score, c, c)
      /\ \A b, c, d \in S : Better(score, b, c) /\ Better(score, c, d) => Better(score, b, d)
      /\ \A c, d \in S : c = d \/ Better(score, c, d) \/ Better(score, d, c)
    BY <1>1, <1>2 DEF Better, Earlier
<1>4. /\ before \in [S -> SUBSET S]
      /\ \A c \in S : c \notin before[c]
      /\ \A c, d \in S : c \in before[d] => before[c] \subseteq before[d]
      /\ \A c, d \in S : c = d \/ c \in before[d] \/ d \in before[c]
      /\ \A c, d \in S : c \in before[d] <=> Better(score, c, d)
      /\ \A c \in S : Cardinality(before[c]) = rank(c)
    BY <1>3
<1>5. /\ n \in Nat
      /\ \A c \in S : rank(c) \in 0..(n - 1)
      /\ \A c, d \in S : Better(score, c, d) <=> rank(c) < rank(d)
      /\ \A k \in 0..(n - 1) : \E c \in S : rank(c) = k
    <2> HIDE DEF before, rank
    <2>1. /\ n \in Nat
          /\ \A c \in S : Cardinality(before[c]) \in 0..(n - 1)
          /\ \A c, d \in S : c \in before[d] <=> Cardinality(before[c]) < Cardinality(before[d])
          /\ \A k \in 0..(n - 1) : \E c \in S : Cardinality(before[c]) = k
        BY <1>4, RanksAreUnique
    <2> HIDE DEF n
    <2> QED
        BY <1>4, <2>1
<1>6. seq = [k \in 1..n |-> CHOOSE c \in S : rank(c) = k - 1]
    BY DEF Sorted, InOrder
<1> HIDE DEF n, before, rank, seq
<1>7. ASSUME NEW k \in 1..n PROVE seq[k] \in S /\ rank(seq[k]) = k - 1
    <2>1. k - 1 \in 0..(n - 1)
        BY <1>5
    <2>2. \E c \in S : rank(c) = k - 1
        BY <1>5, <2>1
    <2>3. seq[k] = CHOOSE c \in S : rank(c) = k - 1
        BY <1>6
    <2> QED
        BY <2>2, <2>3
<1>8. seq \in [1..n -> S]
    BY <1>6, <1>7
<1>9. ASSUME NEW c \in S PROVE \E k \in 1..n : seq[k] = c
    <2> DEFINE k == rank(c) + 1
    <2>1. k \in 1..n /\ k - 1 = rank(c)
        BY <1>5
    <2> HIDE DEF k
    <2>2. seq[k] \in S /\ rank(seq[k]) = rank(c) /\ rank(c) \in Nat
        BY <1>5, <1>7, <2>1
    <2>3. ~ Better(score, seq[k], c) /\ ~ Better(score, c, seq[k])
        BY <1>5, <2>2
    <2> QED
        BY <1>3, <2>1, <2>2, <2>3
<1>10. ASSUME NEW j \in 1..n, NEW k \in 1..n PROVE j < k <=> Better(score, seq[j], seq[k])
    <2>1. seq[j] \in S /\ seq[k] \in S /\ rank(seq[j]) = j - 1 /\ rank(seq[k]) = k - 1
        BY <1>7
    <2>2. Better(score, seq[j], seq[k]) <=> j - 1 < k - 1
        BY <1>5, <2>1
    <2> QED
        BY <2>2
<1>11. Len(seq) = n
    BY <1>5, <1>8
<1> QED
    BY <1>5, <1>8, <1>9, <1>10, <1>11 DEF n, seq

\* What retrieve returns, for the candidates that reach the threshold.
LEMMA RetrievedAreBest ==
    ASSUME NEW score, IsFiniteSet(candidates), candidates \subseteq Chunk,
           \A c \in candidates : score[c] \in Int,
           top_k \in Nat \ {0}
    PROVE  LET enough == {c \in candidates : score[c] >= similarity_threshold}
               found == Retrieved(score)
               best == {found[i] : i \in DOMAIN found}
           IN  /\ found \in Seq(Chunk) /\ best \subseteq enough
               /\ \A i, j \in DOMAIN found : i < j => Better(score, found[i], found[j])
               /\ \A c \in enough \ best : \A i \in DOMAIN found : Better(score, found[i], c)
               /\ Len(found) = (IF Cardinality(enough) < top_k THEN Cardinality(enough) ELSE top_k)
               /\ found = <<>> <=> enough = {}
<1> DEFINE enough == {c \in candidates : score[c] >= similarity_threshold}
           found == Retrieved(score)
           seq == Sorted(enough, score)
           n == Cardinality(enough)
           m == IF n < top_k THEN n ELSE top_k
<1>1. enough \in SUBSET Chunk /\ IsFiniteSet(enough) /\ \A c \in enough : score[c] \in Int
    BY FS_Subset
<1>2. found = SubSeq(seq, 1, IF Len(seq) < top_k THEN Len(seq) ELSE top_k)
    BY DEF Retrieved, FirstOf
<1> HIDE DEF enough, found
<1>3. /\ n \in Nat /\ seq \in [1..n -> enough] /\ Len(seq) = n
      /\ \A c \in enough : \E k \in 1..n : seq[k] = c
      /\ \A j, k \in 1..n : j < k <=> Better(score, seq[j], seq[k])
    BY <1>1, SortedIsSorted
<1>4. n = 0 <=> enough = {}
    BY <1>1, FS_EmptySet
<1> HIDE DEF seq, n
<1>5. m \in 0..n /\ m = (IF Len(seq) < top_k THEN Len(seq) ELSE top_k)
    BY <1>3
<1>6. (m = 0 <=> n = 0) /\ (m < n => m = top_k)
    BY <1>3
<1> HIDE DEF m
<1>7. seq \in Seq(enough)
    BY <1>3
<1>8. Len(found) = m /\ DOMAIN found = 1..m /\ \A i \in 1..m : found[i] = seq[i] /\ i \in 1..n
    BY <1>2, <1>3, <1>5, <1>7
<1>9. ASSUME NEW c \in enough, \A i \in 1..m : found[i] # c, NEW i \in 1..m
      PROVE  Better(score, found[i], c)
    <2>1. PICK k \in 1..n : seq[k] = c
        BY <1>3
    <2>2. k \notin 1..m
        BY <1>8, <1>9, <2>1
    <2>3. i < k
        BY <1>3, <1>5, <2>2
    <2> QED
        BY <1>3, <1>8, <2>1, <2>3
<1>10. {found[i] : i \in DOMAIN found} \subseteq enough
    BY <1>3, <1>8
<1>11. \A i, j \in DOMAIN found : i < j => Better(score, found[i], found[j])
    BY <1>3, <1>8
<1>12. found = <<>> <=> enough = {}
    <2>1. found = <<>> => Len(found) = 0
        OBVIOUS
    <2>2. m = 0 => found = <<>>
        BY <1>2, <1>5, <1>7
    <2> QED
        BY <1>3, <1>4, <1>6, <1>8, <2>1, <2>2
<1>13. found \in Seq(Chunk)
    BY <1>1, <1>2, <1>5, <1>7, <1>8
<1> QED
    BY <1>8, <1>9, <1>10, <1>11, <1>12, <1>13 DEF enough, found, m, n

\* The chunks cut so far, of all documents, are finitely many, and a question
\* that has its sources has the best.
AllChunks == {c \in Chunk : c.index \in DOMAIN pieces[c.doc]}
Ranking ==
    /\ IsFiniteSet(AllChunks) /\ IsFiniteSet(candidates) /\ sources \in Seq(Chunk)
    /\ asked \in {"not_yet", "embedding"} => sources = <<>>
    /\ TopAreBest

LEMMA QuestionsBegin == Init => Ranking /\ Rest
<1> SUFFICES ASSUME Init PROVE Ranking /\ Rest
    OBVIOUS
<1>1. AllChunks = {} /\ candidates = {} /\ sources = <<>> /\ asked = "not_yet"
    BY DEF Init, ChunkingInit, AllChunks, Chunk
<1>2. Ranking
    BY <1>1, FS_EmptySet DEF Ranking, TopAreBest
<1> QED
    BY <1>2, EvidenceAssumption DEF Init, ChunkingInit, Rest

LEMMA ChunksStayFinite ==
    ASSUME IInv, IsFiniteSet(AllChunks), [Next]_vars
    PROVE  IsFiniteSet(AllChunks')
<1>1. CASE UNCHANGED pieces
    BY <1>1 DEF AllChunks
<1>2. ASSUME NEW d \in DocumentIds, Slide(d)
      PROVE  IsFiniteSet(AllChunks')
    <2> DEFINE new == [doc |-> d, index |-> Len(pieces[d]) + 1]
    <2>1. pieces \in [DocumentIds -> Seq(Piece)]
        BY DEF IInv, Types
    <2>2. \A x \in DocumentIds \ {d} : pieces'[x] = pieces[x]
        BY <1>2, <2>1 DEF Slide
    <2>3. \A i \in DOMAIN pieces'[d] : i \in DOMAIN pieces[d] \/ i = Len(pieces[d]) + 1
        <3>1. pieces'[d] = pieces[d] \/ pieces'[d] = Append(pieces[d], Window(d))
            BY <1>2, <2>1 DEF Slide
        <3>2. DOMAIN Append(pieces[d], Window(d)) = 1..(Len(pieces[d]) + 1)
              /\ DOMAIN pieces[d] = 1..Len(pieces[d]) /\ Len(pieces[d]) \in Nat
            <4> HIDE DEF Window
            <4> QED
                BY <2>1
        <3> QED
            BY <3>1, <3>2
    <2>4. AllChunks' \in SUBSET (AllChunks \cup {new})
        BY <2>2, <2>3 DEF AllChunks, Chunk
    <2>5. IsFiniteSet(AllChunks \cup {new})
        BY FS_AddElement
    <2> HIDE DEF new
    <2> QED
        BY <2>4, <2>5, FS_Subset
<1>3. ASSUME ~ UNCHANGED pieces PROVE \E d \in DocumentIds : Slide(d)
    BY <1>3 DEF Next, Uploading, Ingest, Upload, ExtractFails, NextPage, AllCut, Store, EmbedFails,
                Ask, EmbedQueryFails, Rank, Cite, Finished, vars, chunking_vars
<1> QED
    BY <1>1, <1>2, <1>3

LEMMA RankingKeeps == IInv /\ Rest /\ Ranking /\ [Next]_vars => Ranking'
<1> SUFFICES ASSUME IInv, Rest, Ranking, [Next]_vars PROVE Ranking'
    OBVIOUS
<1>1. IsFiniteSet(AllChunks')
    BY ChunksStayFinite DEF Ranking
<1>2. CASE UNCHANGED question_vars
    BY <1>1, <1>2 DEF Ranking, TopAreBest, question_vars, Better
<1>3. CASE Ask
    <2>1. StoredChunks \in SUBSET AllChunks
        BY DEF StoredChunks, AllChunks, Chunk, IInv, Types
    <2>2. IsFiniteSet(candidates')
        BY <1>3, <2>1, FS_Subset DEF Ask, Ranking
    <2>3. sources' = <<>>
        BY <1>3 DEF Ask, Ranking
    <2>4. TopAreBest'
        <3> SUFFICES ASSUME asked' = "unanswerable" PROVE TopAreBest'
            BY <1>3 DEF Ask, TopAreBest
        <3>1. candidates' = {} /\ top_k' \in Nat \ {0}
            BY <1>3, EvidenceAssumption DEF Ask
        <3>2. {c \in candidates' : similarity'[c] >= similarity_threshold} = {}
            BY <3>1
        <3>3. Cardinality({}) = 0
            BY FS_EmptySet
        <3>4. Len(sources') = 0 /\ DOMAIN sources' = {}
            BY <2>3
        <3> QED
            BY <3>1, <3>2, <3>3, <3>4 DEF TopAreBest
    <2> QED
        BY <1>1, <2>2, <2>3, <2>4 DEF Ranking
<1>4. CASE EmbedQueryFails
    BY <1>1, <1>4 DEF EmbedQueryFails, Ranking, TopAreBest
<1>5. CASE Rank
    <2>1. /\ similarity' \in [candidates -> Similarities] /\ sources' = Retrieved(similarity')
          /\ asked' = IF sources' = <<>> THEN "unanswerable" ELSE "grounded"
          /\ candidates' = candidates /\ top_k' = top_k
        BY <1>5 DEF Rank
    <2>2. \A c \in candidates : similarity'[c] \in Int
        BY <2>1, EvidenceAssumption
    <2>3. top_k \in Nat \ {0} /\ candidates \subseteq Chunk /\ IsFiniteSet(candidates)
        BY EvidenceAssumption DEF Rest, IInv, Ranking
    <2>4. TopAreBest' /\ sources' \in Seq(Chunk)
        <3> HIDE DEF Rest, IInv, Ranking, Next
        <3> QED
            BY <2>1, <2>2, <2>3, RetrievedAreBest DEF TopAreBest
    <2> QED
        BY <1>1, <2>1, <2>3, <2>4 DEF Ranking
<1>6. CASE Cite
    BY <1>1, <1>6 DEF Cite, Ranking, TopAreBest
<1> QED
    BY <1>2, <1>3, <1>4, <1>5, <1>6 DEF Next, Uploading, Finished, vars

-----------------------------------------------------------------------------
(* The citations of an answer.  Induction, stated for a set of numbers     *)
(* instead of a predicate.                                                 *)

LEMMA NatSetInduction ==
    ASSUME NEW S, 0 \in S, \A n \in Nat : n \in S => n + 1 \in S
    PROVE  Nat \subseteq S
  <1> DEFINE T == Nat \ S
  <1> SUFFICES ASSUME T # {}
               PROVE  FALSE
    OBVIOUS
  <1>1. PICK n \in T : \A m \in T : ~ (<<m, n>> \in OpToRel(<, Nat))
    <2> HIDE DEF T
    <2>1. T \subseteq Nat
      BY DEF T
    <2> QED
      BY <2>1, NatLessThanWellFounded, WFMin
  <1>2. n \in Nat /\ n \notin S /\ n # 0
    OBVIOUS
  <1>3. n - 1 \in Nat /\ n - 1 < n /\ n = (n - 1) + 1
    BY <1>2
  <1>4. <<n - 1, n>> \in OpToRel(<, Nat)
    BY <1>2, <1>3 DEF OpToRel
  <1>5. n - 1 \in S
    BY <1>1, <1>3, <1>4
  <1> QED
    BY <1>2, <1>3, <1>5

\* One mark more of extract_valid_citations' loop, and the loop over the first
\* N marks (FirstSeen's result, whose existence has to be shown).
Seen(so_far, m, valid_ids) ==
    IF m \in valid_ids /\ ~ Contains(so_far, m) THEN Append(so_far, m) ELSE so_far
IsLoop(result, marks, valid_ids, N) ==
    result = [k \in 0..N |-> IF k = 0 THEN <<>> ELSE Seen(result[k - 1], marks[k], valid_ids)]

LEMMA LoopsExist ==
    ASSUME NEW marks, NEW valid_ids, NEW N \in Nat
    PROVE  \E result : IsLoop(result, marks, valid_ids, N)
<1> DEFINE S == {k \in Nat : \E f : IsLoop(f, marks, valid_ids, k)}
<1>1. 0 \in S
    <2> DEFINE f == [k \in 0..0 |-> <<>>]
    <2>1. IsLoop(f, marks, valid_ids, 0)
        BY DEF IsLoop
    <2> QED
        BY <2>1
<1>2. ASSUME NEW k \in Nat, k \in S PROVE k + 1 \in S
    <2>1. PICK f : IsLoop(f, marks, valid_ids, k)
        BY <1>2
    <2> DEFINE g == [i \in 0..(k + 1) |->
                        IF i = 0 THEN <<>> ELSE Seen(f[i - 1], marks[i], valid_ids)]
    <2>2. \A i \in 0..k : g[i] = f[i]
        BY <2>1 DEF IsLoop
    <2>3. IsLoop(g, marks, valid_ids, k + 1)
        <3>1. \A i \in 0..(k + 1) : i # 0 => i - 1 \in 0..k
            OBVIOUS
        <3>2. \A i \in 0..(k + 1) :
                (IF i = 0 THEN <<>> ELSE Seen(f[i - 1], marks[i], valid_ids))
                = (IF i = 0 THEN <<>> ELSE Seen(g[i - 1], marks[i], valid_ids))
            BY <2>2, <3>1
        <3>3. g = [i \in 0..(k + 1) |->
                        IF i = 0 THEN <<>> ELSE Seen(f[i - 1], marks[i], valid_ids)]
            OBVIOUS
        <3> HIDE DEF g
        <3> QED
            BY <3>2, <3>3 DEF IsLoop
    <2> HIDE DEF g
    <2> QED
        BY <2>3
<1> HIDE DEF S
<1>3. N \in S
    BY <1>1, <1>2, NatSetInduction
<1> QED
    BY <1>3 DEF S

\* What the loop has collected from the first k marks: those that are valid,
\* and each before those first seen later.
Collected(found, marks, valid_ids, k) ==
    /\ found \in Seq(Nat)
    /\ \A m \in Nat : Contains(found, m) <=> m \in valid_ids /\ \E a \in 1..k : marks[a] = m
    /\ \A i, j \in DOMAIN found : i < j =>
        \E a \in 1..k : marks[a] = found[i] /\ \A b \in 1..a : marks[b] # found[j]

LEMMA SeenCollects ==
    ASSUME NEW marks \in Seq(Nat), NEW valid_ids, NEW k \in Nat, k + 1 \in 1..Len(marks),
           NEW found, Collected(found, marks, valid_ids, k)
    PROVE  Collected(Seen(found, marks[k + 1], valid_ids), marks, valid_ids, k + 1)
<1> DEFINE m == marks[k + 1]
           next == Append(found, m)
           n == Len(found)
<1>1. m \in Nat /\ found \in Seq(Nat) /\ n \in Nat /\ DOMAIN found = 1..n
      /\ \A i \in 1..n : found[i] \in Nat
    BY DEF Collected
<1>2. \A a \in 1..k : a \in 1..(k + 1)
    OBVIOUS
<1>3. \A a \in 1..(k + 1) : a \in 1..k \/ a = k + 1
    OBVIOUS
<1>4. \A x \in Nat : (\E a \in 1..(k + 1) : marks[a] = x) <=> (\E a \in 1..k : marks[a] = x) \/ x = m
    BY <1>2, <1>3
<1> HIDE DEF m
<1>5. CASE ~ (m \in valid_ids /\ ~ Contains(found, m))
    <2>1. \A x \in Nat : x = m => (Contains(found, x) <=> x \in valid_ids)
        BY <1>1, <1>5 DEF Collected
    <2>2. \A x \in Nat : Contains(found, x)
                         <=> x \in valid_ids /\ \E a \in 1..(k + 1) : marks[a] = x
        BY <1>4, <2>1 DEF Collected
    <2>3. Seen(found, m, valid_ids) = found
        BY <1>5 DEF Seen
    <2> QED
        BY <1>2, <2>2, <2>3 DEF Collected, m
<1>6. CASE m \in valid_ids /\ ~ Contains(found, m)
    <2>1. Seen(found, m, valid_ids) = next
        BY <1>6 DEF Seen
    <2>2. /\ next \in Seq(Nat) /\ Len(next) = n + 1 /\ DOMAIN next = 1..(n + 1)
          /\ \A i \in 1..n : next[i] = found[i]
          /\ next[n + 1] = m
        BY <1>1
    <2> HIDE DEF next, n
    <2>3. \A x \in Nat : Contains(next, x) <=> Contains(found, x) \/ x = m
        <3>1. \A x : Contains(next, x) <=> \E i \in 1..(n + 1) : next[i] = x
            BY <2>2 DEF Contains
        <3>2. \A x : Contains(found, x) <=> \E i \in 1..n : found[i] = x
            BY DEF Contains, n
        <3>3. n + 1 \in 1..(n + 1) /\ \A i \in 1..(n + 1) : i \in 1..n \/ i = n + 1
            BY <1>1
        <3>4. \A i \in 1..n : i \in 1..(n + 1)
            BY <1>1
        <3> QED
            BY <2>2, <3>1, <3>2, <3>3, <3>4
    <2>4. \A x \in Nat : Contains(next, x)
                         <=> x \in valid_ids /\ \E a \in 1..(k + 1) : marks[a] = x
        BY <1>4, <1>6, <2>3 DEF Collected
    <2>5. ASSUME NEW i \in 1..(n + 1), NEW j \in 1..(n + 1), i < j
          PROVE  \E a \in 1..(k + 1) : marks[a] = next[i] /\ \A b \in 1..a : marks[b] # next[j]
        <3>1. i \in 1..n /\ next[i] = found[i]
            BY <1>1, <2>2, <2>5
        <3>2. CASE j \in 1..n
            <4>1. next[j] = found[j]
                BY <2>2, <3>2
            <4>2. PICK a \in 1..k : marks[a] = found[i] /\ \A b \in 1..a : marks[b] # found[j]
                BY <1>1, <2>5, <3>1, <3>2 DEF Collected
            <4> QED
                BY <1>2, <3>1, <4>1, <4>2
        <3>3. CASE j = n + 1
            <4>1. next[j] = m
                BY <2>2, <3>3
            <4>2. Contains(found, found[i]) /\ found[i] \in Nat
                BY <1>1, <3>1 DEF Contains, n
            <4>3. PICK a \in 1..k : marks[a] = found[i]
                BY <4>2 DEF Collected
            <4>4. \A b \in 1..k : marks[b] # m
                BY <1>1, <1>6 DEF Collected
            <4>5. \A b \in 1..a : b \in 1..k
                OBVIOUS
            <4> QED
                BY <1>2, <3>1, <4>1, <4>3, <4>4, <4>5
        <3> QED
            BY <1>1, <3>2, <3>3
    <2>6. \A i, j \in DOMAIN next : i < j =>
            \E a \in 1..(k + 1) : marks[a] = next[i] /\ \A b \in 1..a : marks[b] # next[j]
        <3>1. \A i, j \in 1..(n + 1) : i < j =>
                \E a \in 1..(k + 1) : marks[a] = next[i] /\ \A b \in 1..a : marks[b] # next[j]
            BY <2>5
        <3>2. DOMAIN next = 1..(n + 1)
            BY <2>2
        <3> QED
            BY Zenon, <3>1, <3>2
    <2>7. Collected(next, marks, valid_ids, k + 1)
        BY <2>2, <2>4, <2>6 DEF Collected
    <2> QED
        BY <2>1, <2>7 DEF m
<1> QED
    BY <1>5, <1>6

LEMMA FirstSeenCollects ==
    ASSUME NEW marks \in Seq(Nat), NEW valid_ids
    PROVE  Collected(FirstSeen(marks, valid_ids), marks, valid_ids, Len(marks))
<1> DEFINE N == Len(marks)
           result[k \in 0..N] ==
               IF k = 0 THEN <<>>
               ELSE IF marks[k] \in valid_ids /\ ~ Contains(result[k - 1], marks[k])
                    THEN Append(result[k - 1], marks[k]) ELSE result[k - 1]
           S == {k \in Nat : k \in 0..N => Collected(result[k], marks, valid_ids, k)}
<1>1. N \in Nat /\ FirstSeen(marks, valid_ids) = result[N]
    BY DEF FirstSeen
<1>2. IsLoop(result, marks, valid_ids, N)
    <2> HIDE DEF N
    <2>1. \E f : IsLoop(f, marks, valid_ids, N)
        BY <1>1, LoopsExist
    <2> QED
        BY <2>1 DEF IsLoop, Seen
<1> HIDE DEF result
<1>3. result[0] = <<>>
    BY <1>1, <1>2 DEF IsLoop
<1>4. 0 \in S
    <2>1. Collected(<<>>, marks, valid_ids, 0)
        BY DEF Collected, Contains
    <2> QED
        BY <1>3, <2>1
<1>5. ASSUME NEW k \in Nat, k \in S PROVE k + 1 \in S
    <2> SUFFICES ASSUME k + 1 \in 0..N
                 PROVE  Collected(result[k + 1], marks, valid_ids, k + 1)
        OBVIOUS
    <2>1. k \in 0..N /\ k + 1 \in 1..N /\ k + 1 # 0 /\ (k + 1) - 1 = k
        BY <1>1
    <2>2. result[k + 1] = Seen(result[k], marks[k + 1], valid_ids)
        BY <1>2, <2>1 DEF IsLoop
    <2> QED
        BY <1>5, <2>1, <2>2, SeenCollects
<1>6. N \in S
    <2> HIDE DEF S, N
    <2> QED
        BY <1>1, <1>4, <1>5, NatSetInduction
<1> QED
    BY <1>1, <1>6

-----------------------------------------------------------------------------
\* Every variable has its type, for any documents, sizes and answers, and one
\* document at a time is being cut.
THEOREM TypeCorrect == Spec => []TypeOK
<1>1. Init => Rest
    BY EvidenceAssumption DEF Init, ChunkingInit, Rest
<1>2. IInv /\ Rest => TypeOK
    BY DEF IInv, Rest, Types, Cursors, Piece, Good, CursorFits, On, TypeOK
<1> QED
    BY <1>1, <1>2, RestKeeps, Invariance, PTL DEF Spec

\* Whatever the text, the chunk size and the overlap, every passage of at most
\* overlap + 1 characters is whole in a chunk (chunk_text and ingest's loop).
THEOREM PassagesSurvive == Spec => []SpansAreWhole
<1>1. IInv => SpansAreWhole
    BY DEF IInv, Good, HeldAll, SpansAreWhole, Whole, Passage, Held
<1> QED
    BY <1>1, Invariance, PTL

\* Chunks are stored in reading order, no two from the same character.
THEOREM ReadingOrder == Spec => []PiecesAreOrdered
<1>1. IInv => PiecesAreOrdered
    BY DEF IInv, Good, Ordered, PiecesAreOrdered
<1> QED
    BY <1>1, Invariance, PTL

\* Every question finds each document whole or not at all.
THEOREM DocumentsAreWhole == Spec => []EvidenceIsWhole
<1>1. ASSUME IInv PROVE EvidenceIsWhole
    <2> SUFFICES ASSUME NEW d \in {c.doc : c \in candidates}
                 PROVE  Whole(d, {i \in DOMAIN pieces[d] : [doc |-> d, index |-> i] \in candidates})
        BY DEF EvidenceIsWhole
    <2>1. d \in DocumentIds /\ \E c \in candidates : c.doc = d
        BY <1>1 DEF IInv, Chunk
    <2>2. AllOrNone(d) /\ HeldAll(d)
        BY <1>1, <2>1 DEF IInv, Good
    <2>3. /\ place[d] = "ready"
          /\ {i \in DOMAIN pieces[d] : [doc |-> d, index |-> i] \in candidates} = DOMAIN pieces[d]
        BY <2>1, <2>2 DEF AllOrNone
    <2>4. Whole(d, DOMAIN pieces[d])
        BY <2>2, <2>3 DEF HeldAll, Whole, Passage, Held
    <2> QED
        BY <2>3, <2>4
<1> QED
    BY <1>1, Invariance, PTL
\* The sources of an answer are the best of what its question found, at most
\* top_k of them (retrieve), for any number of documents and any similarities.
THEOREM TopAreBestHolds == Spec => []TopAreBest
<1>1. Ranking => TopAreBest
    BY DEF Ranking
<1> QED
    BY <1>1, QuestionsBegin, RankingKeeps, RestKeeps, Invariance, PTL DEF Spec

\* The citations of an answer are its valid marks, each once, in the order they
\* are first seen (extract_valid_citations), for every answer.
THEOREM CitationsAreSourcesHolds == Spec => []CitationsAreSources
<1>1. ASSUME IInv, Rest, Ranking, CitationsAreSources, [Next]_vars PROVE CitationsAreSources'
    <2>1. CASE Cite
        <3>1. /\ answer' \in Seq(Nat) /\ cited' = FirstSeen(answer', 1..Len(sources))
              /\ sources' = sources /\ DOMAIN sources = 1..Len(sources)
            BY <1>1, <2>1, EvidenceAssumption DEF Cite, Citations, Ranking
        <3>2. Collected(cited', answer', DOMAIN sources, Len(answer'))
            BY <3>1, FirstSeenCollects
        <3>3. ASSUME NEW m \in {answer'[a] : a \in DOMAIN answer'}
                               \cup {cited'[i] : i \in DOMAIN cited'}
              PROVE  Contains(cited', m) <=> Contains(answer', m) /\ m \in DOMAIN sources
            <4>1. m \in Nat
                BY <3>1, <3>2 DEF Collected
            <4> QED
                BY <3>2, <4>1 DEF Collected, Contains
        <3> QED
            BY SMTT(30), <3>1, <3>2, <3>3 DEF CitationsAreSources, Collected
    <2>2. CASE UNCHANGED question_vars
        BY <1>1, <2>2 DEF CitationsAreSources, question_vars
    <2>3. CASE Ask \/ EmbedQueryFails \/ Rank
        BY <2>3 DEF CitationsAreSources, Ask, EmbedQueryFails, Rank
    <2> QED
        BY <1>1, <2>1, <2>2, <2>3 DEF Next, Uploading, Finished, vars
<1>2. Init => CitationsAreSources
    BY DEF Init, CitationsAreSources
<1>3. Init => Ranking /\ Rest
    BY QuestionsBegin
<1> QED
    BY <1>1, <1>2, <1>3, RankingKeeps, RestKeeps, Invariance, PTL DEF Spec
=============================================================================
