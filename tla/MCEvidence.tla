----------------------------- MODULE MCEvidence -----------------------------
(* Every text of up to four characters and a few documents of several pages *)
(* at the smallest chunk sizes, next to a second document and one question.  *)
EXTENDS Evidence
CONSTANT none

MCDocumentIds == 1..2
Texts == UNION {[1..n -> BOOLEAN] : n \in 1..4}
V == <<TRUE>>
VV == <<TRUE, TRUE>>
Gap == <<TRUE, FALSE, FALSE, TRUE, TRUE>>
Blanks == <<FALSE, FALSE>>
Documents == {<<t>> : t \in Texts}
             \cup {<<VV, V>>, <<Blanks, Gap>>, <<Gap>>, <<V, Blanks, VV>>}
Configs == {[chunk_size |-> s, overlap |-> o] : s \in 1..4, o \in -1..3}
Notice == [pages |-> <<VV, V>>, config |-> [chunk_size |-> 3, overlap |-> 1]]
MCInputs == <<{[pages |-> f, config |-> c] : f \in Documents, c \in Configs}, {Notice}>>
MCAnswers == {<<2, 1, 2>>, <<3, 1>>}
=============================================================================
