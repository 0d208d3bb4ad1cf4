SPECIFICATION FairSpec
CONSTANTS
    none = none
    NoCursor = none
    MIN_CHUNK_SIZE = 2
    MAX_CHUNK_SIZE = 3
    DocumentIds <- MCDocumentIds
    Inputs <- MCInputs
    Similarities = {0, 1, 2}
    similarity_threshold = 1
    MIN_TOP_K = 1
    MAX_TOP_K = 2
    Answers <- MCAnswers
INVARIANT PiecesAreOrdered
INVARIANT EvidenceIsWhole
INVARIANT TopAreBest
INVARIANT CitationsAreSources
PROPERTY IngestionEnds
