\* Two documents that are written, shortened and deleted between starts.
CONSTANTS
    Stems = {a, b}
    p1 = p1
    p3 = p3
    p5 = p5
    p6 = p6
    p11 = p11
    Paragraphs = {p1, p3, p5, p6, p11}
    Size <- SizeMC
    Texts <- TextsMC
    MaxLength = 5
    ChunkChars = 10
    TopK = 2
SPECIFICATION RetSpec
INVARIANTS
    RetTypeOK
    SplitIsGreedy
    IndexIsCurrent
    EmptyBaseRetrievesNothing
