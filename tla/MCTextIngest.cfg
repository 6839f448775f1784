CONSTANTS
    Letters = {"A", "b"}
    Lower <- MCLower
    MaxText = 6
    TokenMax = 3
    Dim = 2
    Hash <- MCHash

SPECIFICATION Spec

INVARIANTS
    ParagraphsExact
    VectorsExact
    DocumentsCounted
