\* One request of up to three tokens, characters of three bytes, both routes.
CONSTANTS
    Ascii = {"x", "y"}
    Tokens <- MCTokens
    Width = 3
    MaxTokens = 3
SPECIFICATION FairSpec
INVARIANTS
    TypeOK
    LinesUp
    DoneMeansWhole
PROPERTIES
    EndsOnce
    Ends
CHECK_DEADLOCK FALSE
