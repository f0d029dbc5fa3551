\* The same instance.
CONSTANTS
    Ascii = {"x", "y"}
    Tokens <- MCTokens
    Width = 3
    MaxTokens = 3
SPECIFICATION Spec
INVARIANT
    Reassembles
CHECK_DEADLOCK FALSE
