\* Three rows, three tokens, two vectors of logits and nine requests.
CONSTANTS
    NumRows = 3
    NumTokens = 3
    Bodies <- MCBodies
    LogitVectors <- MCLogits
    MaxNewTokens = 60
    MaxInt32 = 99
    NoParams = NoParams
SPECIFICATION Spec
INVARIANTS
    TypeOK
    SameThroughEveryDoor
    OwnSettings
    NucleusExact
CHECK_DEADLOCK FALSE
