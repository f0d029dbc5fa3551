\* Three sequences through a batch of up to three rows, with prompts of one and
\* three tokens and one too long for the context.
CONSTANTS
    s1 = s1
    s2 = s2
    s3 = s3
    Ids = {s1, s2, s3}
    Budget <- Budgets
    PromptLengths = {1, 3, 7}
    MaxContext = 5
    MaxBatchSize = 3
SPECIFICATION Spec
INVARIANTS
    TypeOK
    RowFaithful
    NoCommonPadding
    WithinContext
    CachedAsUncached
PROPERTY SoloSpec
CHECK_DEADLOCK FALSE
