SPECIFICATION Spec

CONSTANTS
    persist1 = persist1
    persist2 = persist2
    model1 = model1
    model2 = model2
    None = None
    Docs = {1, 2, 3}
    FileOf <- MCFileOf
    Keys = {1, 2}
    Props = {"status"}
    Values = {"accepted"}
    GraphsOf <- MCFewGraphs
    Models = {model1, model2}
    Workers = {persist1}
    MaxAttempts = 2
    MaxFaults = 1

SYMMETRY Symmetric

INVARIANTS
    SoleIInv
    SliceExact

PROPERTIES
    PersistedAsCompiled
    EmbeddingPinned

\* The system stops once every document is persisted or failed.
CHECK_DEADLOCK FALSE
