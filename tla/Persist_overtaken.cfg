SPECIFICATION Spec

CONSTANTS
    persist1 = persist1
    persist2 = persist2
    model1 = model1
    model2 = model2
    None = None
    Docs = {1, 2}
    FileOf <- MCFileOf
    Keys = {1}
    Props = {"status"}
    Values = {"accepted"}
    GraphsOf <- MCGraphs
    Models = {model1}
    Workers = {persist1}
    MaxAttempts = 2
    MaxFaults = 0

SYMMETRY Symmetric

INVARIANTS
    SliceReplaced

\* The system stops once every document is persisted or failed.
CHECK_DEADLOCK FALSE
