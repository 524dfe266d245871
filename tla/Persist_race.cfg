SPECIFICATION Spec

CONSTANTS
    persist1 = persist1
    persist2 = persist2
    model1 = model1
    model2 = model2
    None = None
    Docs = {1, 2, 3}
    FileOf <- MCFileOf
    Keys = {1}
    Props = {"status"}
    Values = {}
    GraphsOf <- MCGraphs
    Models = {model1}
    Workers = {persist1, persist2}
    MaxAttempts = 1
    MaxFaults = 1

SYMMETRY Symmetric

INVARIANTS
    IInv

PROPERTIES
    OnlySuperseded

\* The system stops once every document is persisted or failed.
CHECK_DEADLOCK FALSE
