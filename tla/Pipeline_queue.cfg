SPECIFICATION FairSpec

CONSTANTS
    d1 = d1
    d2 = d2
    blank = blank
    text1 = text1
    nul = nul
    extract1 = extract1
    extract2 = extract2
    promote1 = promote1
    compile1 = compile1
    compile2 = compile2
    persist1 = persist1
    persist2 = persist2
    alice1 = alice1
    alice2 = alice2
    alice = alice
    None = None
    Blank = blank
    Unstorable = {}
    Docs = {d1}
    Files = {"a.docx", "scan.pdf"}
    FormatOf <- MCFormat
    Texts = {blank, text1}
    Workers = {extract1, extract2, promote1, compile1, compile2, persist1, persist2}
    Role <- MCRole
    Reviewers = {alice1}
    Person <- MCPerson
    MaxAttempts = 2
    MaxFaults = 2

INVARIANTS
    TypeOK
    RetryBudget
    AttemptsCharged

PROPERTIES
    FreshBudget
    ImplementsLifecycle
    Progress

\* The system stops once every document is persisted, failed or waiting.
CHECK_DEADLOCK FALSE
