SPECIFICATION FairSpec

CONSTANTS
    d1 = d1
    d2 = d2
    blank = blank
    text1 = text1
    nul = nul
    extract1 = extract1
    extract2 = extract2
    promote1 = promote1
    compile1 = compile1
    compile2 = compile2
    persist1 = persist1
    persist2 = persist2
    alice1 = alice1
    alice2 = alice2
    alice = alice
    None = None
    Blank = blank
    Unstorable = {nul}
    Docs = {d1, d2}
    Files = {"a.txt", "b.docx"}
    FormatOf <- MCFormat
    Texts = {blank, nul}
    Workers = {extract1, promote1, compile1}
    Role <- MCRole
    Reviewers = {alice1, alice2}
    Person <- MCPerson
    MaxAttempts = 1
    MaxFaults = 1

INVARIANTS
    FenceUnique
    LineageVersions
    EvidenceRoot
    IInv

PROPERTIES
    ApprovedAsSeen
    ApproveReturns

\* The system stops once every document is persisted, failed or waiting.
CHECK_DEADLOCK FALSE
