SPECIFICATION Spec

CONSTANTS
    draft = draft
    final = final
    inode1 = inode1
    inode2 = inode2
    blank = blank
    text1 = text1
    extract1 = extract1
    promote1 = promote1
    compile1 = compile1
    alice1 = alice1
    alice = alice
    None = None
    PathCount = 2
    FormatOf <- MCFormat
    UnstorableNames = {}
    Versions = {draft, final}
    LengthOf <- MCLength
    MaxLength = 2
    Binary = {final}
    Inodes = {inode1, inode2}
    Window = 1
    Limit = 2
    Pause = 0
    Mtimes = {0}
    MaxTime = 1
    MaxChanges = 2
    MaxScanFaults = 1
    Texts = {blank, text1}
    Blank = blank
    UnstorableTexts = {}
    Workers = {extract1, promote1, compile1}
    Role <- MCRole
    Reviewers = {alice1}
    Person <- MCPerson
    MaxAttempts = 1
    MaxFaults = 0

SYMMETRY MCSymmetry

INVARIANTS
    IInv
    Rooted
    VersionsSaved
    Extractable

PROPERTIES
    ImplementsLanding
    ImplementsPipeline

\* The system stops once every document is compiled, failed or waiting.
CHECK_DEADLOCK FALSE
