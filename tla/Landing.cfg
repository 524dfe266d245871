SPECIFICATION FairSpec

CONSTANTS
    draft = draft
    final = final
    inode1 = inode1
    inode2 = inode2
    None = None
    PathCount = 2
    Supported = {1, 2}
    TextPaths = {1}
    Unstorable = {1}
    Versions = {draft, final}
    LengthOf <- MCLength
    MaxLength = 2
    Binary = {draft}
    Inodes = {inode1, inode2}
    Window = 2
    Limit = 2
    Pause = 1
    MaxTime = 5
    Mtimes = {0, 3}
    MaxChanges = 2
    MaxFaults = 2

INVARIANTS
    IInv
    WholeVersions
    RowHasObject

PROPERTIES
    EventuallyLanded
    ImplementsArchive
