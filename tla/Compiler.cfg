SPECIFICATION Spec

CONSTANTS
    jwt = jwt
    JWT = JWT
    quoted = quoted
    ledger = ledger
    id1 = id1
    id2 = id2
    id3 = id3
    norm1 = norm1
    norm2 = norm2
    norm3 = norm3
    None = None
    Names = {jwt, JWT, quoted, ledger}
    Ids = {id1, id2, id3}
    IdOf <- MCIdOf
    Normal = {norm1, norm2, norm3}
    NormOf <- MCNormOf
    Tables <- MCTables
    MaxTriplets = 2

INVARIANTS
    IInv
    RefusedIffAmbiguous
    GraphOfTriplets
    SchemaKept
    EdgesContributed

\* A document is compiled and persisted, or refused, and that is the end.
CHECK_DEADLOCK FALSE
