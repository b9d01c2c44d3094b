\* Every record of at most one output per pool, and up to one spent
\* nullifier added to it.
CONSTANTS
    NoIndex = NoIndex
    NoPrice = NoPrice
    Tx = tx
    Nullifiers = {nf}
    MaxNullifiers = 1
SPECIFICATION Spec
\* A record stops changing once its nullifiers are recorded.
CHECK_DEADLOCK FALSE
INVARIANTS TypeOK QuerySumPartitions UnspentNotesExact QueryIdsAgree
