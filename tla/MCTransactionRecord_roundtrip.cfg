\* Every record of at most one output per pool: one write and read back.
CONSTANTS
    NoIndex = NoIndex
    NoPrice = NoPrice
    Tx = tx
    Nullifiers = {nf}
    MaxNullifiers = 1
SPECIFICATION Spec
\* A record stops changing once its nullifiers are recorded.
CHECK_DEADLOCK FALSE
INVARIANT RoundTrip
