\* One sender making one send against sync, spends by other wallets,
\* clear_all with rescans, write() at any point and one restart; a
\* sapling and an orchard note (three notes and a restart with clear_all
\* are beyond a five-minute run).
CONSTANTS
    Senders = {s1}
    NoteIds = {n1, n2}
    Incoming <- MCIncoming
    AnchorOffset <- MCAnchorOffset
    NoTx = NoTx
    ExtTx = ExtTx
    Birthday = 1
    MaxHeight = 3
    MaxBlocks = 2
    SendsPerSender = 1
    Amounts = {1}
    Fee = 1
    ExternalSpends = TRUE
    Clearing = TRUE
    MaxRestarts = 1

SPECIFICATION Spec

\* The wallet stops when its sends are done and the chain reaches MaxHeight.
CHECK_DEADLOCK FALSE

INVARIANT PendingMarksAccepted
