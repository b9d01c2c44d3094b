CONSTANTS
    Senders = {s1}
    NoteIds = {n1, n2, n3}
    Incoming <- MCIncoming
    AnchorOffset <- MCAnchorOffset
    NoTx = NoTx
    ExtTx = ExtTx
    Birthday = 1
    MaxHeight = 3
    MaxBlocks = 2
    SendsPerSender = 1
    Amounts = {1}
    Fee = 1
    ExternalSpends = FALSE
    Clearing = TRUE
    MaxRestarts = 0

SPECIFICATION Spec

\* The wallet stops when its sends are done and the chain reaches MaxHeight.
CHECK_DEADLOCK FALSE

INVARIANT SendNeverPanics
