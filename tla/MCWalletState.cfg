\* One user session: every import kind, every encryption call and write(),
\* four calls in any order.
CONSTANTS
    m1 = m1
    HdKey = hd
    Materials = {m1}
    Activation = 2
    Birthday0 = 5
    InitEncrypted = FALSE
    InitUnlocked = FALSE
    Notes <- MCNotes
    NoteHeight <- MCNoteHeight
    MaxHeight = 6
    MaxBlocks = 2
    MaxRestarts = 1
    ConcurrentSync = FALSE
    OpsPerProc = 4
    Procs <- UserProcs
    ProcOps <- UserOps
SPECIFICATION Spec
\* A session stops after its last call.
CHECK_DEADLOCK FALSE
INVARIANTS TypeOK NoDuplicateKeys ScannedNotesKnown RoundTrip
