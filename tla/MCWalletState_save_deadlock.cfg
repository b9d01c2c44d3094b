\* write() of a locked wallet, or send_to_address reading its change address,
\* racing unlock() or lock().
CONSTANTS
    m1 = m1
    HdKey = hd
    Materials = {m1}
    Activation = 2
    Birthday0 = 5
    InitEncrypted = TRUE
    InitUnlocked = FALSE
    Notes <- MCNotes
    NoteHeight <- MCNoteHeight
    MaxHeight = 6
    MaxBlocks = 2
    MaxRestarts = 1
    ConcurrentSync = FALSE
    OpsPerProc = 1
    Procs <- SaveProcs
    ProcOps <- SaveRaceOps
SPECIFICATION Spec
\* Each task makes one call and stops.
CHECK_DEADLOCK FALSE
PROPERTY AllCallsReturn
