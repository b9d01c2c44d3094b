\* The autosave's write() racing the clear_all of a rescan, then a restart
\* from the file that write() produced.
CONSTANTS
    m1 = m1
    HdKey = hd
    Materials = {m1}
    Activation = 2
    Birthday0 = 5
    InitEncrypted = FALSE
    InitUnlocked = FALSE
    Notes <- MCNotes
    NoteHeight <- MCNoteHeight
    MaxHeight = 6
    MaxBlocks = 2
    MaxRestarts = 1
    ConcurrentSync = FALSE
    OpsPerProc = 1
    Procs <- RescanProcs
    ProcOps <- RescanRaceOps
SPECIFICATION Spec
\* Each task makes one call and stops.
CHECK_DEADLOCK FALSE
INVARIANT ScannedNotesKnown
