CONSTANTS
    NoteIds = {n1, n2, n3}
    Targets = {1, 2, 3, 4}
    Tx = tx
    NoTx = NoTx
    AnchorOffset <- MCAnchorOffset

SYMMETRY Symmetry

SPECIFICATION Spec

INVARIANT TypeOK
INVARIANT SelectionComplete
INVARIANT SelectionSound
