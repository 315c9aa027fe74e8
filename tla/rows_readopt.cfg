SPECIFICATION Spec
CONSTANTS
    Device = {1, 2, 3}
    Writers = {1, 2, 3}
    Roster <- ThirdLeaves
    Row = {r}
    Cells <- PlainCells
    OldCells <- PlainCells
    MaxVersion = 1
    Malformed = {}
    Keep = 1
    MaxLamport = 3
    MaxEdits = 2
INVARIANTS Converged FreshPeerComplete
CHECK_DEADLOCK FALSE
