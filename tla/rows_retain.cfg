SPECIFICATION Spec
CONSTANTS
    Device = {1, 2}
    Writers = {1, 2}
    Roster <- Steady
    Row = {r, s}
    Cells <- OneCell
    OldCells <- OneCell
    MaxVersion = 1
    Malformed = {}
    Keep = 1
    MaxLamport = 3
    MaxEdits = 4
INVARIANTS FreshPeerComplete Converged
CHECK_DEADLOCK FALSE
