SPECIFICATION Spec
CONSTANTS
    Device = {1, 2}
    Writers = {1, 2}
    Roster <- SecondReturns
    Row = {r}
    Cells <- GrownCells
    OldCells <- FirstCells
    MaxVersion = 2
    Malformed = {}
    Keep = 0
    MaxLamport = 3
    MaxEdits = 3
INVARIANTS WritesAreEdits FreshPeerComplete
PROPERTIES LocalWorkKept ProduceSettles
CHECK_DEADLOCK FALSE
