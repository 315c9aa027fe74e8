SPECIFICATION Spec
CONSTANTS
    Device = {1, 2, 3}
    Writers = {1, 2, 3}
    Roster <- Steady
    Row = {r}
    Cells <- PlainCells
    OldCells <- PlainCells
    MaxVersion = 1
    Malformed <- MayBeMalformed
    Keep = 0
    MaxLamport = 2
    MaxEdits = 3
INVARIANTS TypeOK ClockNewerThanTombstone MergeIsLatest PublishedIsWinner Converged SelfApplyWins
CHECK_DEADLOCK FALSE
