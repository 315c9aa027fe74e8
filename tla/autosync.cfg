CONSTANTS
    Proc = {p1, p2, p3}
    Key = {1, 2}
    Signal = {s1, s2}
    Inert = {}
    Outcome = {}
    Crashes = FALSE
    None = None
    NoProc = NoProc
    Attempts = 2
    Manual = {p3}
    MayFail = TRUE
    FirstStore = "absent"
SPECIFICATION AutosyncSpec
INVARIANTS OneWalkPerKey
PROPERTIES NothingForgotten AllReturn
CHECK_DEADLOCK FALSE
