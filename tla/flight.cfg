CONSTANTS
    Proc = {p1, p2, p3}
    Key = {k1, k2}
    Signal = {s1, s2, s3}
    Inert = {s3}
    Outcome = {"ran", "requeue", "carry"}
    Crashes = TRUE
    None = None
    NoProc = NoProc
SPECIFICATION Spec
INVARIANTS FlightInv OnePassPerKey
PROPERTIES NeverForgets Implements Served Returns
CHECK_DEADLOCK FALSE
