SPECIFICATION Spec
CONSTANTS
    Device = {"l", "a"}
    Local = "l"
    InitialWriters = {"l", "a"}
    Rosters <- Changing
    OtherStreams = {TRUE, FALSE}
    Entry <- ForkedUniverse
    MaxEntryLamport = 4
    MaxLamportAdvance = 1
    MaxGappedPerChain = 2
INVARIANTS TypeOK WitnessIsTail ChainContiguous NoStrandedEntry HeldStaysPromotable ObligationOutstanding
PROPERTIES WitnessNeverRegresses ObligationKept
