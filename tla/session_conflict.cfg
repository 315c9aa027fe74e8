SPECIFICATION Spec
CONSTANTS
    Node = {"k", "x", "y"}
    Keeper = "k"
    Dials <- Peers
    Device = {1, 2}
    Entry <- Conflicting
    Seed <- ConflictSeed
    SignsAs <- Signers
    MaxEntryLamport = 9
    MaxLamportAdvance = 9
    MaxGappedPerChain = 3
    ChainsPerPage = 2
    ChainsPerSession = 3
    EntriesPerPage = 2
    EntriesPerSession = 2
    Window = 1
    MaxRounds = 2
    MaxFaults = 3
INVARIANT NoSessionError
