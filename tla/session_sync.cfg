SPECIFICATION FairSpec
CONSTANTS
    Node = {"k", "x", "y"}
    Keeper = "k"
    Dials <- Peers
    Device = {1, 2}
    Entry <- Universe
    Seed <- SyncSeed
    SignsAs <- SyncSigners
    MaxEntryLamport = 9
    MaxLamportAdvance = 9
    MaxGappedPerChain = 3
    ChainsPerPage = 2
    ChainsPerSession = 3
    EntriesPerPage = 2
    EntriesPerSession = 2
    Window = 1
    MaxRounds = 2
    MaxFaults = 2
INVARIANTS SessionInv NoSessionError QuietIsConverged OwedIsPending
PROPERTY Converges
