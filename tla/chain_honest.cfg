SPECIFICATION FairSpec
CONSTANTS
    Device = {"l", "a"}
    Local = "l"
    InitialWriters = {"l", "a"}
    Rosters <- Leaving
    OtherStreams = {FALSE}
    Entry <- HonestUniverse
    MaxEntryLamport = 4
    MaxLamportAdvance = 1
    MaxGappedPerChain = 3
INVARIANTS NoSelfFork 
PROPERTIES IngestTerminates
