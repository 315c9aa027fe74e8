SPECIFICATION FairSpec
CONSTANTS
    Device = {"l", "a"}
    Local = "l"
    InitialWriters = {"l", "a"}
    Rosters = {}
    OtherStreams = {FALSE}
    Entry <- HangUniverse
    MaxEntryLamport = 4
    MaxLamportAdvance = 2
    MaxGappedPerChain = 2
PROPERTIES IngestTerminates
