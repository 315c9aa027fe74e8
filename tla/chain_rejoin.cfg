CONSTANTS
    Device = {"l", "a"}
    Local = "l"
    InitialWriters = {"l", "a"}
    Rosters = {}
    OtherStreams = {FALSE}
    Entry <- PeerChainLong
    MaxEntryLamport = 4
    MaxLamportAdvance = 2
    MaxGappedPerChain = 2
SPECIFICATION Spec
PROPERTY RestoreKeepsSuffix
