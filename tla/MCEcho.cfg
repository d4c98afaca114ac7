SPECIFICATION FairSpec
CONSTANTS
    MaxPackets = 6
    WindowSize = 3
    RtoTicks = 4
    SeqMod = 8
    WordMod = 32
    PpsLimit = 1
    LinkCapacity = 2
INVARIANTS
    GapLossIsReal
    RetransRecvIsReal
PROPERTIES
    RunsToItsBudget
    ImplementsClientOverUdp
    ImplementsFleet
CHECK_DEADLOCK FALSE
