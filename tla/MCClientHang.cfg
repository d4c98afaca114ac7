SPECIFICATION FairSpec
CONSTANTS
    MaxPackets = 7
    WindowSize = 2
    RtoTicks = 2
    SeqMod = 4
    WordMod = 8
    PpsLimit = 0
PROPERTY RunsToItsBudget
CHECK_DEADLOCK FALSE
