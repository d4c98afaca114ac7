SPECIFICATION Spec
CONSTANTS
    MaxPackets = 8
    WindowSize = 4
    RtoTicks = 3
    SeqMod = 9
    WordMod = 32
    PpsLimit = 0
    LinkCapacity = 3
INVARIANT DropRateIsAPercentage
CHECK_DEADLOCK FALSE
