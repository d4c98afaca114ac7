SPECIFICATION FairSpec
CONSTANTS
    MaxPackets = 3
    WindowSize = 2
    RtoTicks = 2
    SeqMod = 4
    WordMod = 8
    PpsLimit = 0
PROPERTY EveryPacketReturned
CHECK_DEADLOCK FALSE
