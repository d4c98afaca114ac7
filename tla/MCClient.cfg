SPECIFICATION FairSpec
CONSTANTS
    MaxPackets = 7
    WindowSize = 3
    RtoTicks = 4
    SeqMod = 8
    WordMod = 32
    PpsLimit = 0
INVARIANTS
    WindowBound
    TimersMatch
    NoStrandedPacket
    WaitIsTimed
    OneSendChain
    Accounting
    QueueBound
PROPERTIES
    ImplementsSelectiveRepeat
    EchoedInTime
    RunsToItsBudget
CHECK_DEADLOCK FALSE
