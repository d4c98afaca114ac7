SPECIFICATION Spec
CONSTANTS
    MaxPackets = 10
    WindowSize = 3
    RtoTicks = 2
    SeqMod = 5
    WordMod = 32
    PpsLimit = 1
INVARIANTS
    SpinsOnlyAtTheEnd
    RangesAreUnits
    TypeInvariant
    WindowBound
    TimersMatch
    QuietAfterStop
CHECK_DEADLOCK FALSE
