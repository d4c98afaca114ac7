SPECIFICATION FairSpec
CONSTANTS
    a = a
    b = b
    c = c
    Apps <- AppSet
    NPackets <- PacketsOf
    WordMod = 5
    BufferSize = 2
INVARIANTS
    OneSendChain
    OffersAsAsked
PROPERTIES
    SendsOnlyWhenConnected
    SendsAll
CHECK_DEADLOCK FALSE
