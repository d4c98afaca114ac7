SPECIFICATION Spec
CONSTANTS
    a = a
    b = b
    Nodes = {a, b}
    Containers <- OneOrTwoNodes
    DefaultPackets = 2
    PacketCounts = {0}
    MaxClients = 2
    WordMod = 8
    PpsLimit = 1
INVARIANTS
    TypeOK
    EchoesToSender
    LogAddsUp
CHECK_DEADLOCK FALSE
