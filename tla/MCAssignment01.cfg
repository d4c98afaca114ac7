SPECIFICATION Spec
CONSTANTS
    StartAt <- Starts
    StopAt <- Stops
    EndAt = 7
    Queue = 2
    MaxDatagrams = 3
INVARIANTS
    TypeOK
    RatesAddUp
    CreditedToItsFlow
CHECK_DEADLOCK FALSE
